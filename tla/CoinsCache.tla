----------------------------- MODULE CoinsCache -----------------------------
(***************************************************************************)
(* The stack of coin views: the coin database (CCoinsViewDB), the cache    *)
(* over it (pcoinsTip) and the temporary view over that cache in which     *)
(* ConnectTip and DisconnectTip apply one block. Each cache entry carries  *)
(* two flags, DIRTY and FRESH, which say how it relates to the view below  *)
(* and decide what a flush may leave out; a wrong flag resurrects a spent  *)
(* output or forgets an unspent one, many blocks later.                    *)
(*                                                                         *)
(* Code: src/src/coins.h, src/src/coins.cpp, the coin database of          *)
(* src/src/txdb.cpp, and their use in src/src/main.cpp, all of it under    *)
(* cs_main. The database's batch write is atomic (LevelDB).                *)
(***************************************************************************)
CONSTANTS Txs,          \* the transactions
          Outputs,      \* the positions an output can have
          Vout,         \* the spendable outputs of each transaction
          Coinbases,    \* the transactions that are coinbases
          Coinstakes,   \* the transactions that are coinstakes
          Blocks,       \* the blocks
          Genesis,      \* the block whose state is the initial database
          NoEntry,      \* a cache has no entry for a transaction
          NoBlock,      \* a null hashBlock
          NoState       \* a block the chain has not ended in so far

(***************************************************************************)
(* CCoins: the unspent outputs of a transaction and its coinstake mark.    *)
(* The other metadata (coinbase mark, height, version) is written and read *)
(* back with the outputs and is left out.                                  *)
(***************************************************************************)
Coins == [outs : SUBSET Outputs, stake : BOOLEAN]

NoCoins == [outs |-> {}, stake |-> FALSE]

\* CCoinsCacheEntry
Entries == [coins : Coins, dirty : BOOLEAN, fresh : BOOLEAN]

\* What a chain determines: its transactions and which outputs are unspent.
States == [mined : SUBSET Txs, outs : [Txs -> SUBSET Outputs]]

ASSUME ConstantsAssumption ==
    /\ Vout \in [Txs -> SUBSET Outputs]
    /\ Coinbases \subseteq Txs
    /\ Coinstakes \subseteq Txs \ Coinbases
    /\ Genesis \in Blocks
    /\ NoEntry \notin Entries
    /\ NoBlock \notin Blocks
    /\ NoState \notin States

VARIABLES db,           \* CCoinsViewDB: the coins on disk; none are pruned there
          dbBest,       \* its DB_BEST_BLOCK
          tip,          \* pcoinsTip->cacheCoins
          tipBest,      \* pcoinsTip->hashBlock
          view,         \* cacheCoins of the temporary view; empty when there is none
          broken,       \* a write to the coin database has failed
          mined,        \* history: the transactions of the chain the view is of
          stateOf       \* history: the transactions and the unspent outputs of the
                        \* chain that ends in each block

vars == <<db, dbBest, tip, tipBest, view, broken, mined, stateOf>>

Empty == [t \in Txs |-> NoEntry]

Pruned(c) == c.outs = {}

Entry(c, dirty, fresh) == [coins |-> c, dirty |-> dirty, fresh |-> fresh]

\* CCoins::FromTx
FromTx(t) == [outs |-> Vout[t], stake |-> t \in Coinstakes]

-----------------------------------------------------------------------------
(* Reading through the views.                                              *)

\* CCoinsViewCache::FetchCoins of pcoinsTip: on a miss the entry is copied
\* from the database, which has no pruned coins.
TipFetched(t) == IF tip[t] = NoEntry /\ ~Pruned(db[t])
                 THEN Entry(db[t], FALSE, FALSE) ELSE tip[t]

\* The same of the temporary view, whose base may hold pruned coins: those
\* it considers fresh.
ViewFetched(t) ==
    IF view[t] = NoEntry /\ TipFetched(t) # NoEntry
    THEN Entry(TipFetched(t).coins, FALSE, Pruned(TipFetched(t).coins))
    ELSE view[t]

\* What GetCoins of each view returns.
TipCoins(t) == IF tip[t] = NoEntry THEN db[t] ELSE tip[t].coins

ViewCoins(t) == IF view[t] = NoEntry THEN TipCoins(t) ELSE view[t].coins

\* CCoinsViewCache::GetBestBlock
TipGetBestBlock == IF tipBest = NoBlock THEN dbBest ELSE tipBest

NoView == view = Empty

DbOuts == [t \in Txs |-> db[t].outs]
TipOuts == [t \in Txs |-> TipCoins(t).outs]
ViewOuts == [t \in Txs |-> ViewCoins(t).outs]

ViewState == [mined |-> mined, outs |-> ViewOuts]

-----------------------------------------------------------------------------
(* Modifying the temporary view.                                           *)

\* Whether the entry ModifyCoins hands out is fresh: one it inserts is if the
\* base has nothing, or only pruned coins, for the transaction.
OpenedFresh(t) == IF view[t] # NoEntry THEN view[t].fresh
                  ELSE TipFetched(t) = NoEntry \/ Pruned(TipFetched(t).coins)

\* That entry once its coins are c; it is dirty in any case.
Opened(t, c) == Entry(c, TRUE, OpenedFresh(t))

\* ~CCoinsModifier: a fresh entry that became pruned is dropped.
Closed(e) == IF e.fresh /\ Pruned(e.coins) THEN NoEntry ELSE e

\* ModifyCoins, the caller's change of the coins to c, and ~CCoinsModifier.
\* Only a miss reads the base, and thereby fills it.
Modify(t, c) ==
    /\ view' = [view EXCEPT ![t] = Closed(Opened(t, c))]
    /\ tip' = IF view[t] = NoEntry THEN [tip EXCEPT ![t] = TipFetched(t)] ELSE tip
    /\ UNCHANGED <<db, dbBest, tipBest, broken, stateOf>>

\* UpdateCoins, an input: its callers have checked that it is unspent.
Spend(t, n) == /\ n \in ViewCoins(t).outs
               /\ UNCHANGED mined
               /\ Modify(t, [ViewCoins(t) EXCEPT !.outs = @ \ {n}])

\* Mutant: every new transaction is taken for one the base does not have.
AlwaysFresh(t) == TRUE

\* The flags ModifyNewCoins leaves: a coinbase keeps those it finds.
NewFresh(t) == IF t \in Coinbases THEN view[t] # NoEntry /\ view[t].fresh ELSE TRUE

\* The precondition of ModifyNewCoins ("Assumes that no entry with the given
\* txid exists"): only a coinbase may repeat a transaction of the chain.
MayBeNew(t) == t \in Coinbases \/ (t \notin mined /\ Pruned(TipCoins(t)))

\* UpdateCoins, the outputs: ModifyNewCoins and FromTx, without a look at the base.
Create(t) == /\ MayBeNew(t)
             /\ view' = [view EXCEPT ![t] = Closed(Entry(FromTx(t), TRUE, NewFresh(t)))]
             /\ mined' = mined \cup {t}
             /\ UNCHANGED <<db, dbBest, tip, tipBest, broken, stateOf>>

\* DisconnectBlock, a transaction: its outputs must be those of the block.
Remove(t) == /\ t \in mined
             /\ ViewCoins(t).outs = Vout[t]
             /\ Modify(t, NoCoins)
             /\ mined' = mined \ {t}

\* DisconnectBlock, an input. For the last output of its transaction the undo
\* data has the metadata too, but not the coinstake mark.
ApplyTxInUndo(t, n) ==
    /\ t \in mined
    /\ n \in Vout[t] \ ViewCoins(t).outs
    /\ UNCHANGED mined
    /\ Modify(t, [outs |-> ViewCoins(t).outs \cup {n},
                  stake |-> ~Pruned(ViewCoins(t)) /\ ViewCoins(t).stake])

\* HaveInputs, AccessCoins: reading fills both caches.
ViewFetch(t) == /\ view' = [view EXCEPT ![t] = ViewFetched(t)]
                /\ tip' = IF view[t] = NoEntry THEN [tip EXCEPT ![t] = TipFetched(t)] ELSE tip
                /\ UNCHANGED <<db, dbBest, tipBest, broken, mined, stateOf>>

\* The block is refused, or was only tested: the view is destroyed.
DropView == /\ ~NoView
            /\ view' = Empty
            /\ mined' = stateOf[TipGetBestBlock].mined
            /\ UNCHANGED <<db, dbBest, tip, tipBest, broken, stateOf>>

-----------------------------------------------------------------------------
(* Flushing.                                                               *)

\* CCoinsViewCache::BatchWrite for one transaction: pcoinsTip takes over the
\* entry of the view.
Merged(t) ==
    LET child == view[t]
        parent == tip[t]
    IN CASE child = NoEntry \/ ~child.dirty -> parent
         [] child # NoEntry /\ child.dirty /\ parent = NoEntry ->
              IF child.fresh /\ Pruned(child.coins) THEN NoEntry
              ELSE Entry(child.coins, TRUE, child.fresh)
         [] OTHER ->
              IF parent.fresh /\ Pruned(child.coins) THEN NoEntry
              ELSE Entry(child.coins, TRUE, parent.fresh)

\* SetBestBlock(b) and Flush() of the view, at the end of ConnectTip and
\* DisconnectTip. A block determines the state of the chain that ends in it.
CommitView(b) ==
    /\ stateOf[b] \in {NoState, ViewState}
    /\ stateOf' = [stateOf EXCEPT ![b] = ViewState]
    /\ tip' = [t \in Txs |-> Merged(t)]
    /\ tipBest' = b
    /\ view' = Empty
    /\ UNCHANGED <<db, dbBest, broken, mined>>

\* What is read back of coins that were written: fCoinStake is not among what
\* Serialize writes. Pruned coins are erased, which gives NoCoins.
Stored(c) == [outs |-> c.outs, stake |-> FALSE]

\* Mutant: pruned coins are left out of the batch instead of erased.
NothingErased(t) ==
    IF tip[t] # NoEntry /\ tip[t].dirty /\ ~Pruned(tip[t].coins)
    THEN Stored(tip[t].coins) ELSE db[t]

\* CCoinsViewDB::BatchWrite for one transaction.
Written(t) == IF tip[t] # NoEntry /\ tip[t].dirty THEN Stored(tip[t].coins) ELSE db[t]

\* FlushStateToDisk where it writes the coins: pcoinsTip->Flush().
FlushTip == /\ NoView
            /\ db' = [t \in Txs |-> Written(t)]
            /\ dbBest' = TipGetBestBlock
            /\ tip' = Empty
            /\ UNCHANGED <<tipBest, view, broken, mined, stateOf>>

\* The same when the database throws: BatchWrite has already emptied the map
\* it was given, and hashBlock stays.
FlushTipFails == /\ NoView
                 /\ tip' = Empty
                 /\ broken' = TRUE
                 /\ UNCHANGED <<db, dbBest, tipBest, view, mined, stateOf>>

-----------------------------------------------------------------------------
(* The rest of the node.                                                   *)

\* AcceptToMemoryPool and the RPCs read through pcoinsTip.
TipFetch(t) == /\ NoView
               /\ tip' = [tip EXCEPT ![t] = TipFetched(t)]
               /\ UNCHANGED <<db, dbBest, tipBest, view, broken, mined, stateOf>>

\* Mutant: modified entries are uncached as well.
AnyUncachable(e) == TRUE

Uncachable(e) == ~e.dirty /\ ~e.fresh

\* Uncache, when a transaction was not accepted to the memory pool.
Uncache(t) == /\ NoView
              /\ tip[t] # NoEntry
              /\ Uncachable(tip[t])
              /\ tip' = [tip EXCEPT ![t] = NoEntry]
              /\ UNCHANGED <<db, dbBest, tipBest, view, broken, mined, stateOf>>

\* The process dies at any point and is started again: Shutdown, after its
\* FlushStateToDisk, is FlushTip followed by this.
Restart == /\ tip' = Empty
           /\ tipBest' = NoBlock
           /\ view' = Empty
           /\ mined' = stateOf[dbBest].mined
           /\ UNCHANGED <<db, dbBest, broken, stateOf>>

Init == /\ db = [t \in Txs |-> NoCoins]
        /\ dbBest = Genesis
        /\ tip = Empty
        /\ tipBest = NoBlock
        /\ view = Empty
        /\ broken = FALSE
        /\ mined = {}
        /\ stateOf = [b \in Blocks |-> IF b = Genesis THEN ViewState ELSE NoState]

Next == \/ \E t \in Txs, n \in Outputs : Spend(t, n) \/ ApplyTxInUndo(t, n)
        \/ \E t \in Txs : \/ Create(t) \/ Remove(t) \/ ViewFetch(t)
                          \/ TipFetch(t) \/ Uncache(t)
        \/ \E b \in Blocks : CommitView(b)
        \/ DropView \/ FlushTip \/ FlushTipFails \/ Restart

Spec == Init /\ [][Next]_vars

-----------------------------------------------------------------------------
(* Properties.                                                             *)

(***************************************************************************)
(* Every variable stays in its type; in particular coins that the database *)
(* holds were not pruned with a mark left on them.                         *)
(***************************************************************************)
TypeOK == /\ db \in [Txs -> Coins]
          /\ \A t \in Txs : Pruned(db[t]) => db[t] = NoCoins
          /\ dbBest \in Blocks
          /\ tip \in [Txs -> Entries \cup {NoEntry}]
          /\ tipBest \in Blocks \cup {NoBlock}
          /\ view \in [Txs -> Entries \cup {NoEntry}]
          /\ broken \in BOOLEAN
          /\ mined \in SUBSET Txs
          /\ stateOf \in [Blocks -> States \cup {NoState}]

(***************************************************************************)
(* coins.h:304, "FRESH: The parent view does not have this entry (or it is *)
(* pruned)": an entry marked FRESH is never one whose loss would uncover   *)
(* unspent outputs in the view below. A flush drops such entries.          *)
(***************************************************************************)
FreshMeansAbsentBelow ==
    \A t \in Txs : /\ tip[t] # NoEntry /\ tip[t].fresh => Pruned(db[t])
                   /\ view[t] # NoEntry /\ view[t].fresh => Pruned(TipCoins(t))

(***************************************************************************)
(* coins.h:303: an entry that is not DIRTY has the unspent outputs that    *)
(* the view below has, so that a flush, or Uncache, may forget it.         *)
(***************************************************************************)
CleanMatchesBelow ==
    \A t \in Txs :
        /\ tip[t] # NoEntry /\ ~tip[t].dirty => tip[t].coins.outs = db[t].outs
        /\ view[t] # NoEntry /\ ~view[t].dirty => view[t].coins.outs = TipCoins(t).outs

(***************************************************************************)
(* Both caches are well formed and both flags mean what coins.h says,      *)
(* whatever was created, spent, undone, evicted, flushed or lost.          *)
(***************************************************************************)
FlagsTrue == TypeOK /\ FreshMeansAbsentBelow /\ CleanMatchesBelow

(***************************************************************************)
(* coins.h:344, GetBestBlock: "Retrieve the block hash whose state this    *)
(* CCoinsView currently represents". Through any number of commits, cache  *)
(* evictions, flushes and crashes, the database and pcoinsTip each hold    *)
(* exactly the unspent outputs of the block they name.                     *)
(***************************************************************************)
BestBlockTellsTheState == /\ DbOuts = stateOf[dbBest].outs
                          /\ TipOuts = stateOf[TipGetBestBlock].outs

(***************************************************************************)
(* The same as long as no write to the coin database has failed.           *)
(***************************************************************************)
StateToldUntilFailure == ~broken => BestBlockTellsTheState

(***************************************************************************)
(* The stack of views implements the plain unspent output set: caching,    *)
(* filling, evicting and flushing are invisible, a block is committed as a *)
(* whole, and a crash falls back to the last flush as a whole.             *)
(***************************************************************************)
Abstract == INSTANCE UTXOSet WITH
    durable <- [outs |-> DbOuts, best |-> dbBest],
    committed <- [outs |-> TipOuts, best |-> TipGetBestBlock],
    working <- [outs |-> ViewOuts, best |-> TipGetBestBlock]

ImplementsUTXOSet == Abstract!Spec
=============================================================================
