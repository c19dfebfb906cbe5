# TLA+ models of Chratos Core

Chratos Core is a proof-of-stake node derived from Bitcoin Core. This directory
holds TLA+ modules for the parts of the node whose correctness depends on
interleavings, orders of arrival, partial failures and restarts, the TLC
configurations that check them on small instances, and TLAPS proofs for every
instance. All code paths below are under `src/src/`.

## 1. The system

| Component | State | Operations | What is hard | Modules |
|---|---|---|---|---|
| script check queue (`checkqueue.h`) | queue, `nTodo`, `nIdle`, `nTotal`, `fAllOk` under one mutex | `Add`, `Wait`, `Loop` | many threads, two condition variables, interruption at shutdown | `CheckQueue`, `CheckQueueProofs` |
| block index and chain selection (`main.cpp`, `chain.h`) | `mapBlockIndex`, `setBlockIndexCandidates`, `mapBlocksUnlinked`, `chainActive`, failure flags under `cs_main` | accept header, accept block, activate best chain, invalidate, reconsider | order of arrival, reorganisations that fail halfway, a pointer kept across the release of the lock | `ChainState`, `ChainStateProofs` |
| coin views (`coins.h`, `coins.cpp`, `txdb.cpp`) | database, cache `pcoinsTip`, temporary view, DIRTY and FRESH flags | modify, create, fetch, uncache, flush, batch write | a wrong flag shows many blocks later; crashes between flushes; a failing write | `CoinsCache`, `UTXOSet`, `CoinsCacheProofs` |
| flush, pruning, start-up (`main.cpp`, `txdb.cpp`, `init.cpp`) | dirty index entries, block and undo files, index and coin databases | `FlushStateToDisk`, `PruneOneBlockFile`, `LoadBlockIndexDB`, `RewindBlockIndex`, `VerifyDB` | the node killed between two writes, files written over, pruning against reorganisations | `BlockStore` |
| peers and block download (`main.cpp`, `net.cpp`) | `CNodeState`, `mapBlocksInFlight` | announce, request, receive, time out, disconnect | late, repeated and unasked answers, stalling, counters kept in step by hand | `BlockDownload`, `BlockDownloadProofs` |
| memory pool (`txmempool.cpp`), orphan transactions (`main.cpp`) | `mapTx`, `mapNextTx`, `mapLinks`, totals per entry; `mapOrphanTransactions` and its index, `recentRejects` | accept, replace, evict, remove for a block or a reorganisation, prioritise; add, limit and resolve orphans | several maps and running totals that must agree; a loop that changes what it iterates over | `TxPool` |
| wallet (`wallet/wallet.cpp`) | `mapWallet`, `mapTxSpends`, cached credits, the wallet file | follow blocks and pool, pay, abandon, rescan | reorganisations, conflicts, stale caches, power failures | `Wallet`, `WalletProofs` |
| HTTP server (`httpserver.cpp`), scheduler (`scheduler.cpp`), shutdown (`init.cpp`) | work queue and its workers; task queue; the main thread | enqueue, run, interrupt, wait; schedule, service | shared condition variables, who frees what when, timed waits | `HttpServer`, `Scheduler`, `Services` |
| ledger (`main.cpp`, `undo.h`) | coins, undo data | `ConnectBlock`, `DisconnectBlock` | undo must be the exact inverse | not modelled |
| address manager (`addrman.cpp`) | new and tried tables | add, good, attempt | cross references | not modelled |
| version bits (`versionbits.cpp`) | cache per deployment | `GetStateFor` | period boundaries | not modelled |
| dividend ledger (`dividend/`) | `mapLedger` and its file | sync, rescan, payouts | reorganisations | not modelled |
| proof of stake, difficulty (`main.cpp`, `pos.cpp`) | stake modifiers | targets, kernels | arithmetic at boundaries | not modelled |
| block assembly, keys, scripts, RPC, fees, Tor, GUI, vendored code | | | | not modelled, see section 6 |

How they meet: peers announce blocks, the node decides whom to ask for which,
and the answers come when they come. A message handler, the staker or an RPC calls `ProcessNewBlock`,
which stores the block in the index and calls `ActivateBestChain`. That connects
and disconnects blocks one at a time. Connecting a block applies its
transactions to a temporary coin view over `pcoinsTip`, hands script checks to
the queue and waits for them; the view is then flushed into `pcoinsTip`, which
`FlushStateToDisk` writes to the coin database now and then. `ConnectBlock` is
where three models touch: to `ChainState` it is an outcome per block, to
`CheckQueue` it is the master, to `CoinsCache` it is a sequence of changes that
ends in `CommitView` or `DropView`. `BlockDownload` and `ChainState` touch at
`ProcessNewBlock`: the first models which calls of it happen, the second what a
call does to the chain. Every block that is connected or disconnected also
changes the memory pool (`TxPool`), reaches the wallet through `SyncTransaction`
(`Wallet`), and moves what `FlushStateToDisk` will write (`BlockStore`): each of
these modules has its own `ConnectTip` and `DisconnectTip`, which is that
component's part of the handler, driven by an arbitrary sequence of valid blocks.
The main thread ends them all at shutdown (`Services`).

What makes them correct: the queue reports exactly the results of its checks and
nobody waits for ever; a block is linked when its last ancestor arrives, and the
active chain is the best valid one once activation is over; three layers of
caches cannot be told from one set of unspent outputs, and the database always
holds the outputs of the block it names; every requested block is awaited from
exactly one connected peer, and peers that do not deliver cannot keep the node
from a chain that another one offers; a node killed at almost any moment starts
again from what its databases and files hold; the pool holds only what could be
mined, unless an error broke off a reorganisation, and its totals are exact; the wallet knows what the chain knows and offers
nothing twice; every HTTP request is answered, tasks run on time, and a shutdown
ends.

## 2. Modules

### CheckQueue

One step per critical section of the queue's mutex. `pc` says where each thread
is (`enter`, `asleep`, `woken`, `working`, `finished`, ...), `batch` and `fOk`
are the locals `vChecks` and `fOk`, `control` the life of the
`CCheckQueueControl`. `Enter`, `WakeUp` and `CleanUp` are the three ways into
the critical section of `Loop`, and `TakeBatch`, `MasterReturns` and `GoToSleep`
the three ways out of it; `Execute` runs a batch outside the mutex. A check is
an identity whose result is chosen when it is added. Wake-ups may be spurious.
The queue is a set, since results are combined by conjunction. `InterruptAll`,
`WorkerThrows` and `MasterThrows` are the shutdown: Boost's `wait` throws, and
the counters keep the thread that was thrown out.

### ChainState

One step per critical section of `cs_main`. The block tree, its work and the
outcome of each block's checks are constants or fixed at the start; everything
the node knows is state. `ProcessHeader`, `ProcessNewBlock`, `InvalidateBlock`
and `ReconsiderBlock` are the entry points; after the last three the thread is
inside `ActivateBestChain`, whose loop is one action per round
(`NothingToDo`, `StepConnects`, `StepFindsInvalid`, `StepFails`). The local
`pindexMostWork` is the variable `mostWork`, because it survives between rounds
while other threads run. `FindMostWorkChain`'s walk over the candidates is given
by what it leaves behind (`Dropped`, `MarkedChild`, `KeptCandidates`).
`verdict = "error"` is a `ConnectBlock` that returns false and leaves the
validation state valid. `NotWanted` takes `fRequested` from the caller.

### CoinsCache and UTXOSet

`db`, `tip` and `view` are the database, `pcoinsTip` and the temporary view of
`ConnectTip` and `DisconnectTip`; an entry is `[coins, dirty, fresh]`. Of
`CCoins` the unspent outputs and `fCoinStake` are kept. Reading fills the caches
(`TipFetched`, `ViewFetched`), a modifier is opened, changed and closed in one
step (`Modify`), which is what the `hasModifier` assertion enforces. `Merged` is
`CCoinsViewCache::BatchWrite`, `Written` is `CCoinsViewDB::BatchWrite`, `Stored`
what the serialised form keeps. `FlushTipFails` is a batch write that throws
after the map was emptied, `Restart` a crash at any point. `mined` and `stateOf`
are history: the second remembers which outputs were unspent when each block was
first committed, so that a property can say "the state of this block". A block
may only be committed with one state (`CommitView`'s guard: blocks are
deterministic), and a transaction that is not a coinbase is created only when the
chain does not have it and the base has nothing unspent for it (`MayBeNew`,
the precondition written at `ModifyNewCoins`). The view is not tied to a block
while it is being changed: any sequence of creations, spends, undos and
removals may be committed, which includes every block and every disconnection.

`UTXOSet` is what is promised: a durable, a committed and a working set, each
with the block it is the state of; atomic `Commit`, `Persist` and `Crash`; and,
once a write has failed, nothing.

### BlockDownload

One step per message handler and per `SendMessages`: one thread runs them all
and holds `cs_main` throughout. `known`, `haveData`, `failed`, `tip` and `ibd`
are what the download needs of the block index; the tip moves to the best linked
block in one step, and failures found only when a block is connected are left to
`ChainState`. `status` is the life of a connection, `node` its `CNodeState`, and
`dl` the record of everything that `MarkBlockAsReceived`, `MarkBlockAsInFlight`
and `FinalizeNode` change: the map (`by`), the queues, which entries are
validated or partial, the three counters and who is stalling. The order of a
queue is left out, since only the clock looks at it.

A peer may send any message about the blocks it has at any moment, asked or not
(`Inv`, `Headers`, `Block`, `CmpctBlock`, `BlockTxn`), so lost, late, repeated and
unasked messages need no network. Deadlines may pass at any moment, except for
the peers in `Prompt`. `Disconnect` is any reason to drop a peer outside the
handlers; `SendMessages` still runs once for a peer whose `fDisconnect` was just
set, as in `ThreadMessageHandler`. Penalties below the ban score may or may not
reach it. `MarkBlocksAsInFlight` takes the blocks of one call site together. One
that another peer has in flight is given up first (`MarkBlocksAsReceived`); one that
the same peer has in flight stays as it is, and if the caller passed no `pit` the
code writes through a null pointer (`main.cpp:447`): such blocks are collected in
`dl.nullPit`, which `RequestedOnce` wants empty.
`FindNextBlocksToDownload` is given by the set of blocks its walk visits
(`walk`) instead of its batches of 128.

### TxPool

One step per handler that holds `cs_main`; a handler that loops is several steps,
and `phase` says who holds the lock meanwhile. `pool` is the record of
`CTxMemPool`'s maps, and the pool's operations (`addUnchecked`, `RemoveStaged`,
`TrimToSize`, `removeForBlock`, `removeForReorg`, `removeConflicts`, ...) are operators that take and return it, with the
totals updated by difference as in the code. `AcceptToMemoryPoolWorker` is a
relation: the checks that depend on rates and time may refuse anything, the ones
about conflicts, replacements, ancestors and limits are kept in their order. The
TX message is three actions (accepted, orphan, rejected) followed by the orphan
loop `PopWorkQueue`, `TryOrphan`, `EraseProcessed`, with the iterators of
`mapOrphanTransactionsByPrev` that one round still has to visit in `todo`.
`ConnectTip`, `DisconnectTip`, `ActivateBestChainStepEnd` and
`InvalidateBlockEnd` are what blocks do to the pool; `ActivateBestChainStepFails`
is the return on a system error (`main.cpp:3428`, `3465`), which leaves the pool as
the disconnections made it. `chain` holds the active
chain; `pcoinsTip` is computed from it.

### BlockStore

`blk` and `rev` are the files, slot by slot; `blockTree` and `coinsDB` the two
databases; everything else is memory that `Kill` loses. `FlushStateToDisk` runs
as `writeIndex`, `unlink`, `flushCoins`, and a kill may come between any two of
them. `LoadBlockIndexDB` rebuilds the index, `RewindBlockIndex` disconnects blocks
stored by a client that knew no witness, `VerifyDB` reads the last blocks.
`pc = "refused"` is a start-up that gives up, `pc = "abort"` an `AbortNode` for
want of data, in `ConnectTip` as in `DisconnectTip`. `AcceptBlock` stores a pruned
block of the active chain again when it comes from a whitelisted peer
(`fForceProcessing`); that block has data then and no undo data. A kill loses nothing that was written to a file, so
`unsynced` is kept separately, for what a loss of power would take. Two windows in which the code
does not survive a kill are excluded by `KillWindows` and listed below.

### Wallet

`wallet` is the record of `mapWallet` (hash of the block, and whether it is in
it), `mapTxSpends` and the cached available credit, with amounts replaced by the
set of outputs they count. `SyncTransaction`, `AddToWallet`, `MarkConflicted`,
`AbandonTransaction`, `AvailableCoins` and `ScanForWalletTransactions` are
operators on it; the walks over descendants are closures, and the loops over a
block, the chain and the records on disk are folds in the order of the code.
`Chain` gives the blocks as `chainActive` holds them, and the assumption
`ValidBlocks` is what `ConnectBlock` has checked of them. `CreateTransaction` and `CommitTransaction` are two steps, since
the graphical interface waits for its user between them. `disk` is what the
wallet file and the coin database hold; `Crash` is a loss of power and the next
start, with the rescan from the block of the last `SetBestChain`.

### HttpServer, Scheduler, Services

`HttpServer` has the event thread, the workers and the main thread's stop
sequence around the work queue, one step per critical section; `Scheduler` has
`serviceQueue`, whose times are kept as the ticks that are left. `Services`
composes the two under the main thread: `Interrupt()`, `join_all`, `Shutdown()`.
`WaitExit` looks only at `numThreads`, so a worker may count itself after that, and
the event thread may be held up before `Enqueue`: a thread that so comes to the
deleted queue is the step `UseDeleted`, after which the state of the main thread is
"undefined" and nothing is promised.

### Instances

`MCCheckQueue`, `MCChainState`, `MCCoinsCache`, `MCBlockDownload`, `MCTxPool`,
`MCBlockStore`, `MCWallet` and `MCServices` give the constants values.

## 3. Runs

| Run | Instance | Checks |
|---|---|---|
| `check_queue` | 2 workers, 4 checks of which one may fail, batches of up to 2, one interrupted master | counters, results, idleness between blocks, no stranded master, `Wait()` returns |
| `chain_state` | 1 thread, 7 blocks on 3 branches, one possibly bad, one `invalidateblock`, one `reconsiderblock` | the assertions of `CheckBlockIndex`, the best chain is active, work is only given up for a reason, reconsidering restores |
| `chain_threads` | 2 threads, the middle block of the longest branch invalid | every activation ends |
| `coins_cache` | a coinbase with one output and a coinstake with two, 3 blocks; symmetric in the blocks after the first | flags, best block tells the state, implements `UTXOSet` |
| `block_download` | 2 peers, 3 blocks above the first on 2 branches, one of them invalid; one request per peer, a window of one block; one prompt peer, one that sends compact blocks and rubbish | map, queues and counters agree, the limit holds, nobody is blamed who owes nothing, nothing is skipped or asked for twice |
| `block_download_live` | a chain of 2 blocks, two requests per peer; a prompt peer with both, a peer with the first only that may do anything | the node catches up, and asks no peer twice for a block it owes |
| `tx_pool` | 7 transactions: a coinbase, a chain of three, a replacement, one with a bad script, an independent spend; blocks of up to 2 in chains of up to 3, one peer; pool of 3, 2 orphans | inputs spendable, maps and totals exact, orphan index exact, limits, orphans resolved, the loop ends |
| `block_store` | 5 blocks on 2 branches, the first stored by an old client; 4 files of 2 blocks, pruning of all but the last, one kill | the node starts again and never aborts, index and databases only refer to what is there and committed |
| `wallet` | 5 transactions (a payment, its double spend, a chain, a coinstake), 4 blocks on 2 branches, power failures | the wallet knows its chain, spent coins are not offered or counted, conflicts are marked and real, abandoning is safe |
| `services` | 2 workers, 2 requests, a queue of one; one scheduler thread, 2 tasks | no request lost, none served nor anybody asleep when the queue is freed, requests answered, tasks never early and always again, the shutdown ends |

Several invariants are conjunctions of named parts, each with its own comment in
the module: `QueueConsistent`, `BlockIndexConsistent`, `FlagsTrue`,
`RequestsConsistent`, `PoolConsistent`, `StoreConsistent`, `WalletConsistent` and
`AllAccounted` each begin with the module's `TypeOK` and say what ties the
component's tables together.

Why the bounds are enough. Four checks are the fewest with which a thread takes
two at once and two batches are out at the same time. The tree has a branch to
leave, a longer one to reach and a fork with equal work, so that ties, failed
reorganisations in both directions and out-of-order arrival over two missing
ancestors occur; with two threads the interesting interleaving is two, one
holding a stale target. A coinbase may repeat its identity and a coinstake may
be partly spent, which are the cases `ModifyNewCoins` and FRESH tell apart; three
blocks give a reorganisation with a flush in the middle. With one request per
peer every handler meets the limit, and with a window of one block the peer that
was asked for `a1` holds up the other, which is how stalling starts; the peers
differ in what they can serve, so that the witness test goes both ways. In the
live instance the unreliable peer can take the one block that the prompt peer's
chain is built on, which is the case the timeouts are for; with two requests per
peer a second request for the same block would get past the limit. In `tx_pool` a pool of
three meets its limit with the chain of three and the independent spend, the
replacement removes the whole chain, and with two orphans a third evicts one
while the loop runs; three blocks are enough to make the coinbase mature and
immature again. In `block_store` a file holds two blocks, so that the longer
branch leaves the file in which the shorter one's undo data is still to be
written, and a kill makes the node write over slots it had used; the fourth file has room for
a pruned block that is stored again. In `wallet` the
fork confirms the payment while the other branch confirms its double spend, and
the chain of two lets a conflict travel. Every model is finite
without a state constraint. The bounds named in the models are
`MaxMasterThrows`, `MaxInvalidate`, `MaxReconsider`, `MaxBlockTxs`, `MaxHeight`,
`MaxDelta`, `MaxFile`, `MaxKills` and the sets of inputs (`Relayed`,
`Submitted`, `Prioritised`, `Payments`).

`CHECK_DEADLOCK FALSE` appears for ChainState, where nothing is left to do once
every block is known and the operator's commands are used up, for
BlockDownload, where every connection may have come and gone, and for Services,
where a stopped node does nothing.

Fairness. `CheckQueue!FairSpec` assumes weak fairness of each thread that is not
asleep (the operating system schedules it and the mutex is released), nothing of
spurious wake-ups, interrupts, or the caller before it calls `Wait()`.
`ChainState!FairSpec` assumes that a thread inside `ActivateBestChain` gets
`cs_main` again. `BlockDownload!FairSpec` assumes that the message handler comes
back to every peer, that a download timeout passes in the end unless the block
arrives first, that the socket thread deletes disconnected peers, and that a
prompt peer sends the blocks it was asked for. Nothing is assumed of the other
peers. `CatchesUp` is checked with no peer that sends compact blocks: a BLOCKTXN
with the wrong transactions costs its sender nothing (`main.cpp:6400`), so such a
peer may take a block again and again. `TxPool!FairSpec` assumes that the thread
inside the TX handler, which holds `cs_main`, goes on. `BlockStore!FairSpec`
assumes that a flush and a start-up go on and that a stopped process ends; a kill
is never assumed and may come again until `MaxKills`. `Services!FairSpec` assumes
that every thread is given the processor, that handlers and tasks return, and that
the clock advances; nothing of requests or of the shutdown being asked for.
`Wallet` has no liveness. Liveness without fairness is never claimed.

### Disagreements between the code and its own comments

Each of these runs checks one property taken from a comment or an assertion and
TLC finds it violated by what the code does.

| Run | Property | What happens |
|---|---|---|
| `chain_stake_error` | `TipIsCandidate` (`main.cpp:5190`) | a failing `CheckProofOfStake` is taken for a system error; the reorganisation ends where it failed, and leaves a tip above the fork, `a1`, that is no candidate |
| `wallet_stake_refund` | `NoSpentOffered` (`wallet.cpp:911`) | disconnecting a coinstake erases all spends of its inputs; connecting the block again does not bring them back, and the spent coin is offered |

Met while modelling and given no run of their own:

- *ChainState.* A target that another thread invalidated meanwhile is connected
  all the same, which empties the candidates against the assertion at
  `main.cpp:3415` (two threads and one `invalidateblock`; `CandidatesExact`
  is therefore checked with one thread). `reconsiderblock` of a descendant clears
  its ancestors' flags without making them candidates (`main.cpp:3669`), so the
  best chain may stay inactive. A thread that resumes in `ActivateBestChain` with
  an old `pindexMostWork` (`main.cpp:3536`) may reorganise away from a better tip
  that another thread connected meanwhile, until the next call.
  `ReceivedBlockTransactions` does not queue a block below a failed parent
  (`main.cpp:3760`), so that after `reconsiderblock` it is neither linked nor in
  `mapBlocksUnlinked`, against the assertion at `main.cpp:5171`;
  `ResetBlockFailureFlags` leaves the siblings' own BLOCK_FAILED_CHILD in place,
  against `main.cpp:5184`. This is why several properties of ChainState are stated
  under `NeverReconsidered`.
- *BlockDownload.* The direct fetch of HEADERS may request again a block that was
  found invalid, as an ancestor of a header that is not marked.
- *CoinsCache.* A failed batch write has already emptied the cache; the flush of
  `Shutdown` (`init.cpp:230`) then moves the best block without the coins, against
  `coins.h:344`. This is why `StateToldUntilFailure` says no more after one.
  `fCoinStake` (`coins.h:23`) is not serialised, so a flush forgets it.
- *TxPool.* A fee delta is not passed on to the descendants' fees with ancestors
  (`txmempool.cpp:1060`), against the assertion in `check`; `TotalsExact` leaves
  that total out. A system error in `ConnectTip` returns before `removeForReorg`
  (`main.cpp:3465`, `3480`) and releases `cs_main` over an entry that may spend an
  immature coinbase, against the assertion at `txmempool.cpp:882`; TLC refutes the
  plain invariant, and `InputsSpendable` says that this is the only way. `DisconnectTip` resurrects only the transactions that can never
  be accepted (`main.cpp:3256`, against the comment at 3250). `recentRejects`
  also gets transactions that are in the pool already.
- *BlockStore.* The comment at `main.cpp:3090` says that no block data that
  is not on disk is referred to; undo data of a file that is no longer the
  last is not committed, so `DataCommitted` is stated for block data only.
  `ComesUp` fails when the node is killed between `RewindBlockIndex`'s writes
  (`KillWindows = {"rewind"}`), and after a pruned block was stored again: it has no
  undo data, and `VerifyDB`, which says "If pruning, only go back as far as we have
  data." (`main.cpp:4736`) and looks for the block's data only, then refuses every
  start, unless the block is deeper than -checkblocks (by default
  MIN_BLOCKS_TO_KEEP). `ComesUp` excuses that case by `StoredAgain`, without which TLC refutes it.
  `NeverAborts` fails when it is killed between the
  unlinking of pruned files and the flush of the coins (`{"prune"}`). A failed
  `WriteBatchSync` has emptied the dirty sets, and the flush of `Shutdown` then
  stores coins for which there is no index (`main.cpp:3115`).
- *Wallet.* When `ThreadFlushWalletDB` runs between a reorganisation and the next
  flush and the power fails (`ReorgFlush = TRUE`), the file has transactions in
  blocks that the rescan does not visit, and `ChainKnown` fails (comment at
  `wallet.cpp:1340`). `AbandonTransaction` looks for spenders from the wrong
  transaction after the first round (`wallet.cpp:1389`) and does not reach
  grandchildren. `MarkConflicted` stops where a block that is connected again is
  already named. The cached credit of the other inputs of a conflicting
  transaction stays stale after a disconnection (`wallet.cpp:1509`). A payment
  that is sent late stays at depth 0 though it conflicts.
- *Services.* The precondition of `~WorkQueue`, that all worker threads have stopped
  (`httpserver.cpp:102`), does not hold when a worker counts itself only after
  `WaitExit` has looked; that worker, or an event thread that is held up before
  `Enqueue`, uses the deleted queue (`UseDeleted`). What holds is `FreedIdle`. With two service threads a
  task may run early (`scheduler.h`, "Call func at/after time t"); the node starts
  one.

### Hazards without a property

`PROJECT.json` lists the hazards that the properties watch. These are real and
watched by none, besides the ones above:

- `main.cpp:2931`: `ConnectBlock` ignores what `control.Wait()` returns.
- `main.cpp:7084`: one peer is asked for headers until the best header is a day
  old; if it sends none, nobody else is asked.
- `main.cpp:2664`: BIP30 is not enforced for blocks with a hash, although
  `ModifyNewCoins` marks every transaction but a coinbase FRESH.
- `main.cpp:4759`: `VerifyDB` disconnects and connects blocks in one view.
- `main.cpp:2632`: `ConnectBlock` may put an index entry from the caller's stack
  (`TestBlockValidity`) into `setDirtyBlockIndex`.
- `dividend/dividendledger.cpp:105`: a contribution mined again after a
  reorganisation keeps its first block, and a disconnected one is never removed.
- `versionbits.cpp:128`: the cached state of a deployment at a period boundary.

## 4. Proofs

The eight proof modules follow the same plan: an inductive invariant, a lemma per
action, a theorem that the invariant holds, and the properties as corollaries.
They hold for all constants that satisfy the assumptions in the component's
module; a theorem that needs more says so in its ASSUME.

**CheckQueueProofs**, for every finite set of workers and checks and every batch
size. `TodoIsPending` alone is not inductive: to know that the master's return
leaves nothing behind one needs that only busy threads hold batches
(`BatchesHeld`), that the counters are the sizes of the sets of threads they
count (`CountersExact`), that a failure seen by a thread is in `fAllOk`, its
`fOk` or still pending (`ResultsRecorded`), and where the master may be under
each control (`MasterProtocol`). The last worker to finish notifies the master
in the same critical section in which `nTodo` reaches zero, which is the step
that carries `MasterNeverStranded`.

**ChainStateProofs**, for every finite block tree, every work function, every set
of verdicts and threads. `LinkedClosed` (linked blocks are closed under
ancestors), `TargetsLinked` (every thread's target is linked),
`SequenceIdsDistinct` and `WaitsForParent` are added to make linking inductive:
when a block arrives, what is linked is exactly the part of the tree above it
whose missing ancestor it was. `ActiveChainStaysValid` has a second invariant,
`TargetValid`, and holds for one thread only: with two, a target that was
invalidated meanwhile may be connected.

What makes a chain the best one is `SelectionInv`. For any number of threads no
candidate has less work than the tip (`CandidatesNotWorse`) and the active chain
was connected block by block (`ActiveChainConnected`). For one thread, and while
no `ConnectBlock` fails without a verdict, every valid block that is better than
the tip is a candidate (`Covered`), so that the candidates are exact
(`CandidatesAlwaysExact`), the best of them is active when the thread is done
(`BestChainIsActive`), work is only given up for a block found invalid
(`WorkNeverLost`) and `reconsiderblock` brings back what `invalidateblock` took
(`ReconsiderBringsBack`). `Covered` is not inductive by itself: while the loop has
disconnected blocks and not yet connected the others, the tip is worse than what
was considered when candidates were dropped. The candidates are then complete only
down to the tip that the round started from, the floor; `FloorKept` says that the
floor is reached again before anybody looks. The two hypotheses are needed: a
second thread may run between two rounds, and an error leaves the tip where it
retreated to (the run `chain_stake_error`). `ReconsiderRestores` speaks of the
first `reconsiderblock` only. A command given earlier for a header without data
clears the flags of its ancestors, and these do not become candidates again; TLC
shows it with two uses of the command.

**CoinsCacheProofs**, for every set of transactions, outputs and blocks. The
invariant is the meaning of the flags (`FreshMeansAbsentBelow`,
`CleanMatchesBelow`) together with `StateToldUntilFailure` and the fact that the
named blocks have been committed. From it each action's effect on the three sets
of outputs is computed once (`ModifyEffect`, `CreateEffect`, `CommitEffect`,
`FlushEffect`, ...), and `CachingIsInvisible` concludes that every step of the
caches is a step of `UTXOSet` or a stutter.

**BlockDownloadProofs**, for every finite block tree, every finite set of peers,
whatever each has and sends, and every limit. `Consistent(d)` says of a record of
requests that map and queues agree and the counters count; it is shown for the
functions that change such a record (`Received`, `InsertedConsistent`, `Left`),
whatever the state around them. Of `MarkBlocksAsInFlight` two cases occur, and the
proof shows that no other does: nothing that is asked for is in flight (`Requested`),
or one block is, from the same peer, and there is a `pit` (`SamePeer`, compact blocks);
so `nullPit` stays empty. What a handler adds is that it requests only
blocks that are neither stored nor in flight and that fit under the limit
(`Requestable`, by `FindNext` and `DirectFetchOK`), and that it forgets a block
before storing it; `Asks` relates the requests before and after a step and gives
`RequestedOnce`. `NothingSkipped` is itself part of the invariant: that the walk
starts at a linked block is needed to show that it ends at one. Sets of blocks of
one chain have a highest and a lowest member because inclusion of finite sets is
well founded, which replaces induction over heights.

**ServicesProofs**, for all finite sets of workers and service threads, any
requests and tasks, every depth of the queue and every period. `HttpTypeOK` says
where each request is and what `numThreads` counts; `StopOrder` says what is
settled at each point of the main thread's stop sequence, in particular that no
worker serves once the count has been seen at zero, which is why a request that
is still queued then is answered by `delete workQueue` and none is leaked.
`NobodyAsleep` adds that once `WaitExit` has seen zero no worker sleeps on the
condition variable, because whoever counts itself later finds `running` false.
For the scheduler `FirstIsDue` is the
strengthening of `NeverEarly`: while the one service thread waits for a time, the
first task of the queue is due then or earlier. Insertion keeps it because
`schedule` wakes the thread, time because both sides shrink together, and it
fails with two threads.

**BlockStoreProofs**, for every block tree, number of files and slots, and any
number of kills. `PlaceInv` says where block data may be: the index in memory and
the one on disk each name places that hold the block (`Placed`), a file that was
pruned is not reused before the index that forgets it is written (`NotReused`,
`PrunedGone`), what is not dirty is the same in both (`CleanAgree`), and a file
that was left is committed (`LeftCommitted`). `IndexAlwaysTrue` follows without
any hypothesis on when the node is killed. `CoinsInv` adds that the blocks of the
coin database have been received according to the index on disk; it needs to follow
the tips through the phases of a flush, because memory, index and coins are written
one after the other. `CoinsAlwaysCovered` assumes that the node is not killed in the
rewind window, the disagreement described in section 3; the prune window does it no
harm. `StoreAlwaysConsistent` also says what can be undone of the coins on disk, and
assumes that the node is killed in neither.

`NodeNeverAborts` says that a block which has to be disconnected still has its data
and undo data, whatever was pruned and stored again: a reorganisation never ends in
`AbortNode`. It assumes `KillWindows = {}` and `ShallowForks`: of two
branches at most one is longer than MIN_BLOCKS_TO_KEEP. The last is needed, for
pruning looks only at the height of the tip; with two branches of two blocks and
`MinBlocksToKeep = 1` TLC finds `NeverAborts` violated. The inductive invariant is
`KeptInv`, on top of `PlaceInv` and `CoinsInv`; TLC checked it on the instance of
the run and on two other trees before it was proved. Its core is `LostBuried`: a
block of the active chain whose undo data is gone, whether or not its data came back,
lies under a chain of MIN_BLOCKS_TO_KEEP blocks which the node can still reach. That chain need not be the active one any
more, and its blocks may be pruned in their turn; then the tip's own chain has
become long enough (`BuriedKept`, `PruneKeepsBuried`). By `ShallowForks` no longer
branch leaves below a block that is so buried, and what `DisconnectTip` meets has its
undo data. The rest ties this to the phases of a flush: `nHeightLast` bounds the
heights of what a file holds, also after a restart (`HeightsCovered`); pruning
forces the coins to be written, so that the chains of the two coin views differ
only in blocks that can be undone (`LostStored`); and nothing is lost before the
rewind is over (`LostLater`).

**TxPoolProofs**, for every finite set of transactions, whatever they spend, every
chain, limit, fee and delta. The module first proves what the operators of the
community modules compute, which the prover does not know: `FoldExists` and
`FoldTrims` (a fold over a finite set keeps what each of its steps keeps),
`SumAdditive` and `ModFeesAdditive` (the sum of the fees of a union). Induction is
over the subsets of a finite set, by the least counterexample, with the property
given as a set, since the library's induction schemas cannot be instantiated.
Then the graph: in a pool whose indexes are exact, `CalculateDescendants` and
`CalculateMemPoolAncestors` are closures of the spending relation (`PoolGraph`),
t is a descendant of u exactly if u is an ancestor of t (`Duality`), and the
closures change as expected when a closed set leaves (`RemoveBelow`), when a
transaction without ancestors is mined (`RemoveTop`) and when one without
descendants comes (`AddBottom`). From these, each operation of `CTxMemPool` keeps
`PoolShape`: the totals that it updates by difference stay the true ones.
`Trimmed` says of two pools that the second is the first without some
transactions and all their descendants, and is what eviction, expiry, conflicts
and reorganisations have in common.

`PoolInv` has to hold within a reorganisation as well: inputs are there at any moment
(`PoolFits`), and only maturity is lost between `DisconnectTip` and `removeForReorg`,
or for good when an error ends the reorganisation in between. `InputsSpendable` is
therefore about steps, not states: what is accepted is mature (`OfferedMature`), and
an entry that is premature after any other step that leaves `cs_main` free was so
before it (`PrematureBefore`), since a longer chain makes no coinbase less mature.
`PoolInv` also needs that nothing in the
pool is confirmed, for otherwise `removeForBlock` would not free the inputs, and
that the chain is valid block by block (`ChainValid`), so that a block that is
disconnected gives back coins nobody else spends. `HandlerInv` is the invariant of
the orphan loop: an orphan that an accepted transaction may have completed waits
in `todo` or spends a queued outpoint, unless it lacks another parent. It needs
the second half, that an orphan which waits though it is in the pool was accepted
by this loop, because `SubmitTx` may have put an orphan into the pool before.

**WalletProofs**, for every finite set of transactions, whatever they spend and
pay, and every tree of valid blocks. `RecordsInv` holds in every history: what an
entry of `mapWallet` says of its block is true on whatever branch the block is,
which is more than the wallet needs at any moment but the only form that survives
a reorganisation, and spends are missing only for outputs that a stake could
spend. Each operator keeps `WalletTrue`, and the wallet it returns `Follows` the
one it takes: it has the same entries and perhaps more, still knows what it knew
of a given chain, caches at most what was cached, and abandons nothing of a given
set. These two facts go through the folds (`SyncRunTrue`, `ScanTrue`, `LoadTrue`)
and compose, so that a step on the state is a short argument. `ConflictsReal`
follows from `RecordsInv` alone.

`WalletInv` adds that the wallet `Knows` the active chain and has what concerns it
in the pool, that the pool could be mined (`PoolInv`), that the records on disk
know the chain of the locator, and `BalanceUnspent`. `PoolInv` is needed twice: a
transaction that spends a coin of the wallet is only noticed if what it builds on
is in `mapWallet` (`IsFromMe`), and a pool transaction counts as a spender only if
no block is in conflict with what it builds on (`NoConflictInPool`). The step that
carries most is the rescan: the wallet knows the chain up to the block where the
locator's chain and the active one part, and every block above is read in order.
It needs `~ReorgFlush`, without which the invariant is false (section 3), and the
theorems about `WalletInv` assume it.

`ConflictsAlwaysMarked` is about one step, `ConnectTip`, and needs of the invariants
only `RecordsInv`. `Spreads` relates the wallets before and after: no conflict is
forgotten, and one that is new has reached what spends the outputs of the
transaction. It holds of `MarkConflicted`, whose walk is closed under the spends of
what it changes, and of `AddToWallet`, since what a block of the chain confirms is
not in conflict with the chain; it composes, so that it goes through the fold over
the rivals of a transaction (`MarkConflictsRun`), the transactions of the block and
the conflicts of the pool before them. The walk follows `mapTxSpends`, and
`SyncTransaction` forgets the spends of a stake that is disconnected; the theorem
therefore assumes `StakesSettled`, that no block is in conflict with a transaction
whose output a stake spends (coins of age `nStakeMinAge`). TLC refutes
`ConflictsMarked` when a stake spends the output of a payment that is double spent
on the other branch.

Not proved but model-checked: the liveness properties `WaitReturns`,
`ActivationEnds`, `ComesUp`, `CatchesUp`, `HandlerEnds`, `RequestAnswered`,
`RunsAgain` and `ShutdownEnds`, which the prover cannot express (fairness and
ENABLED). Every invariant and every action property that a passing run checks is
stated by a theorem, under the hypotheses given above.

## 5. Plan

In this order:

1. Ledger: `ConnectBlock` and `DisconnectBlock` over blocks with given contents
   and their undo data, composed with CoinsCache's abstract set.
2. The dividend ledger across reorganisations; version bits against BIP 9's
   definition; the address manager.
3. Serving and announcing blocks and transactions to peers.

## 6. Not modelled

The byte formats, hashing, elliptic curve arithmetic and the script interpreter
(pure functions, out of reach of a model checker except as outcomes) and with them
most of the lines of the repository: the hash functions, LevelDB, secp256k1 and
UniValue are tables and third-party code. Sockets, Tor, the RPC formatting and the
GUI (I/O and presentation); fee estimation and the dividend's amounts (floating
point). Inside the modelled parts:

- ChainState: pruning and disk errors (BlockStore has them).
- CoinsCache: memory accounting and cursors.
- TxPool: every transaction has size one; priorities, the rolling minimum fee,
  rate limits and lock times only as an arbitrary refusal; the limit of 100
  replacements; the fee estimator and the address indexes; asking for missing
  parents. `UpdateTransactionsFromBlock` has nothing to do, since disconnected
  transactions do not come back. Coinstakes are taken to keep their maturity flag.
- BlockStore: pruning is on; ties broken by `nSequenceId`, header-only entries,
  the optional indexes, `-reindex`, the very first start, a full disk.
- Wallet: amounts, keys, encryption, the key pool, locked coins, coin selection and
  staking, accounts, watch-only addresses, imports, resending, `-zapwallettxes`.
  `removeForReorg` is applied after each `DisconnectTip` and not once at the end of
  the step; no property looks at the pool in between.
- Services: `CScheduler::stop` (only tests call it), a task that throws (it ends the
  program, `TraceThread` passes the exception on), access rules and the content
  of requests; libevent is given by what it promises.

`PROJECT.json` lists every component with its status and every hazard with the
properties that watch it.
