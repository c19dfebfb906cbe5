------------------------------- MODULE TxPool -------------------------------
(***************************************************************************)
(* The memory pool (CTxMemPool, txmempool.cpp), the orphan transactions    *)
(* and the recent-rejects filter (main.cpp), driven by what changes them:  *)
(* the TX message, transactions submitted by the wallet or by RPC, fee     *)
(* deltas, blocks connected and disconnected, peers that leave.            *)
(*                                                                         *)
(* All of them run under cs_main.  A handler that loops (orphans that an   *)
(* accepted transaction completes, the blocks of one reorganisation) is    *)
(* several steps here, and "phase" says who holds cs_main meanwhile.       *)
(*                                                                         *)
(* Data: every transaction has size 1, so sizes coincide with counts; an   *)
(* outpoint is <<transaction, index>>.  The checks of AcceptToMemoryPool   *)
(* that depend on time and rates (fee floor, priority, rate limiter, lock  *)
(* times) may refuse any transaction; whose script fails or which is not   *)
(* standard is given by constants.                                         *)
(***************************************************************************)
EXTENDS Integers, Sequences, FiniteSets, FiniteSetsExt, SequencesExt

CONSTANTS
    Txs,              \* transactions
    Coinbases,        \* those that are a coinbase or a coinstake
    Ins,              \* [Txs -> SUBSET OutPoints] what a transaction spends
    Outs,             \* [Txs -> Nat] how many outputs it has
    Fee,              \* [Txs -> Nat]
    Replaceable,      \* transactions that signal replacement (nSequence)
    NonStandard,      \* refused by IsStandardTx and the like, no DoS score
    BadScript,        \* refused by the script checks, DoS score
    GenesisBlock,     \* the block every chain starts with
    MaxBlockTxs,      \* bound: transactions in a block
    MaxHeight,        \* bound: blocks in the chain
    Maturity,         \* COINBASE_MATURITY
    Peers, NoPeer, NoTx,
    Relayed,          \* inputs: transactions that peers send,
    Submitted,        \*   that the wallet or an RPC client submits,
    Prioritised,      \*   that prioritisetransaction is called for,
    Deltas,           \*   and with which fee deltas
    MaxDelta,         \* bound: accumulated delta of one transaction
    RelayFee,         \* minRelayTxFee for one transaction
    MaxPool,          \* -maxmempool, in transactions
    MaxOrphans,       \* -maxorphantx
    AncestorLimit,    \* -limitancestorcount
    DescendantLimit   \* -limitdescendantcount

OutPoints == UNION {{t} \X (1..Outs[t]) : t \in Txs}

\* CheckTransaction refuses a transaction without inputs ("bad-txns-vin-empty").
ASSUME TxAssumption ==
    /\ IsFiniteSet(Txs)
    /\ Coinbases \subseteq Txs
    /\ Outs \in [Txs -> Nat]
    /\ Fee \in [Txs -> Nat]
    /\ Ins \in [Txs -> SUBSET OutPoints]
    /\ \A t \in Txs \ Coinbases : Ins[t] # {}
    /\ NoTx \notin Txs

ASSUME InputAssumption ==
    /\ Relayed \cup Submitted \cup Prioritised \subseteq Txs
    /\ Deltas \subseteq Int
    /\ NoPeer \notin Peers

ASSUME BoundAssumption ==
    /\ MaxOrphans \in Nat
    /\ MaxPool \in Nat \ {0}
    /\ Maturity \in Nat
    /\ MaxBlockTxs \in Nat

VARIABLES
    pool,       \* the CTxMemPool, see EmptyPool
    chain,      \* chainActive as the sequence of its blocks; pcoinsTip follows from it
    mapOrphanTransactions,        \* peer that sent an orphan, NoPeer: not an orphan
    mapOrphanTransactionsByPrev,  \* orphans that spend an outpoint
    recentRejects,                \* the filter, without its false positives
    hashRecentRejectsChainTip,    \* the chain the filter is about
    phase,      \* who holds cs_main: "free", "tx", "activate", "connect", "invalidate"
    tx,         \* TX handler: the transaction of the message,
    vWorkQueue, \*   outpoints whose orphans are still to be tried,
    todo,       \*   orphans of the outpoint being worked on,
    vEraseQueue,    \* orphans to erase at the end
    setMisbehaving  \* peers that sent an invalid orphan

poolVars == <<pool, chain>>
orphanVars == <<mapOrphanTransactions, mapOrphanTransactionsByPrev>>
rejectVars == <<recentRejects, hashRecentRejectsChainTip>>
handlerVars == <<tx, vWorkQueue, todo, vEraseQueue, setMisbehaving>>
vars == <<poolVars, orphanVars, rejectVars, phase, handlerVars>>

-----------------------------------------------------------------------------
(* The chain and its coins (pcoinsTip).                                    *)

Confirmed(c) == UNION {ToSet(c[h]) : h \in DOMAIN c}
HeightOf(c, t) == CHOOSE h \in DOMAIN c : t \in ToSet(c[h])
Unspent(c) == {o \in OutPoints : o[1] \in Confirmed(c)}
                  \ UNION {Ins[t] : t \in Confirmed(c)}
HaveCoins(c, t) == \E o \in Unspent(c) : o[1] = t

\* CheckTxInputs: an output of a coinbase is spent Maturity blocks later, or in the
\* block of the coinbase itself.
PrematureInput(c, o, nSpendHeight) ==
    /\ o[1] \in Coinbases \cap Confirmed(c)
    /\ nSpendHeight - HeightOf(c, o[1]) \in 1..(Maturity - 1)
PrematureSpend(c, t) == \E o \in Ins[t] : PrematureInput(c, o, Len(c) + 1)

\* What ConnectBlock asks of the transactions of the next block.
ValidBlock(c, b) ==
    /\ \A i \in DOMAIN b : b[i] \in Coinbases => i = 1
    /\ \A i \in DOMAIN b :
          LET before == Append(c, SubSeq(b, 1, i - 1))
          IN  /\ b[i] \notin Confirmed(before) \cup BadScript
              /\ Ins[b[i]] \subseteq Unspent(before)
              /\ \A o \in Ins[b[i]] : ~PrematureInput(before, o, Len(c) + 1)

ASSUME GenesisAssumption == GenesisBlock \in Seq(Txs) /\ ValidBlock(<<>>, GenesisBlock)

-----------------------------------------------------------------------------
(* CTxMemPool: the entries of mapTx with their links (mapLinks), the       *)
(* spending map and the fee deltas.                                        *)

EmptyPool == [mapTx |-> {}, mapNextTx |-> {}, mapDeltas |-> [t \in Txs |-> 0]]

InPool(p) == {e.tx : e \in p.mapTx}
Entry(p, t) == CHOOSE e \in p.mapTx : e.tx = t
GetModifiedFee(e) == Fee[e.tx] + e.feeDelta
ModFees(p, S) == MapThenSumSet(GetModifiedFee, {e \in p.mapTx : e.tx \in S})
Spenders(p, O) == {n.tx : n \in {n \in p.mapNextTx : n.prevout \in O}}

\* The smallest set of transactions that holds S and is closed under the children of
\* mapLinks.
CalculateDescendants(p, S) ==
    {t \in InPool(p) :
        \A C \in SUBSET InPool(p) :
            (S \subseteq C /\ \A e \in p.mapTx : e.tx \in C => e.children \subseteq C) => t \in C}

\* The same with the parents, from a set of parents; for a transaction not yet in
\* the pool its parents are found by its inputs.
CalculateMemPoolAncestors(p, parentHashes) ==
    {t \in InPool(p) :
        \A C \in SUBSET InPool(p) :
            (parentHashes \subseteq C /\ \A e \in p.mapTx : e.tx \in C => e.parents \subseteq C)
            => t \in C}

SearchParents(p, t) == {o[1] : o \in Ins[t]} \cap InPool(p)

\* An entry e after the transactions of stage have left its totals and links.
UpdatedForRemoval(p, stage, updateDescendants, e) ==
    LET removed == {r \in p.mapTx : r.tx \in stage}
        below(r) == CalculateDescendants(p, {r.tx}) \ {r.tx}
        above(r) == CalculateMemPoolAncestors(p, r.parents)
        goneAbove == {r.tx : r \in {r \in removed : updateDescendants /\ e.tx \in below(r)}}
        goneBelow == {r.tx : r \in {r \in removed : e.tx \in above(r)}}
    IN  [e EXCEPT
            !.nCountWithAncestors = @ - Cardinality(goneAbove),
            !.nModFeesWithAncestors = @ - ModFees(p, goneAbove),
            !.nCountWithDescendants = @ - Cardinality(goneBelow),
            !.nModFeesWithDescendants = @ - ModFees(p, goneBelow),
            !.children = @ \ {r.tx : r \in {r \in removed : e.tx \in r.parents}},
            !.parents = @ \ {r.tx : r \in {r \in removed : e.tx \in r.children}}]

UpdateForRemoveFromMempool(p, stage, updateDescendants) ==
    [p EXCEPT !.mapTx = {UpdatedForRemoval(p, stage, updateDescendants, e) : e \in @}]

\* Mutant: the entry stays in mapTx, its inputs are free again.
removeUncheckedInputs(p, stage) ==
    [p EXCEPT !.mapNextTx = {n \in @ : \A t \in stage : n.prevout \notin Ins[t]}]

removeUnchecked(p, stage) ==
    [p EXCEPT !.mapTx = {e \in @ : e.tx \notin stage},
              !.mapNextTx = {n \in @ : \A t \in stage : n.prevout \notin Ins[t]}]

\* Mutant: a transaction that is mined still counts among the ancestors of others.
RemoveStagedNoUpdate(p, stage, updateDescendants) ==
    removeUnchecked(UpdateForRemoveFromMempool(p, stage, FALSE), stage)

RemoveStaged(p, stage, updateDescendants) ==
    removeUnchecked(UpdateForRemoveFromMempool(p, stage, updateDescendants), stage)

NewEntry(p, t, setAncestors) ==
    LET modFee == Fee[t] + p.mapDeltas[t]
    IN  [tx |-> t,
         feeDelta |-> p.mapDeltas[t],
         parents |-> SearchParents(p, t),
         children |-> {},
         nCountWithDescendants |-> 1,
         nModFeesWithDescendants |-> modFee,
         nCountWithAncestors |-> 1 + Cardinality(setAncestors),
         nModFeesWithAncestors |-> modFee + ModFees(p, setAncestors)]

\* An entry e of the pool after the new one is counted in its totals and links.
UpdatedForAdd(new, setAncestors, e) ==
    LET isAncestor == e.tx \in setAncestors
    IN  [e EXCEPT
            !.children = IF e.tx \in new.parents THEN @ \cup {new.tx} ELSE @,
            !.nCountWithDescendants = IF isAncestor THEN @ + 1 ELSE @,
            !.nModFeesWithDescendants = IF isAncestor THEN @ + GetModifiedFee(new) ELSE @]

addUnchecked(p, t, setAncestors) ==
    LET new == NewEntry(p, t, setAncestors)
    IN  [p EXCEPT
           !.mapTx = {new} \cup {UpdatedForAdd(new, setAncestors, e) : e \in @},
           !.mapNextTx = @ \cup {[prevout |-> o, tx |-> t] : o \in Ins[t]}]

\* The transaction with its descendants, or, when it is not in the pool, the
\* descendants of the entries that spend its outputs.
removeRecursive(p, origTx) ==
    LET txToRemove == IF origTx \in InPool(p)
                      THEN {origTx}
                      ELSE Spenders(p, {o \in OutPoints : o[1] = origTx})
    IN  RemoveStaged(p, CalculateDescendants(p, txToRemove), FALSE)

ClearPrioritisation(p, t) == [p EXCEPT !.mapDeltas[t] = 0]

removeConflicts(p, t) ==
    FoldSet(LAMBDA u, q : IF u \in InPool(q)
                          THEN ClearPrioritisation(removeRecursive(q, u), u)
                          ELSE q,
            p, Spenders(p, Ins[t]) \ {t})

removeForBlock(p, vtx) ==
    FoldLeft(LAMBDA q, t :
                LET r == IF t \in InPool(q) THEN RemoveStaged(q, {t}, TRUE) ELSE q
                IN  ClearPrioritisation(removeConflicts(r, t), t),
             p, vtx)

\* Mutant: only lost coins are looked for, not maturity.
removeForReorgLostOnly(p, c) ==
    FoldSet(LAMBDA t, q : removeRecursive(q, t), p,
            {t \in InPool(p) : \E o \in Ins[t] : o[1] \notin InPool(p) /\ ~HaveCoins(c, o[1])})

\* Entries that spend a coin which is gone, or a coinbase now immature.
removeForReorg(p, c) ==
    LET spendsCoinbase(t) == \E o \in Ins[t] : o[1] \in Coinbases
        lost(t) == \E o \in Ins[t] :
                      /\ o[1] \notin InPool(p)
                      /\ ~HaveCoins(c, o[1]) \/ PrematureInput(c, o, Len(c) + 1)
    IN  FoldSet(LAMBDA t, q : removeRecursive(q, t), p,
                {t \in InPool(p) : spendsCoinbase(t) /\ lost(t)})

Expire(p, old) == RemoveStaged(p, CalculateDescendants(p, old), FALSE)

\* CompareTxMemPoolEntryByDescendantScore, ties in any order (entry times).
DescendantScoreLess(e, f) ==
    LET useDesc(x) == x.nModFeesWithDescendants > GetModifiedFee(x) * x.nCountWithDescendants
        modFee(x) == IF useDesc(x) THEN x.nModFeesWithDescendants ELSE GetModifiedFee(x)
        size(x) == IF useDesc(x) THEN x.nCountWithDescendants ELSE 1
    IN  modFee(e) * size(f) < modFee(f) * size(e)

\* The pools TrimToSize may leave: the entry of the lowest score goes, with its
\* descendants.  One round is enough: entries come one at a time and have size 1.
TrimToSize(p) ==
    IF Cardinality(p.mapTx) <= MaxPool
    THEN {p}
    ELSE {RemoveStaged(p, CalculateDescendants(p, {e.tx}), FALSE) :
             e \in {e \in p.mapTx : ~\E f \in p.mapTx : DescendantScoreLess(f, e)}}

\* Any entries may have expired, except one just added.
LimitMempoolSize(p, fresh) ==
    UNION {TrimToSize(Expire(p, old)) : old \in SUBSET (InPool(p) \ fresh)}

\* An entry e of the pool after nFeeDelta was added to the delta of t.
UpdatedForDelta(p, t, nFeeDelta, e) ==
    LET change == p.mapDeltas[t] + nFeeDelta - e.feeDelta
    IN  IF e.tx = t
        THEN [e EXCEPT !.feeDelta = p.mapDeltas[t] + nFeeDelta,
                       !.nModFeesWithAncestors = @ + change,
                       !.nModFeesWithDescendants = @ + change]
        ELSE IF e.tx \in CalculateMemPoolAncestors(p, Entry(p, t).parents)
        THEN [e EXCEPT !.nModFeesWithDescendants = @ + nFeeDelta]
        ELSE e

PrioritisedPool(p, t, nFeeDelta) ==
    [p EXCEPT !.mapDeltas[t] = @ + nFeeDelta,
              !.mapTx = IF t \in InPool(p) THEN {UpdatedForDelta(p, t, nFeeDelta, e) : e \in @}
                        ELSE @]

-----------------------------------------------------------------------------
(* AcceptToMemoryPoolWorker: its checks in their order, as predicates.     *)

setConflicts(p, t) == Spenders(p, Ins[t])

\* Checks before the inputs are looked up, the known transaction included.
NewAndStandard(p, t) ==
    /\ t \notin Coinbases \cup NonStandard
    /\ t \notin InPool(p)
    /\ setConflicts(p, t) \subseteq Replaceable
    /\ ~HaveCoins(chain, t)

\* "do all inputs exist?": a parent of which no output is known.
MissingInputs(p, t) ==
    /\ NewAndStandard(p, t)
    /\ \E o \in Ins[t] : o[1] \notin InPool(p) /\ ~HaveCoins(chain, o[1])

\* HaveInputs: CCoinsViewMemPool prefers the pool and ignores what the pool spends.
InputsAvailable(p, t) ==
    \A o \in Ins[t] : o[1] \in InPool(p) \/ o \in Unspent(chain)

WithinLimits(p, setAncestors) ==
    /\ Cardinality(setAncestors) + 1 <= AncestorLimit
    /\ \A e \in p.mapTx : e.tx \in setAncestors => e.nCountWithDescendants + 1 <= DescendantLimit

\* The rules for a transaction that replaces others.
MayReplace(p, t, conflicts, allConflicting) ==
    LET modFee == Fee[t] + p.mapDeltas[t]
        conflictsParents == {o[1] : o \in UNION {Ins[c] : c \in conflicts}}
    IN  conflicts = {} \/
        /\ \A e \in p.mapTx : e.tx \in conflicts => modFee > GetModifiedFee(e)
        /\ \A o \in Ins[t] : o[1] \in conflictsParents \/ o[1] \notin InPool(p)
        /\ modFee >= ModFees(p, allConflicting) + RelayFee

ReachesConflictCheck(p, t) ==
    /\ NewAndStandard(p, t)
    /\ ~MissingInputs(p, t)
    /\ InputsAvailable(p, t)
    /\ WithinLimits(p, CalculateMemPoolAncestors(p, SearchParents(p, t)))

SpendsConflict(p, t) ==
    setConflicts(p, t) \cap CalculateMemPoolAncestors(p, SearchParents(p, t)) # {}

ReachesCheckInputs(p, t) ==
    /\ ReachesConflictCheck(p, t)
    /\ ~SpendsConflict(p, t)
    /\ MayReplace(p, t, setConflicts(p, t), CalculateDescendants(p, setConflicts(p, t)))
    /\ ~PrematureSpend(chain, t)

Accepted(p, t) ==
    LET allConflicting == CalculateDescendants(p, setConflicts(p, t))
        setAncestors == CalculateMemPoolAncestors(p, SearchParents(p, t))
    IN  addUnchecked(RemoveStaged(p, allConflicting, FALSE), t, setAncestors)

\* How AcceptToMemoryPool may return: with which verdict and leaving which pool.
\* "missing" is fMissingInputs, "dos" a refusal with a DoS score, "invalid" one
\* without.
Verdict(v, p) == [verdict |-> v, pool |-> p]

AcceptToMemoryPool(p, t) ==
    CASE t \in Coinbases -> {Verdict("dos", p)}
      [] MissingInputs(p, t) -> {Verdict("missing", p)}
      [] ReachesConflictCheck(p, t) /\ SpendsConflict(p, t) -> {Verdict("dos", p)}
      [] ReachesCheckInputs(p, t) /\ t \in BadScript -> {Verdict("dos", p)}
      [] ReachesCheckInputs(p, t) /\ t \notin BadScript ->
            {Verdict(IF t \in InPool(q) THEN "ok" ELSE "invalid", q) :
                q \in LimitMempoolSize(Accepted(p, t), {t})}
      [] OTHER -> {Verdict("invalid", p)}

\* What depends on time and rates (fee floor, priority, rate limiter, lock times)
\* may refuse any transaction that is not a coinbase.
PolicyRefusal(p) == Verdict("invalid", p)

-----------------------------------------------------------------------------
(* Orphan transactions.  The two maps are handled together as a record.    *)

IsOrphan(t) == mapOrphanTransactions[t] # NoPeer
Orphans == {t \in Txs : IsOrphan(t)}

OrphanMaps == [tx |-> mapOrphanTransactions, prev |-> mapOrphanTransactionsByPrev]
OrphanSet(m) == {t \in Txs : m.tx[t] # NoPeer}

SetOrphanMaps(m) ==
    /\ mapOrphanTransactions' = m.tx
    /\ mapOrphanTransactionsByPrev' = m.prev

AddOrphanTx(m, t, peer) ==
    IF m.tx[t] # NoPeer THEN m
    ELSE [tx |-> [m.tx EXCEPT ![t] = peer],
          prev |-> [o \in OutPoints |->
                       IF o \in Ins[t] THEN m.prev[o] \cup {t} ELSE m.prev[o]]]

\* Mutant: the index by parent is not cleaned.
EraseOrphanTxOnly(m, S) ==
    [tx |-> [t \in Txs |-> IF t \in S THEN NoPeer ELSE m.tx[t]], prev |-> m.prev]

EraseOrphanTx(m, S) ==
    [tx |-> [t \in Txs |-> IF t \in S THEN NoPeer ELSE m.tx[t]],
     prev |-> [o \in OutPoints |-> m.prev[o] \ {t \in S : m.tx[t] # NoPeer /\ o \in Ins[t]}]]

\* Expired orphans go, then random ones while there are too many; the newest has
\* not expired.
LimitOrphanTxSize(m, newest, gone) ==
    /\ Cardinality(OrphanSet(m) \ gone) <= MaxOrphans
    /\ newest \in gone => Cardinality(OrphanSet(m) \ gone) = MaxOrphans
    /\ SetOrphanMaps(EraseOrphanTx(m, gone))

-----------------------------------------------------------------------------
(* The TX message.                                                         *)

\* AlreadyHave starts the filter afresh when the tip has changed.
FreshRejects == IF chain = hashRecentRejectsChainTip THEN recentRejects ELSE {}

\* HaveCoinsInCache finds coins of the chain only while they are cached.
AlreadyHave(t) ==
    {t \in FreshRejects \cup InPool(pool) \cup Orphans}
        \cup IF HaveCoins(chain, t) THEN {TRUE} ELSE {}

OutPointsOf(t) == [n \in 1..Outs[t] |-> <<t, n>>]

IdleHandler ==
    /\ tx' = NoTx
    /\ vWorkQueue' = <<>>
    /\ todo' = {}
    /\ vEraseQueue' = {}
    /\ setMisbehaving' = {}

\* A transaction that is accepted: its outputs are queued for the orphan loop.
ProcessTxAccepted(peer, t) ==
    /\ phase = "free"
    /\ FALSE \in AlreadyHave(t)
    /\ \E r \in AcceptToMemoryPool(pool, t) :
          /\ r.verdict = "ok"
          /\ pool' = r.pool
    /\ phase' = "tx"
    /\ tx' = t
    /\ vWorkQueue' = OutPointsOf(t)
    /\ recentRejects' = FreshRejects
    /\ hashRecentRejectsChainTip' = chain
    /\ UNCHANGED <<chain, orphanVars, todo, vEraseQueue, setMisbehaving>>

\* An orphan is kept, unless a parent of it was rejected.
ProcessTxOrphan(peer, t) ==
    /\ phase = "free"
    /\ FALSE \in AlreadyHave(t)
    /\ \E r \in AcceptToMemoryPool(pool, t) : r.verdict = "missing"
    /\ IF \E o \in Ins[t] : o[1] \in FreshRejects
       THEN UNCHANGED orphanVars
       ELSE \E gone \in SUBSET (Orphans \cup {t}) :
               LimitOrphanTxSize(AddOrphanTx(OrphanMaps, t, peer), t, gone)
    /\ recentRejects' = FreshRejects
    /\ hashRecentRejectsChainTip' = chain
    /\ UNCHANGED <<poolVars, phase, handlerVars>>

\* A transaction we have already, or that was refused: it enters the filter.
ProcessTxRejected(peer, t) ==
    /\ phase = "free"
    /\ \/ TRUE \in AlreadyHave(t) /\ pool' = pool
       \/ /\ FALSE \in AlreadyHave(t)
          /\ \E r \in AcceptToMemoryPool(pool, t) :
                /\ r.verdict \in {"invalid", "dos"}
                /\ pool' = r.pool
       \/ FALSE \in AlreadyHave(t) /\ pool' = PolicyRefusal(pool).pool
    /\ recentRejects' = FreshRejects \cup {t}
    /\ hashRecentRejectsChainTip' = chain
    /\ UNCHANGED <<chain, orphanVars, phase, handlerVars>>

\* Mutant: the outpoint is looked at and not taken from the queue.
PeekWorkQueue ==
    /\ phase = "tx"
    /\ todo = {}
    /\ vWorkQueue # <<>>
    /\ todo' = mapOrphanTransactionsByPrev[Head(vWorkQueue)]
    /\ UNCHANGED <<poolVars, orphanVars, rejectVars, phase, tx, vWorkQueue, vEraseQueue, setMisbehaving>>

\* The orphan loop: the next outpoint of the queue ...
PopWorkQueue ==
    /\ phase = "tx"
    /\ todo = {}
    /\ vWorkQueue # <<>>
    /\ todo' = mapOrphanTransactionsByPrev[Head(vWorkQueue)]
    /\ vWorkQueue' = Tail(vWorkQueue)
    /\ UNCHANGED <<poolVars, orphanVars, rejectVars, phase, tx, vEraseQueue, setMisbehaving>>

\* Mutant: the outputs of an accepted orphan are not queued.
OrphanTriedOnce(o, r) ==
    /\ pool' = r.pool
    /\ vEraseQueue' = IF r.verdict = "missing" THEN vEraseQueue ELSE vEraseQueue \cup {o}
    /\ setMisbehaving' = IF r.verdict = "dos"
                         THEN setMisbehaving \cup {mapOrphanTransactions[o]}
                         ELSE setMisbehaving
    /\ recentRejects' = IF r.verdict \in {"invalid", "dos"}
                        THEN recentRejects \cup {o} ELSE recentRejects
    /\ UNCHANGED vWorkQueue

\* ... and each orphan that spends it.
OrphanTried(o, r) ==
    /\ pool' = r.pool
    /\ vWorkQueue' = IF r.verdict = "ok" THEN vWorkQueue \o OutPointsOf(o) ELSE vWorkQueue
    /\ vEraseQueue' = IF r.verdict = "missing" THEN vEraseQueue ELSE vEraseQueue \cup {o}
    /\ setMisbehaving' = IF r.verdict = "dos"
                         THEN setMisbehaving \cup {mapOrphanTransactions[o]}
                         ELSE setMisbehaving
    /\ recentRejects' = IF r.verdict \in {"invalid", "dos"}
                        THEN recentRejects \cup {o} ELSE recentRejects

TryOrphan(o) ==
    /\ phase = "tx"
    /\ o \in todo
    /\ todo' = todo \ {o}
    /\ \/ /\ mapOrphanTransactions[o] \in setMisbehaving
          /\ UNCHANGED <<pool, vWorkQueue, vEraseQueue, setMisbehaving, recentRejects>>
       \/ /\ mapOrphanTransactions[o] \notin setMisbehaving
          /\ \/ OrphanTried(o, PolicyRefusal(pool))
             \/ \E r \in AcceptToMemoryPool(pool, o) : OrphanTried(o, r)
    /\ UNCHANGED <<chain, orphanVars, hashRecentRejectsChainTip, phase, tx>>

\* The loop is over: orphans that were accepted or refused are erased.
EraseProcessed ==
    /\ phase = "tx"
    /\ todo = {}
    /\ vWorkQueue = <<>>
    /\ SetOrphanMaps(EraseOrphanTx(OrphanMaps, vEraseQueue))
    /\ phase' = "free"
    /\ IdleHandler
    /\ UNCHANGED <<poolVars, rejectVars>>

-----------------------------------------------------------------------------
(* Everything else that changes the pools.                                 *)

\* The wallet or sendrawtransaction; orphans are not looked at.
SubmitTx(t) ==
    /\ phase = "free"
    /\ \E r \in AcceptToMemoryPool(pool, t) : pool' = r.pool
    /\ UNCHANGED <<chain, orphanVars, rejectVars, phase, handlerVars>>

PrioritiseTransaction(t, nFeeDelta) ==
    /\ phase = "free"
    /\ pool.mapDeltas[t] + nFeeDelta \in -MaxDelta..MaxDelta
    /\ pool' = PrioritisedPool(pool, t, nFeeDelta)
    /\ UNCHANGED <<chain, orphanVars, rejectVars, phase, handlerVars>>

\* FinalizeNode: EraseOrphansFor.
PeerLeaves(peer) ==
    /\ phase = "free"
    /\ SetOrphanMaps(EraseOrphanTx(OrphanMaps, {t \in Txs : mapOrphanTransactions[t] = peer}))
    /\ UNCHANGED <<poolVars, rejectVars, phase, handlerVars>>

\* ConnectBlock erases the orphans that spend what the block spends.
Precluded(b) ==
    UNION {mapOrphanTransactionsByPrev[o] : o \in UNION {Ins[t] : t \in ToSet(b)}}

ConnectTip(b) ==
    /\ phase \in {"free", "activate", "connect"}
    /\ Len(chain) < MaxHeight
    /\ ValidBlock(chain, b)
    /\ SetOrphanMaps(EraseOrphanTx(OrphanMaps, Precluded(b)))
    /\ pool' = removeForBlock(pool, b)
    /\ chain' = Append(chain, b)
    /\ phase' = IF phase = "free" THEN "free" ELSE "connect"
    /\ UNCHANGED <<rejectVars, handlerVars>>

\* AcceptToMemoryPool is only asked for coinbases and coinstakes, which it refuses:
\* every transaction of the block ends in removeRecursive, vHashUpdate stays empty
\* and UpdateTransactionsFromBlock has nothing to do.
DisconnectTip(caller) ==
    /\ phase \in {"free", caller}
    /\ Len(chain) > 1
    /\ pool' = FoldLeft(removeRecursive, pool, Last(chain))
    /\ chain' = Front(chain)
    /\ phase' = caller
    /\ UNCHANGED <<orphanVars, rejectVars, handlerVars>>

\* The end of an ActivateBestChainStep that disconnected blocks.
ActivateBestChainStepEnd ==
    /\ phase \in {"activate", "connect"}
    /\ pool' \in LimitMempoolSize(removeForReorg(pool, chain), {})
    /\ phase' = "free"
    /\ UNCHANGED <<chain, orphanVars, rejectVars, handlerVars>>

\* A system error in DisconnectTip or ConnectTip: it returns at once, without a look at
\* the pool.
ActivateBestChainStepFails ==
    /\ phase \in {"activate", "connect"}
    /\ phase' = "free"
    /\ UNCHANGED <<poolVars, orphanVars, rejectVars, handlerVars>>

\* A DisconnectTip that fails ends it too, without LimitMempoolSize, which need not
\* remove anything then.
InvalidateBlockEnd ==
    /\ phase = "invalidate"
    /\ \E q \in LimitMempoolSize(pool, {}) : pool' = removeForReorg(q, chain)
    /\ phase' = "free"
    /\ UNCHANGED <<chain, orphanVars, rejectVars, handlerVars>>

Init ==
    /\ pool = EmptyPool
    /\ chain = <<GenesisBlock>>
    /\ mapOrphanTransactions = [t \in Txs |-> NoPeer]
    /\ mapOrphanTransactionsByPrev = [o \in OutPoints |-> {}]
    /\ recentRejects = {}
    /\ hashRecentRejectsChainTip = chain
    /\ phase = "free"
    /\ tx = NoTx
    /\ vWorkQueue = <<>>
    /\ todo = {}
    /\ vEraseQueue = {}
    /\ setMisbehaving = {}

HandlerStep == PopWorkQueue \/ (\E o \in Txs : TryOrphan(o)) \/ EraseProcessed

Blocks == UNION {[1..n -> Txs] : n \in 0..MaxBlockTxs}

Next ==
    \/ \E peer \in Peers, t \in Relayed :
          \/ ProcessTxAccepted(peer, t)
          \/ ProcessTxOrphan(peer, t)
          \/ ProcessTxRejected(peer, t)
    \/ HandlerStep
    \/ \E t \in Submitted : SubmitTx(t)
    \/ \E t \in Prioritised, d \in Deltas : PrioritiseTransaction(t, d)
    \/ \E peer \in Peers : PeerLeaves(peer)
    \/ \E b \in Blocks : ConnectTip(b)
    \/ \E caller \in {"activate", "invalidate"} : DisconnectTip(caller)
    \/ ActivateBestChainStepEnd
    \/ ActivateBestChainStepFails
    \/ InvalidateBlockEnd

Spec == Init /\ [][Next]_vars

\* A thread that holds cs_main goes on until it has finished.
FairSpec == Spec /\ WF_vars(HandlerStep)

-----------------------------------------------------------------------------
(* What is asked of a pool.                                                *)

Indexed(p) ==
    /\ p.mapNextTx = UNION {{[prevout |-> o, tx |-> t] : o \in Ins[t]} : t \in InPool(p)}
    /\ \A n, m \in p.mapNextTx : n.prevout = m.prevout => n = m
    /\ \A e \in p.mapTx :
          /\ e.parents = SearchParents(p, e.tx)
          /\ e.children = {f.tx : f \in {f \in p.mapTx : e.tx \in f.parents}}

Totalled(p) ==
    \A e \in p.mapTx :
        /\ e.nCountWithDescendants = Cardinality(CalculateDescendants(p, {e.tx}))
        /\ e.nModFeesWithDescendants = ModFees(p, CalculateDescendants(p, {e.tx}))
        /\ e.nCountWithAncestors = Cardinality(CalculateMemPoolAncestors(p, {e.tx}))

InputsThere(p, c) ==
    \A t \in InPool(p) : \A o \in Ins[t] : o[1] \in InPool(p) \/ o \in Unspent(c)

-----------------------------------------------------------------------------
(* Properties.                                                             *)

Entries ==
    [tx : Txs, feeDelta : Int, parents : SUBSET Txs, children : SUBSET Txs,
     nCountWithDescendants : Nat, nModFeesWithDescendants : Int,
     nCountWithAncestors : Nat, nModFeesWithAncestors : Int]

\* The state of the pools and of the TX handler has its type.
TypeOK ==
    /\ pool.mapTx \subseteq Entries
    /\ \A e, f \in pool.mapTx : e.tx = f.tx => e = f
    /\ pool.mapNextTx \subseteq [prevout : OutPoints, tx : Txs]
    /\ pool.mapDeltas \in [Txs -> Int]
    /\ chain \in Seq(Seq(Txs))
    /\ mapOrphanTransactions \in [Txs -> Peers \cup {NoPeer}]
    /\ mapOrphanTransactionsByPrev \in [OutPoints -> SUBSET Txs]
    /\ recentRejects \subseteq Txs
    /\ hashRecentRejectsChainTip \in Seq(Seq(Txs))
    /\ phase \in {"free", "tx", "activate", "connect", "invalidate"}
    /\ tx \in Txs \cup {NoTx}
    /\ vWorkQueue \in Seq(OutPoints)
    /\ todo \subseteq Txs
    /\ vEraseQueue \subseteq Txs
    /\ setMisbehaving \subseteq Peers

\* What CTxMemPool::check asserts of the inputs, whatever was replaced, evicted, mined
\* or disconnected: every input of an entry is an output of another entry or an unspent
\* coin of the active chain.  That coin is mature: no step but a reorganisation lets
\* in, or makes, an entry that spends an immature one, and none such outlives a
\* reorganisation, unless that is ended by a system error, before removeForReorg.
InputsSpendable ==
    [][phase' \in {"free", "tx"} =>
        /\ InputsThere(pool', chain')
        /\ \A t \in InPool(pool') :
              PrematureSpend(chain', t) =>
                  /\ t \in InPool(pool) /\ PrematureSpend(chain, t)
                  /\ phase \in {"free", "tx"} \/ ActivateBestChainStepFails]_vars

\* The pool never holds a double spend, and mapNextTx and mapLinks say exactly
\* which entry spends what (the asserts of CTxMemPool::check on both maps), in
\* the middle of a reorganisation too.
SpendsIndexed == Indexed(pool)

\* The totals kept in every entry, by which eviction, mining and the package limits
\* choose, are those of its true descendants and ancestors: no update was missed
\* or made twice.  The fees of the ancestors are not among them: PrioritiseTransaction
\* does not pass a delta on to the descendants' nModFeesWithAncestors.
TotalsExact == Totalled(pool)

\* mapOrphanTransactionsByPrev is the index of mapOrphanTransactions at any moment:
\* no iterator in it outlives its orphan and no orphan is missing from it.
OrphanIndexExact ==
    \A o \in OutPoints :
        mapOrphanTransactionsByPrev[o] = {t \in Txs : IsOrphan(t) /\ o \in Ins[t]}

\* Neither pool outgrows its limit once a handler has let go of cs_main.
PoolsBounded ==
    /\ Cardinality(Orphans) <= MaxOrphans
    /\ phase = "free" => Cardinality(pool.mapTx) <= MaxPool

\* The pools are well formed, indexed and bounded after every step of a handler.
PoolConsistent == TypeOK /\ SpendsIndexed /\ PoolsBounded

\* When a TX message has been handled, no orphan is left that the accepted
\* transactions have completed: an orphan that spends one of them still lacks a
\* parent, or came from a peer caught with an invalid orphan in this run.
OrphansResolved ==
    [][(phase = "tx" /\ phase' = "free") =>
        \A t \in Txs :
            ( /\ mapOrphanTransactions'[t] \notin setMisbehaving \cup {NoPeer}
              /\ \E o \in Ins[t] : o[1] \in ({tx} \cup vEraseQueue) \cap InPool(pool) )
            => \E o \in Ins[t] : o[1] \notin InPool(pool) /\ ~HaveCoins(chain, o[1])]_vars

\* The orphan loop ends, so cs_main is released.
HandlerEnds == phase = "tx" ~> phase = "free"


-----------------------------------------------------------------------------
(* The inductive invariants behind them.                                   *)

\* Every block of the chain was valid on the blocks before it.
ChainValid(c) ==
    /\ c \in Seq(Seq(Txs))
    /\ c # <<>>
    /\ \A h \in DOMAIN c : ValidBlock(SubSeq(c, 1, h - 1), c[h])

\* A pool with one entry for a transaction, exact indexes and totals, fee deltas as
\* they were last set.
PoolShape(p) ==
    /\ p \in [mapTx : SUBSET Entries, mapNextTx : SUBSET [prevout : OutPoints, tx : Txs],
              mapDeltas : [Txs -> Int]]
    /\ \A e, f \in p.mapTx : e.tx = f.tx => e = f
    /\ \A e \in p.mapTx : e.feeDelta = p.mapDeltas[e.tx]
    /\ Indexed(p)
    /\ Totalled(p)

\* Its transactions have their inputs, are not confirmed and no coinbases, at any
\* moment of a reorganisation.
PoolFits(p, c) ==
    /\ InputsThere(p, c)
    /\ InPool(p) \cap (Confirmed(c) \cup Coinbases) = {}

PoolInv ==
    /\ ChainValid(chain)
    /\ PoolShape(pool)
    /\ PoolFits(pool, chain)
    /\ Cardinality(InPool(pool)) <= MaxPool

LacksParent(t) == \E o \in Ins[t] : o[1] \notin InPool(pool) /\ ~HaveCoins(chain, o[1])
SpendsQueued(t) == Ins[t] \cap ToSet(vWorkQueue) # {}

\* While the orphan loop runs, an orphan that one of the accepted transactions may
\* have completed is waiting to be tried, unless it lacks another parent; and one that
\* is waiting though it is in the pool was accepted by this loop.
HandlerInv ==
    /\ phase # "tx" => /\ tx = NoTx
                       /\ vWorkQueue = <<>>
                       /\ todo = {} /\ vEraseQueue = {} /\ setMisbehaving = {}
    /\ todo \cup vEraseQueue \subseteq Orphans
    /\ \A t \in InPool(pool) \cap Orphans :
          t \in todo \/ SpendsQueued(t) => t \in vEraseQueue
    /\ \A t \in Orphans \ (vEraseQueue \cup todo) :
          ( /\ mapOrphanTransactions[t] \notin setMisbehaving
            /\ \E o \in Ins[t] : o[1] \in ({tx} \cup vEraseQueue) \cap InPool(pool) )
          => LacksParent(t) \/ SpendsQueued(t)
=============================================================================
