----------------------------- MODULE ChainState -----------------------------
(***************************************************************************)
(* The block tree of a node and the choice of its active chain (main.cpp): *)
(* header and block acceptance, setBlockIndexCandidates, mapBlocksUnlinked,*)
(* FindMostWorkChain, ActivateBestChain and the two operator commands      *)
(* invalidateblock and reconsiderblock.                                    *)
(*                                                                         *)
(* Every critical section of cs_main is one step.  ActivateBestChain       *)
(* releases the lock between its steps and keeps pindexMostWork in a local *)
(* variable meanwhile, so several threads (the message handler, the        *)
(* staker, RPC workers) may be inside it at once.                          *)
(*                                                                         *)
(* A block is an identity; its place in the tree, its cumulative work and  *)
(* the outcome of its checks are given.  Block files are never pruned and  *)
(* disk errors (AbortNode) do not happen in this module.                   *)
(***************************************************************************)
EXTENDS Naturals, FiniteSets

CONSTANTS
    Blocks, Genesis,  \* the blocks that exist in the network
    Parent,           \* hashPrevBlock of every block but Genesis
    Anc,              \* Anc[b]: b and everything it descends from
    Work,             \* nChainWork
    Verdicts,         \* possible outcomes of the blocks' checks, see verdict
    Threads,          \* threads that call ProcessNewBlock and the RPCs
    MinBlocksToKeep,  \* MIN_BLOCKS_TO_KEEP, the limit of fTooFarAhead
    MaxInvalidate,    \* bound on invalidateblock commands
    MaxReconsider,    \* bound on reconsiderblock commands
    NULL

ASSUME TreeAssumption ==
    /\ IsFiniteSet(Blocks) /\ Genesis \in Blocks /\ NULL \notin Blocks
    /\ Parent \in [Blocks \ {Genesis} -> Blocks]
    /\ Anc \in [Blocks -> SUBSET Blocks]
    /\ Anc[Genesis] = {Genesis}
    /\ \A b \in Blocks \ {Genesis} :
          b \notin Anc[Parent[b]] /\ Anc[b] = Anc[Parent[b]] \cup {b}
    /\ \A b \in Blocks : \A a \in Anc[b] : Anc[a] \subseteq Anc[b]
    /\ \A b \in Blocks : \A x, y \in Anc[b] : x \in Anc[y] \/ y \in Anc[x]

\* GetBlockProof of an accepted header is positive.
ASSUME WorkAssumption ==
    /\ Work \in [Blocks -> Nat]
    /\ \A b \in Blocks \ {Genesis} : Work[Parent[b]] < Work[b]

\* "ok": the block is valid;  "badblock": CheckBlock or ContextualCheckBlock
\* rejects it in AcceptBlock;  "invalid": ConnectBlock rejects it with
\* state.DoS;  "error": ConnectBlock returns false and leaves state valid
\* (a failing CheckProofOfStake or TransactionGetCoinAge)
Outcome == {"ok", "badblock", "invalid", "error"}

ASSUME VerdictAssumption ==
    /\ Verdicts \subseteq [Blocks -> Outcome]
    /\ \A v \in Verdicts : v[Genesis] = "ok"

ASSUME BoundAssumption ==
    MinBlocksToKeep \in Nat /\ MaxInvalidate \in Nat /\ MaxReconsider \in Nat

VARIABLES
    verdict,           \* the outcome of each block's checks, fixed
    \* CBlockIndex entries
    index,             \* keys of mapBlockIndex; an entry is VALID_TREE
    haveData,          \* BLOCK_HAVE_DATA: nTx > 0, VALID_TRANSACTIONS
    chainTx,           \* nChainTx # 0: the block and its ancestors have data
    seqId,             \* nSequenceId
    failedValid,       \* BLOCK_FAILED_VALID
    failedChild,       \* BLOCK_FAILED_CHILD
    \* globals protected by cs_main
    nBlockSequenceId,
    candidates,        \* setBlockIndexCandidates
    unlinked,          \* the B of every pair A->B of mapBlocksUnlinked
    tip,               \* chainActive.Tip()
    bestHeader,        \* pindexBestHeader
    bestInvalid,       \* pindexBestInvalid
    \* threads
    pc,                \* "idle", or "activate": in ActivateBestChain, unlocked
    mostWork,          \* the local pindexMostWork of each thread
    nInvalidate,       \* operator commands so far
    nReconsider

entries == <<index, haveData, chainTx, seqId, failedValid, failedChild>>
globals == <<nBlockSequenceId, candidates, unlinked, tip, bestHeader, bestInvalid>>
vars    == <<verdict, entries, globals, pc, mostWork, nInvalidate, nReconsider>>

TypeOK ==
    /\ verdict \in Verdicts
    /\ index \subseteq Blocks /\ haveData \subseteq index /\ chainTx \subseteq haveData
    /\ seqId \in [Blocks -> Nat]
    /\ failedValid \subseteq index /\ failedChild \subseteq index
    /\ nBlockSequenceId \in Nat
    /\ candidates \subseteq chainTx
    /\ unlinked \subseteq haveData \ chainTx
    /\ tip \in chainTx
    /\ bestHeader \in index
    /\ bestInvalid \in index \cup {NULL}
    /\ pc \in [Threads -> {"idle", "activate"}]
    /\ mostWork \in [Threads -> index \cup {NULL}]
    /\ nInvalidate \in 0..MaxInvalidate /\ nReconsider \in 0..MaxReconsider

\* InitBlockIndex on an empty data directory, then ActivateBestChain.
Init ==
    /\ verdict \in Verdicts
    /\ index = {Genesis} /\ haveData = {Genesis} /\ chainTx = {Genesis}
    /\ seqId = [b \in Blocks |-> IF b = Genesis THEN 1 ELSE 0]
    /\ failedValid = {} /\ failedChild = {}
    /\ nBlockSequenceId = 2
    /\ candidates = {Genesis} /\ unlinked = {}
    /\ tip = Genesis /\ bestHeader = Genesis /\ bestInvalid = NULL
    /\ pc = [t \in Threads |-> "idle"]
    /\ mostWork = [t \in Threads |-> NULL]
    /\ nInvalidate = 0 /\ nReconsider = 0

-----------------------------------------------------------------------------
(* Block index entries                                                     *)

\* CBlockIndexWorkComparator: a sorts before b.  The pointer tie-break is
\* reached only by blocks loaded from disk, which all have nSequenceId 0.
WorseBy(a, b, id) ==
    \/ Work[a] < Work[b]
    \/ Work[a] = Work[b] /\ id[a] > id[b]

Worse(a, b) == WorseBy(a, b, seqId)

\* The last of a set of candidates (rbegin of the std::set)
BestOf(S) == CHOOSE c \in S : \A d \in S \ {c} : Worse(d, c)

failed == failedValid \cup failedChild

\* IsValid() with its default argument BLOCK_VALID_TRANSACTIONS
IsValid(b) == b \in haveData /\ b \notin failed

Height(b) == Cardinality(Anc[b]) - 1

\* The highest block of a set of blocks of one chain
Highest(S) == CHOOSE b \in S : \A a \in S : a \in Anc[b]

\* The marker after InvalidChainFound(b)
InvalidChainFound(b, marker) ==
    IF marker = NULL \/ Work[b] > Work[marker] THEN b ELSE marker

-----------------------------------------------------------------------------
(* Headers and blocks                                                      *)

\* AcceptBlockHeader returns true
AcceptBlockHeader(b) ==
    IF b \in index THEN b \notin failed
    ELSE Parent[b] \in index /\ Parent[b] \notin failed

AddToBlockIndex(b) ==
    /\ index' = index \cup {b}
    /\ bestHeader' = IF Work[bestHeader] < Work[b] THEN b ELSE bestHeader

\* A HEADERS message, one header of it.
ProcessHeader(b) ==
    /\ b \notin index /\ AcceptBlockHeader(b)
    /\ AddToBlockIndex(b)
    /\ UNCHANGED <<verdict, haveData, chainTx, seqId, failedValid, failedChild,
                   nBlockSequenceId, candidates, unlinked, tip, bestInvalid,
                   pc, mostWork, nInvalidate, nReconsider>>

\* Mutant: what waits for b is not processed in turn.
LinkedAlone(b) == {b}

\* The blocks ReceivedBlockTransactions links when b arrives: b and what
\* waits for it, directly or not, in mapBlocksUnlinked
Linked(b) == {d \in Blocks : b \in Anc[d] /\ Anc[d] \ Anc[b] \subseteq unlinked}

\* Identifiers are handed out breadth first; inside a level the order is the
\* insertion order of the multimap, which is left open here.
SequenceIds(S) ==
    {f \in [S -> nBlockSequenceId .. nBlockSequenceId + Cardinality(S) - 1] :
        \A x, y \in S : /\ x # y => f[x] # f[y]
                        /\ Height(x) < Height(y) => f[x] < f[y]}

\* mapBlocksUnlinked after the blocks L were linked
Unqueued(L) == unlinked \ L

\* mapBlocksUnlinked after b came before its parent was linked
Queued(b) == IF Parent[b] \in failed THEN unlinked ELSE unlinked \cup {b}

ReceivedBlockTransactions(b) ==
    /\ haveData' = haveData \cup {b}
    /\ IF Parent[b] \in chainTx
       THEN LET L == Linked(b) IN
            /\ chainTx' = chainTx \cup L
            /\ \E f \in SequenceIds(L) :
                  seqId' = [x \in Blocks |-> IF x \in L THEN f[x] ELSE seqId[x]]
            /\ nBlockSequenceId' = nBlockSequenceId + Cardinality(L)
            /\ candidates' = candidates \cup {x \in L : ~WorseBy(x, tip, seqId')}
            /\ unlinked' = Unqueued(L)
       ELSE /\ unlinked' = Queued(b)
            /\ UNCHANGED <<chainTx, seqId, nBlockSequenceId, candidates>>

\* AcceptBlock's reasons to return true without storing the block
NotWanted(b, fRequested) ==
    \/ b \in haveData
    \/ /\ ~fRequested
       /\ \/ ~(Work[b] > Work[tip])
          \/ Height(b) > Height(tip) + MinBlocksToKeep

Activate(t) == pc' = [pc EXCEPT ![t] = "activate"] /\ UNCHANGED mostWork

\* ProcessNewBlock up to its call of ActivateBestChain, which thread t makes
\* whenever AcceptBlock returned true.  Of a block whose header is refused
\* nothing is kept.
ProcessNewBlock(t, b, fRequested) ==
    /\ pc[t] = "idle" /\ b # Genesis
    /\ AcceptBlockHeader(b)
    /\ AddToBlockIndex(b)
    /\ \/ /\ NotWanted(b, fRequested)
          /\ Activate(t)
          /\ UNCHANGED <<haveData, chainTx, seqId, failedValid,
                         nBlockSequenceId, candidates, unlinked>>
       \/ /\ ~NotWanted(b, fRequested) /\ verdict[b] = "badblock"
          /\ failedValid' = failedValid \cup {b}
          /\ UNCHANGED <<haveData, chainTx, seqId, nBlockSequenceId,
                         candidates, unlinked, pc, mostWork>>
       \/ /\ ~NotWanted(b, fRequested) /\ verdict[b] # "badblock"
          /\ ReceivedBlockTransactions(b)
          /\ Activate(t)
          /\ UNCHANGED failedValid
    /\ UNCHANGED <<verdict, failedChild, tip, bestInvalid, nInvalidate, nReconsider>>

-----------------------------------------------------------------------------
(* FindMostWorkChain: candidates with a failed block between them and the  *)
(* active chain are dropped, best first, until one without is found.       *)
(* fMissingData cannot hold: nothing is pruned and candidates are linked.  *)

Usable == {c \in candidates : (Anc[c] \ Anc[tip]) \cap failed = {}}

FindMostWorkChain == IF Usable = {} THEN NULL ELSE BestOf(Usable)

Dropped == {c \in candidates \ Usable : Usable = {} \/ Worse(BestOf(Usable), c)}

\* The blocks from c down to, and without, the first failed one
AboveFailed(c) == {x \in Anc[c] : \A z \in Anc[c] : x \in Anc[z] => z \notin failed}

FirstFailed(c) == Highest((Anc[c] \ Anc[tip]) \cap failed)

\* What the walk leaves behind: the entries it marks BLOCK_FAILED_CHILD, the
\* candidates it keeps, and pindexBestInvalid
MarkedChild == UNION {AboveFailed(c) : c \in Dropped}
KeptCandidates ==
    candidates \ UNION {AboveFailed(c) \cup {FirstFailed(c)} : c \in Dropped}
MarkedInvalid ==
    IF Dropped = {} THEN bestInvalid ELSE InvalidChainFound(BestOf(Dropped), bestInvalid)

-----------------------------------------------------------------------------
(* One round of ActivateBestChain's loop, holding cs_main throughout.      *)

ToConnect(mw) == Anc[mw] \ Anc[tip]
Fork(mw)      == Highest(Anc[mw] \cap Anc[tip])

\* ActivateBestChainStep connects upwards from the fork.  It stops after a
\* block with more work than the old tip, or at one ConnectBlock refuses.
Bad(mw) == {x \in ToConnect(mw) : verdict[x] # "ok"}
\* Mutant: one block is connected per step, whatever its work.
ConnectedOne(mw) ==
    {x \in ToConnect(mw) : \A y \in Anc[x] \cap ToConnect(mw) : y \notin Bad(mw) /\ y = x}
Connected(mw) ==
    {x \in ToConnect(mw) :
        \A y \in Anc[x] \cap ToConnect(mw) :
            y \notin Bad(mw) /\ (y # x => ~(Work[y] > Work[tip]))}
Refused(mw) ==
    {f \in Bad(mw) : \A y \in (Anc[f] \cap ToConnect(mw)) \ {f} :
                        y \in Connected(mw) /\ ~(Work[y] > Work[tip])}
TipAfter(mw) == IF Connected(mw) = {} THEN Fork(mw) ELSE Highest(Connected(mw))

\* PruneBlockIndexCandidates runs after every block that was connected.
PruneBlockIndexCandidates(S, mw) ==
    IF Connected(mw) = {} THEN S ELSE {c \in S : ~Worse(c, TipAfter(mw))}

Return(t) ==
    /\ pc' = [pc EXCEPT ![t] = "idle"]
    /\ mostWork' = [mostWork EXCEPT ![t] = NULL]

\* pindexMostWork of this round, and what looking for it changed
MostWorkOf(t)  == IF mostWork[t] = NULL THEN FindMostWorkChain ELSE mostWork[t]
ChildOf(t)     == IF mostWork[t] = NULL THEN failedChild \cup MarkedChild ELSE failedChild
CandidatesOf(t) == IF mostWork[t] = NULL THEN KeptCandidates ELSE candidates
InvalidOf(t)   == IF mostWork[t] = NULL THEN MarkedInvalid ELSE bestInvalid

\* "Whether we have anything to do at all": no.
NothingToDo(t) ==
    /\ MostWorkOf(t) \in {NULL, tip}
    /\ candidates' = CandidatesOf(t)
    /\ bestInvalid' = InvalidOf(t)
    /\ Return(t)
    /\ UNCHANGED <<failedValid, tip>>

\* The step connected what it set out to; the loop ends at pindexMostWork.
StepConnects(t, mw) ==
    /\ Refused(mw) = {}
    /\ tip' = TipAfter(mw)
    /\ candidates' = PruneBlockIndexCandidates(CandidatesOf(t), mw)
    /\ bestInvalid' = InvalidOf(t)
    /\ IF TipAfter(mw) = mw THEN Return(t)
       ELSE mostWork' = [mostWork EXCEPT ![t] = mw] /\ UNCHANGED pc
    /\ UNCHANGED failedValid

\* Mutant: the loop ends when a block is found invalid.
InvalidEndsLoop(t, mw, f) ==
    /\ verdict[f] = "invalid"
    /\ tip' = TipAfter(mw)
    /\ failedValid' = failedValid \cup {f}
    /\ candidates' = PruneBlockIndexCandidates(CandidatesOf(t), mw) \ {f}
    /\ bestInvalid' = InvalidChainFound(f, InvalidOf(t))
    /\ Return(t)

\* Mutant: the invalid block is not marked and stays a candidate.
InvalidNotMarked(t, mw, f) ==
    /\ verdict[f] = "invalid"
    /\ tip' = TipAfter(mw)
    /\ candidates' = PruneBlockIndexCandidates(CandidatesOf(t), mw)
    /\ bestInvalid' = InvalidChainFound(f, InvalidOf(t))
    /\ mostWork' = [mostWork EXCEPT ![t] = NULL]
    /\ UNCHANGED <<pc, failedValid>>

\* ConnectTip found block f invalid: InvalidBlockFound(f), and the loop starts
\* over with pindexMostWork = NULL.  InvalidChainFound of the lowest block of
\* the batch, which follows, cannot move the marker past f.
StepFindsInvalid(t, mw, f) ==
    /\ verdict[f] = "invalid"
    /\ tip' = TipAfter(mw)
    /\ failedValid' = failedValid \cup {f}
    /\ candidates' = PruneBlockIndexCandidates(CandidatesOf(t), mw) \ {f}
    /\ bestInvalid' = InvalidChainFound(f, InvalidOf(t))
    /\ mostWork' = [mostWork EXCEPT ![t] = NULL]
    /\ UNCHANGED pc

\* ConnectBlock returned false without a verdict, which ActivateBestChainStep
\* takes for "A system error occurred": everything stays where it is.
StepFails(t, mw, f) ==
    /\ verdict[f] = "error"
    /\ tip' = TipAfter(mw)
    /\ candidates' = PruneBlockIndexCandidates(CandidatesOf(t), mw)
    /\ bestInvalid' = InvalidOf(t)
    /\ Return(t)
    /\ UNCHANGED failedValid

ActivateBestChain(t) ==
    /\ pc[t] = "activate"
    /\ failedChild' = ChildOf(t)
    /\ \/ NothingToDo(t)
       \/ LET mw == MostWorkOf(t) IN
          /\ mw \notin {NULL, tip}
          /\ \/ StepConnects(t, mw)
             \/ \E f \in Refused(mw) : StepFindsInvalid(t, mw, f) \/ StepFails(t, mw, f)
    /\ UNCHANGED <<verdict, index, haveData, chainTx, seqId, nBlockSequenceId,
                   unlinked, bestHeader, nInvalidate, nReconsider>>

-----------------------------------------------------------------------------
(* Operator commands.  Each holds cs_main for its own part and then calls  *)
(* ActivateBestChain.                                                      *)

\* Mutant: an active block is marked and not disconnected.
NothingDisconnected(b) == {}

\* The blocks DisconnectTip takes off the active chain, b the last of them
Disconnected(b) == IF b \in Anc[tip] THEN Anc[tip] \ Anc[Parent[b]] ELSE {}

\* Mutant: the candidates below the old tip are not brought back.
NoneBrought(newTip, bad) == {}

\* The blocks that are "now eligible" because the tip moved back
BroughtBack(newTip, bad) == {x \in chainTx \ bad : ~Worse(x, newTip)}

\* invalidateblock: InvalidateBlock(b)
InvalidateBlock(t, b) ==
    /\ pc[t] = "idle" /\ nInvalidate < MaxInvalidate
    /\ b \in index \ {Genesis}
    /\ tip' = IF Disconnected(b) = {} THEN tip ELSE Parent[b]
    /\ failedChild' = failedChild \cup Disconnected(b)
    /\ failedValid' = failedValid \cup {b}
    /\ candidates' = (candidates \ (Disconnected(b) \cup {b}))
                        \cup BroughtBack(tip', failedValid' \cup failedChild')
    /\ bestInvalid' = InvalidChainFound(b, bestInvalid)
    /\ nInvalidate' = nInvalidate + 1
    /\ Activate(t)
    /\ UNCHANGED <<verdict, index, haveData, chainTx, seqId, nBlockSequenceId,
                   unlinked, bestHeader, nReconsider>>

\* The descendants of b whose flags ResetBlockFailureFlags clears; those of
\* b's ancestors it clears too.
Reset(b) == {x \in index : b \in Anc[x] /\ ~IsValid(x)}

\* Mutant: the flags are cleared, the candidates are not restored.
NoneRestored(b) == {}

\* The candidates ResetBlockFailureFlags puts back
Restored(b) == {x \in Reset(b) \cap chainTx : Worse(tip, x)}

\* reconsiderblock: ResetBlockFailureFlags(b)
ReconsiderBlock(t, b) ==
    /\ pc[t] = "idle" /\ nReconsider < MaxReconsider
    /\ b \in index
    /\ failedValid' = failedValid \ (Reset(b) \cup Anc[b])
    /\ failedChild' = failedChild \ (Reset(b) \cup Anc[b])
    /\ candidates' = candidates \cup Restored(b)
    /\ bestInvalid' = IF bestInvalid \in Reset(b) THEN NULL ELSE bestInvalid
    /\ nReconsider' = nReconsider + 1
    /\ Activate(t)
    /\ UNCHANGED <<verdict, index, haveData, chainTx, seqId, nBlockSequenceId,
                   unlinked, tip, bestHeader, nInvalidate>>

-----------------------------------------------------------------------------
Next ==
    \/ \E b \in Blocks \ {Genesis} : ProcessHeader(b)
    \/ \E t \in Threads, b \in Blocks, r \in BOOLEAN : ProcessNewBlock(t, b, r)
    \/ \E t \in Threads : ActivateBestChain(t)
    \/ \E t \in Threads, b \in Blocks : InvalidateBlock(t, b)
    \/ \E t \in Threads, b \in Blocks : ReconsiderBlock(t, b)

Spec == Init /\ [][Next]_vars

\* A thread inside ActivateBestChain gets cs_main again.
FairSpec == Spec /\ \A t \in Threads : WF_vars(ActivateBestChain(t))

-----------------------------------------------------------------------------
(* Properties.  Those named after CheckBlockIndex are its assertions.      *)

Quiescent == \A t \in Threads : pc[t] = "idle"

\* reconsiderblock has not been used.  It clears the flags of a block's
\* ancestors and nothing else about them (see BestActive).
NeverReconsidered == nReconsider = 0

\* nChainTx is set only when every ancestor has arrived and, unless one of
\* them is invalid, as soon as it has, in whatever order they came; only
\* linked blocks have a sequence id, each its own.
LinkedExactly ==
    /\ \A b \in chainTx : Anc[b] \subseteq haveData
    /\ NeverReconsidered =>
          \A b \in index :
             Anc[b] \subseteq haveData /\ Anc[b] \cap failedValid = {} => b \in chainTx
    /\ \A b \in Blocks : b \notin chainTx => seqId[b] = 0
    /\ \A a, b \in chainTx : a # b => seqId[a] # seqId[b]

\* A block that waits for an ancestor, and has no invalid one, is in
\* mapBlocksUnlinked, else nothing would ever link it (CheckBlockIndex).
WaitingIsUnlinked ==
    NeverReconsidered =>
        \A b \in haveData \ chainTx : Anc[b] \cap failedValid = {} => b \in unlinked

\* "The failed mask cannot be set for blocks without invalid parents"
\* (CheckBlockIndex): FindMostWorkChain and InvalidateBlock never mark a block
\* that does not descend from an invalid one.
FailureHasCause ==
    NeverReconsidered => \A b \in failed : Anc[b] \cap failedValid # {}

\* The block index as CheckBlockIndex wants it, after every critical section of
\* every thread: what has arrived is linked or waits, in whatever order it came,
\* and no block is marked failed without a cause.
BlockIndexConsistent == TypeOK /\ LinkedExactly /\ WaitingIsUnlinked /\ FailureHasCause

\* When no thread is inside ActivateBestChain, setBlockIndexCandidates holds
\* every linked block without an invalid ancestor that sorts at least as good
\* as the tip, the tip too, and nothing worse (CheckBlockIndex).  At no time is it
\* empty: "Either the current tip or a successor of it we're working towards is
\* left in setBlockIndexCandidates" (the assertion of PruneBlockIndexCandidates).
CandidatesExact ==
    /\ Quiescent =>
          /\ NeverReconsidered =>
                \A b \in chainTx :
                   ~Worse(b, tip) /\ Anc[b] \cap failedValid = {} => b \in candidates
          /\ \A b \in candidates : ~Worse(b, tip)
    /\ NeverReconsidered => candidates # {}

\* The tip is always one of the candidates once activation is over, so that
\* a later failed reorganisation can return to it (CheckBlockIndex).
TipIsCandidate == Quiescent => tip \in candidates

\* No block of the active chain is marked failed.
ActiveChainValid == Anc[tip] \cap failed = {}

\* "The result is either failure or an activated best chain": when no thread
\* is activating, no linked chain free of failed blocks beats the active one.
BestActive ==
    Quiescent => \A b \in chainTx : Anc[b] \cap failed = {} => ~Worse(tip, b)

\* The same as long as failures are only ever added.
BestChainActive == NeverReconsidered => BestActive

\* The active chain gives up work only in a step that marks a block invalid
\* (a refused block or invalidateblock), never by choosing a lesser chain.
NoWorkLost == [][Work[tip'] < Work[tip] => failedValid' # failedValid]_vars

\* reconsiderblock "Removes invalidity status of a block and its descendants,
\* reconsider them for activation": the linked descendants that beat the tip
\* and are now free of failed ancestors are candidates again.  This is about the
\* first use: one that clears the flags of a block's linked ancestors makes none
\* of them a candidate, and a later one skips them because they look valid.
ReconsiderRestores ==
    [][\A t \in Threads, b \in Blocks :
          NeverReconsidered /\ ReconsiderBlock(t, b) =>
              \A x \in chainTx :
                  b \in Anc[x] /\ b \in failed /\ Anc[x] \cap (failed)' = {} /\ Worse(tip, x)
                      => x \in candidates']_vars

\* A call of ActivateBestChain ends, whatever other threads do meanwhile and
\* however many candidates turn out invalid.
ActivationEnds == \A t \in Threads : pc[t] = "activate" ~> pc[t] = "idle"

-----------------------------------------------------------------------------
(* The inductive invariant of ChainStateProofs.                            *)

LinkedClosed == Genesis \in chainTx /\ \A b \in chainTx : Anc[b] \subseteq chainTx

TargetsLinked == \A t \in Threads : mostWork[t] \in chainTx \cup {NULL}

SequenceIdsDistinct ==
    /\ \A b \in Blocks : b \notin chainTx => seqId[b] = 0
    /\ \A b \in chainTx : seqId[b] < nBlockSequenceId
    /\ \A a, b \in chainTx : a # b => seqId[a] # seqId[b]

\* A block waits in mapBlocksUnlinked only for a parent that is not linked.
WaitsForParent == \A b \in unlinked : Parent[b] \notin chainTx

IInv ==
    /\ TypeOK
    /\ LinkedClosed
    /\ TargetsLinked
    /\ SequenceIdsDistinct
    /\ WaitsForParent
    /\ FailureHasCause
    /\ WaitingIsUnlinked

\* With one thread, what ActivateBestChain is working towards is free of
\* failed blocks and extends the active chain.
TargetValid ==
    \A t \in Threads :
        mostWork[t] # NULL =>
            /\ pc[t] = "activate"
            /\ tip \in Anc[mostWork[t]]
            /\ Anc[mostWork[t]] \cap failed = {}

\* Nothing that is as good as c is missing from setBlockIndexCandidates.
Covered(c) == \A x \in chainTx \ failed : ~Worse(x, c) => x \in candidates

\* No linked chain free of failed blocks beats the one that ends at c.
Unbeaten(c) == \A x \in chainTx : Anc[x] \cap failed = {} => ~Worse(c, x)

\* ConnectBlock accepts the whole chain of c, and no block of it is failed.
Connectable(c) == \A y \in Anc[c] : verdict[y] = "ok" /\ y \notin failed

\* PruneBlockIndexCandidates leaves nothing behind that is worse than the tip,
\* and every block of the active chain has passed ConnectBlock.
CandidatesNotWorse == \A c \in candidates : ~Worse(c, tip)
ActiveChainConnected == \A y \in Anc[tip] : verdict[y] = "ok"

\* While the tip has retreated from a chain that turned out invalid, candidates
\* are complete only from the tip it retreated from upwards, and that block is
\* the floor that activation cannot fall below.
FloorKept == \E c \in candidates : Connectable(c) /\ Covered(c)

SelectionInv ==
    NeverReconsidered =>
        /\ FloorKept
        /\ Quiescent => Covered(tip) /\ Unbeaten(tip)
        /\ \A t \in Threads :
              mostWork[t] # NULL => Covered(mostWork[t]) /\ Unbeaten(mostWork[t])

=============================================================================
