----------------------------- MODULE BlockStore -----------------------------
(***************************************************************************)
(* What the node keeps on disk and how it survives being killed: the block *)
(* and undo files (blk*.dat, rev*.dat), the block index database, the coin *)
(* database, pruning, FlushStateToDisk, and the start-up that reads them   *)
(* back (LoadBlockIndexDB, RewindBlockIndex, VerifyDB); main.cpp.          *)
(*                                                                         *)
(* A block file is an array of slots, one block or one block's undo data   *)
(* each; a slot is written over when the size kept in vinfoBlockFile was   *)
(* lost.  The coins are those after a block, so a coin view is the block it *)
(* is at: coinsTip is pcoinsTip, coinsDB what the database holds.  All     *)
(* steps run under cs_main; what a kill can come between is a step.        *)
(***************************************************************************)
EXTENDS Integers, FiniteSets, FiniteSetsExt, Sequences, SequencesExt

CONSTANTS
    Blocks, Genesis, NoBlock,
    Parent,             \* [Blocks -> Blocks \cup {NoBlock}]
    WitnessBlocks,      \* blocks after the activation of segregated witness
    OldChain,           \* blocks connected by an old client, which knew no witness
    NoPos,
    MaxFile,            \* bound: number of the last block file
    FileSlots,          \* MAX_BLOCKFILE_SIZE, in blocks
    MinBlocksToKeep,    \* MIN_BLOCKS_TO_KEEP
    PruneAfterHeight,
    CheckBlocks,        \* -checkblocks
    KillWindows,        \* see Kill
    MaxKills            \* bound: how often the node is killed

Files == 0..MaxFile
Slots == 1..FileSlots
Places == Files \X Slots

ASSUME StoreAssumption ==
    /\ Genesis \in Blocks
    /\ NoBlock \notin Blocks
    /\ Parent \in [Blocks -> Blocks \cup {NoBlock}]
    /\ Parent[Genesis] = NoBlock
    /\ MaxFile \in Nat
    /\ FileSlots \in Nat \ {0}
    /\ NoPos \notin Places
    /\ WitnessBlocks \subseteq Blocks \ {Genesis}

VARIABLES
    \* Memory, lost when the process ends.
    mapBlockIndex,      \* what is known of a block, see Entries
    vinfoBlockFile,     \* CBlockFileInfo of each file
    nLastBlockFile,
    setDirtyBlockIndex,
    setDirtyFileInfo,
    tip,                \* chainActive.Tip()
    coinsTip,           \* best block of pcoinsTip
    pc,                 \* where the thread that holds cs_main is
    home,               \* where it goes after UpdateTip: "rewind" (start-up) or "idle"
    flush,              \* FlushStateToDisk under way, see FlushStateToDisk
    \* Disk.
    blk, rev,           \* [Places -> block whose data, undo data is there]
    unsynced,           \* places of blk and rev that were written and not committed
    blockTree,          \* block index database: [index, files, last]
    coinsDB,            \* best block of the coin database
    kills

memory == <<mapBlockIndex, vinfoBlockFile, nLastBlockFile, setDirtyBlockIndex,
            setDirtyFileInfo, tip, coinsTip>>
control == <<pc, home, flush>>
files == <<blk, rev, unsynced>>
vars == <<memory, control, files, blockTree, coinsDB, kills>>

-----------------------------------------------------------------------------
(* The block tree and index entries.                                       *)

\* A block of height h has h proper ancestors.
AncestorsOrSelf[b \in Blocks] ==
    {b} \cup IF Parent[b] = NoBlock THEN {} ELSE AncestorsOrSelf[Parent[b]]
Height(b) == Cardinality(AncestorsOrSelf[b]) - 1

\* Parents form a tree with Genesis as its root; the equation of the recursive
\* definition holds for that reason.
ASSUME AncestryAssumption ==
    /\ IsFiniteSet(Blocks)
    /\ \A b \in Blocks \ {Genesis} : Parent[b] \in Blocks /\ b \notin AncestorsOrSelf[Parent[b]]
    /\ AncestorsOrSelf \in [Blocks -> SUBSET Blocks]
    /\ AncestorsOrSelf[Genesis] = {Genesis}
    /\ \A b \in Blocks \ {Genesis} : AncestorsOrSelf[b] = {b} \cup AncestorsOrSelf[Parent[b]]
    /\ \A b \in Blocks : \A a \in AncestorsOrSelf[b] : AncestorsOrSelf[a] \subseteq AncestorsOrSelf[b]
    /\ \A b \in Blocks : \A x, y \in AncestorsOrSelf[b] :
          x \in AncestorsOrSelf[y] \/ y \in AncestorsOrSelf[x]

\* The old client's blocks are a chain on top of Genesis that fits in one file.
ASSUME OldChainAssumption ==
    /\ OldChain \in Seq(Blocks \ {Genesis})
    /\ Len(OldChain) < FileSlots
    /\ \A i \in DOMAIN OldChain : Parent[OldChain[i]] = IF i = 1 THEN Genesis ELSE OldChain[i - 1]
    /\ \A i, j \in DOMAIN OldChain : OldChain[i] = OldChain[j] => i = j

ASSUME BoundAssumption ==
    /\ MinBlocksToKeep \in Nat \ {0} /\ PruneAfterHeight \in Nat /\ CheckBlocks \in Nat
    /\ MaxKills \in Nat

\* nTx: transactions were received once; pos, undo: BLOCK_HAVE_DATA, BLOCK_HAVE_UNDO
\* and where; witness: BLOCK_OPT_WITNESS.
UnknownEntry == [known |-> FALSE, nTx |-> FALSE, pos |-> NoPos, undo |-> NoPos, witness |-> FALSE]
HeaderEntry == [UnknownEntry EXCEPT !.known = TRUE]

EmptyFile == [nSize |-> 0, nUndoSize |-> 0, nHeightLast |-> 0]

HaveChainTx(index, b) == \A a \in AncestorsOrSelf[b] : index[a].nTx
InActiveChain(b) == tip # NoBlock /\ b \in AncestorsOrSelf[tip]

ReadBlockFromDisk(index, b) == index[b].pos # NoPos /\ blk[index[b].pos] = b
UndoReadFromDisk(index, b) == index[b].undo # NoPos /\ rev[index[b].undo] = b

\* FindMostWorkChain: no candidate is better, and no data is missing on the way.
MissingData(b) == \E a \in AncestorsOrSelf[b] : ~InActiveChain(a) /\ mapBlockIndex[a].pos = NoPos
Candidates == {b \in Blocks : HaveChainTx(mapBlockIndex, b) /\ ~MissingData(b)}
MostWork == {b \in Candidates : \A c \in Candidates : Height(c) <= Height(b)}

-----------------------------------------------------------------------------
(* Receiving blocks.                                                       *)

\* FlushBlockFile: what was written to one pair of files is committed.
Committed(f, places) == {p \in places : p[2][1] # f}

LeaveBlockFile(f, places) == IF f = nLastBlockFile THEN places ELSE Committed(nLastBlockFile, places)

\* FindBlockPos: the last file, or the next one when that is full.
FindBlockPos == IF vinfoBlockFile[nLastBlockFile].nSize < FileSlots
                THEN nLastBlockFile ELSE nLastBlockFile + 1

\* A block without data, on top of a known one, that was asked for, comes from a
\* whitelisted peer (fForceProcessing), or is new: its data is written and its entry,
\* made if need be (AcceptBlockHeader), points there (ReceivedBlockTransactions).  That
\* may be a block of the active chain that was pruned, which gets no undo data again.
AcceptBlock(b) ==
    LET f == FindBlockPos
        pos == <<f, vinfoBlockFile[f].nSize + 1>>
    IN  /\ pc = "idle"
        /\ mapBlockIndex[Parent[b]].known
        /\ mapBlockIndex[b].pos = NoPos
        /\ f \in Files
        /\ blk' = [blk EXCEPT ![pos] = b]
        /\ unsynced' = LeaveBlockFile(f, unsynced) \cup {<<"blk", pos>>}
        /\ nLastBlockFile' = f
        /\ vinfoBlockFile' = [vinfoBlockFile EXCEPT
              ![f].nSize = @ + 1, ![f].nHeightLast = Max({@, Height(b)})]
        /\ mapBlockIndex' = [mapBlockIndex EXCEPT
              ![b] = [mapBlockIndex[b] EXCEPT !.known = TRUE, !.nTx = TRUE, !.pos = pos,
                                              !.witness = @ \/ b \in WitnessBlocks]]
        /\ setDirtyBlockIndex' = setDirtyBlockIndex \cup {b}
        /\ setDirtyFileInfo' = setDirtyFileInfo \cup {f}
        /\ UNCHANGED <<tip, coinsTip, control, rev, blockTree, coinsDB, kills>>

-----------------------------------------------------------------------------
(* Connecting and disconnecting.  pcoinsTip moves first, then the state    *)
(* may be flushed, then chainActive follows (UpdateTip).                   *)

\* Mutant: the undo data of every block goes to the start of the file.
FindUndoPosStart(f) == <<f, 1>>

\* Where the undo file that belongs to the block's file ends.
FindUndoPos(f) == <<f, vinfoBlockFile[f].nUndoSize + 1>>

\* ConnectBlock writes the undo data of the block unless it is there.
WriteUndo(b) ==
    LET f == mapBlockIndex[b].pos[1]
        pos == FindUndoPos(f)
    IN  IF mapBlockIndex[b].undo = NoPos
        THEN /\ rev' = [rev EXCEPT ![pos] = b]
             /\ unsynced' = unsynced \cup {<<"rev", pos>>}
             /\ vinfoBlockFile' = [vinfoBlockFile EXCEPT ![f].nUndoSize = @ + 1]
             /\ setDirtyFileInfo' = setDirtyFileInfo \cup {f}
             /\ mapBlockIndex' = [mapBlockIndex EXCEPT ![b].undo = pos]
             /\ setDirtyBlockIndex' = setDirtyBlockIndex \cup {b}
        ELSE UNCHANGED <<rev, unsynced, vinfoBlockFile, setDirtyFileInfo,
                         mapBlockIndex, setDirtyBlockIndex>>

\* A block that cannot be read is AbortNode.
ConnectTip(b) ==
    /\ pc = "idle"
    /\ Parent[b] = tip
    /\ \E target \in MostWork : b \in AncestorsOrSelf[target]
    /\ IF ReadBlockFromDisk(mapBlockIndex, b)
       THEN coinsTip' = b /\ WriteUndo(b) /\ pc' = "updateTip"
       ELSE /\ pc' = "abort"
            /\ UNCHANGED <<coinsTip, rev, unsynced, vinfoBlockFile, setDirtyFileInfo,
                           mapBlockIndex, setDirtyBlockIndex>>
    /\ UNCHANGED <<nLastBlockFile, tip, home, flush, blk, blockTree, coinsDB, kills>>

\* The same here; undo data that cannot be read makes this and every later
\* reorganisation fail, which counts as AbortNode.
DisconnectBlock(b) ==
    LET ok == ReadBlockFromDisk(mapBlockIndex, b) /\ UndoReadFromDisk(mapBlockIndex, b)
    IN  /\ coinsTip' = IF ok THEN Parent[b] ELSE coinsTip
        /\ pc' = IF ok THEN "updateTip" ELSE "abort"
        /\ UNCHANGED <<mapBlockIndex, vinfoBlockFile, nLastBlockFile, setDirtyBlockIndex,
                       setDirtyFileInfo, tip, home, flush, files, blockTree, coinsDB, kills>>

DisconnectTip ==
    /\ pc = "idle"
    /\ \E target \in MostWork : tip \notin AncestorsOrSelf[target]
    /\ DisconnectBlock(tip)

\* Mutant: chainActive stays behind.
UpdateTipStale ==
    /\ pc \in {"updateTip", "flushed"}
    /\ pc' = home
    /\ UNCHANGED <<memory, home, flush, files, blockTree, coinsDB, kills>>

UpdateTip ==
    /\ pc \in {"updateTip", "flushed"}
    /\ tip' = coinsTip
    /\ pc' = home
    /\ UNCHANGED <<mapBlockIndex, vinfoBlockFile, nLastBlockFile, setDirtyBlockIndex,
                   setDirtyFileInfo, coinsTip, home, flush, files, blockTree, coinsDB, kills>>

-----------------------------------------------------------------------------
(* FlushStateToDisk.                                                       *)

NoFlush == [full |-> FALSE, prune |-> {}, then |-> "idle"]

\* FindFilesToPrune: files before the last one, in order, as many as the target asks.
Prunable ==
    {f \in Files : /\ f < nLastBlockFile
                   /\ vinfoBlockFile[f].nSize > 0
                   /\ vinfoBlockFile[f].nHeightLast <= Height(tip) - MinBlocksToKeep}

FilesToPrune ==
    IF Height(tip) <= PruneAfterHeight THEN {{}}
    ELSE {{f \in Prunable : f < limit} : limit \in 0..nLastBlockFile}

PruneOneBlockFile(index, S) ==
    [b \in Blocks |-> IF index[b].pos # NoPos /\ index[b].pos[1] \in S
                      THEN [index[b] EXCEPT !.pos = NoPos, !.undo = NoPos] ELSE index[b]]

\* Mutant: a full flush goes straight to the coins.
FlushStartCoins(index, dirty, full, prune, then) ==
    /\ mapBlockIndex' = PruneOneBlockFile(index, prune)
    /\ vinfoBlockFile' = [f \in Files |-> IF f \in prune THEN EmptyFile ELSE vinfoBlockFile[f]]
    /\ setDirtyBlockIndex' = dirty
    /\ setDirtyFileInfo' = setDirtyFileInfo \cup prune
    /\ unsynced' = Committed(nLastBlockFile, unsynced)
    /\ flush' = [full |-> full, prune |-> prune, then |-> then]
    /\ pc' = IF full THEN "flushCoins" ELSE "writeIndex"
    /\ UNCHANGED <<nLastBlockFile, tip, coinsTip, home, blk, rev, blockTree, coinsDB, kills>>

\* The first part: files to prune are chosen, the last pair of files is committed.
FlushStart(index, dirty, full, prune, then) ==
    /\ mapBlockIndex' = PruneOneBlockFile(index, prune)
    /\ vinfoBlockFile' = [f \in Files |-> IF f \in prune THEN EmptyFile ELSE vinfoBlockFile[f]]
    /\ setDirtyBlockIndex' = dirty \cup {b \in Blocks : PruneOneBlockFile(index, prune)[b] # index[b]}
    /\ setDirtyFileInfo' = setDirtyFileInfo \cup prune
    /\ unsynced' = Committed(nLastBlockFile, unsynced)
    /\ flush' = [full |-> full, prune |-> prune, then |-> then]
    /\ pc' = "writeIndex"
    /\ UNCHANGED <<nLastBlockFile, tip, coinsTip, home, blk, rev, blockTree, coinsDB, kills>>

\* While the node runs: from time to time, when the cache is full, or to prune.  The
\* periodic flush of RewindBlockIndex is the one before UpdateTip here.
FlushStateToDisk(full, prune) ==
    /\ pc \in {"idle", "updateTip"}
    /\ prune \in IF home = "idle" THEN FilesToPrune ELSE {{}}
    /\ prune # {} => full
    /\ FlushStart(mapBlockIndex, setDirtyBlockIndex, full, prune,
                  IF pc = "idle" THEN "idle" ELSE "flushed")

\* What follows the write of the index.
AfterIndex ==
    /\ pc' = IF flush.full THEN "flushCoins" ELSE flush.then
    /\ flush' = IF flush.full THEN flush ELSE NoFlush

WriteBatchSync ==
    /\ pc = "writeIndex"
    /\ blockTree' =
          [index |-> [b \in Blocks |-> IF b \in setDirtyBlockIndex THEN mapBlockIndex[b]
                                       ELSE blockTree.index[b]],
           files |-> [f \in Files |-> IF f \in setDirtyFileInfo THEN vinfoBlockFile[f]
                                      ELSE blockTree.files[f]],
           last |-> nLastBlockFile]
    /\ setDirtyBlockIndex' = {}
    /\ setDirtyFileInfo' = {}
    /\ IF flush.prune # {} THEN pc' = "unlink" /\ UNCHANGED flush ELSE AfterIndex
    /\ UNCHANGED <<mapBlockIndex, vinfoBlockFile, nLastBlockFile, tip, coinsTip, home,
                   files, coinsDB, kills>>

UnlinkPrunedFiles ==
    /\ pc = "unlink"
    /\ blk' = [p \in Places |-> IF p[1] \in flush.prune THEN NoBlock ELSE blk[p]]
    /\ rev' = [p \in Places |-> IF p[1] \in flush.prune THEN NoBlock ELSE rev[p]]
    /\ unsynced' = {u \in unsynced : u[2][1] \notin flush.prune}
    /\ AfterIndex
    /\ UNCHANGED <<memory, home, blockTree, coinsDB, kills>>

FlushCoins ==
    /\ pc = "flushCoins"
    /\ coinsDB' = coinsTip
    /\ pc' = flush.then
    /\ flush' = NoFlush
    /\ UNCHANGED <<memory, home, files, blockTree, kills>>

FlushStep == WriteBatchSync \/ UnlinkPrunedFiles \/ FlushCoins

-----------------------------------------------------------------------------
(* The end of a process and the start of the next.                         *)

Forget ==
    /\ mapBlockIndex' = [b \in Blocks |-> UnknownEntry]
    /\ vinfoBlockFile' = [f \in Files |-> EmptyFile]
    /\ nLastBlockFile' = 0
    /\ setDirtyBlockIndex' = {}
    /\ setDirtyFileInfo' = {}
    /\ tip' = NoBlock
    /\ coinsTip' = NoBlock
    /\ home' = "rewind"
    /\ flush' = NoFlush
    /\ pc' = "down"

\* Shutdown flushes everything first, after AbortNode too.
Shutdown ==
    /\ pc \in {"idle", "abort"}
    /\ FlushStart(mapBlockIndex, setDirtyBlockIndex, TRUE, {}, "exit")

\* So ends a start that was refused; the next one finds the same on disk.
Exit ==
    /\ pc \in {"exit", "refused"}
    /\ Forget
    /\ UNCHANGED <<files, blockTree, coinsDB, kills>>

\* In two windows a kill does harm, both after the index was written and before the
\* coins are: when files are pruned (the old best block of the coins may be among
\* what is deleted), and when RewindBlockIndex has reduced entries.
Window ==
    CASE pc \in {"unlink", "flushCoins"} /\ flush.prune # {} -> {"prune"}
      [] pc = "flushCoins" /\ flush.then = "verify" -> {"rewind"}
      [] OTHER -> {}

Kill ==
    /\ pc \notin {"down", "refused"}
    /\ kills < MaxKills
    /\ Window \subseteq KillWindows
    /\ kills' = kills + 1
    /\ Forget
    /\ UNCHANGED <<files, blockTree, coinsDB>>

\* LoadBlockIndexDB and the assertion of PruneBlockIndexCandidates.
LoadBlockIndexDB ==
    LET index == blockTree.index
        filesThere == \A b \in Blocks : index[b].pos # NoPos =>
                          \E p \in Places : p[1] = index[b].pos[1] /\ blk[p] # NoBlock
        candidate(b) == index[b].known /\ HaveChainTx(index, b)
        ok == /\ filesThere
              /\ index[coinsDB].known
              /\ \/ candidate(coinsDB)
                 \/ \E b \in Blocks : candidate(b) /\ Height(b) > Height(coinsDB)
    IN  /\ pc = "down"
        /\ mapBlockIndex' = index
        /\ vinfoBlockFile' = blockTree.files
        /\ nLastBlockFile' = blockTree.last
        /\ tip' = coinsDB
        /\ coinsTip' = coinsDB
        /\ pc' = IF ok THEN "rewind" ELSE "refused"
        /\ UNCHANGED <<setDirtyBlockIndex, setDirtyFileInfo, home, flush, files, blockTree,
                       coinsDB, kills>>

\* RewindBlockIndex: blocks stored without their witness are disconnected ...
Unwitnessed(b) == b \in WitnessBlocks /\ ~mapBlockIndex[b].witness
RewindNeeded == \E b \in AncestorsOrSelf[tip] : Unwitnessed(b)
CanRewind == RewindNeeded /\ mapBlockIndex[tip].pos # NoPos

RewindDisconnect ==
    /\ pc = "rewind"
    /\ CanRewind
    /\ DisconnectBlock(tip)

\* ... and then, off the active chain, forgotten.
ReducedIndex ==
    [b \in Blocks |-> IF mapBlockIndex[b].known /\ Unwitnessed(b) /\ ~InActiveChain(b)
                      THEN HeaderEntry ELSE mapBlockIndex[b]]

RewindBlockIndex ==
    /\ pc = "rewind"
    /\ ~CanRewind
    /\ FlushStart(ReducedIndex,
                  setDirtyBlockIndex \cup {b \in Blocks : ReducedIndex[b] # mapBlockIndex[b]},
                  TRUE, {}, "verify")

\* Blocks VerifyDB looks at: down to -checkblocks, or to the first without data.
Verified ==
    {b \in AncestorsOrSelf[tip] \ {Genesis} :
        /\ Height(b) >= Height(tip) - CheckBlocks
        /\ \A c \in AncestorsOrSelf[tip] : b \in AncestorsOrSelf[c] => mapBlockIndex[c].pos # NoPos}

VerifyDB ==
    LET ok == \A b \in Verified : /\ ReadBlockFromDisk(mapBlockIndex, b)
                                  /\ UndoReadFromDisk(mapBlockIndex, b)
    IN  /\ pc = "verify"
        /\ pc' = IF ok THEN "idle" ELSE "refused"
        /\ home' = "idle"
        /\ UNCHANGED <<memory, flush, files, blockTree, coinsDB, kills>>

StartStep == LoadBlockIndexDB \/ RewindDisconnect \/ RewindBlockIndex \/ VerifyDB \/ UpdateTip

-----------------------------------------------------------------------------

\* The database of an old client: Genesis and OldChain in a first file.
Stored == <<Genesis>> \o OldChain
OldEntry(b) ==
    LET i == CHOOSE i \in DOMAIN Stored : Stored[i] = b
    IN  [known |-> TRUE, nTx |-> TRUE, pos |-> <<0, i>>,
         undo |-> IF b = Genesis THEN NoPos ELSE <<0, i - 1>>, witness |-> FALSE]

Init ==
    /\ mapBlockIndex = [b \in Blocks |-> UnknownEntry]
    /\ vinfoBlockFile = [f \in Files |-> EmptyFile]
    /\ nLastBlockFile = 0
    /\ setDirtyBlockIndex = {}
    /\ setDirtyFileInfo = {}
    /\ tip = NoBlock
    /\ coinsTip = NoBlock
    /\ pc = "down"
    /\ home = "rewind"
    /\ flush = NoFlush
    /\ blk = [p \in Places |-> IF p[1] = 0 /\ p[2] \in DOMAIN Stored THEN Stored[p[2]] ELSE NoBlock]
    /\ rev = [p \in Places |-> IF p[1] = 0 /\ p[2] \in DOMAIN OldChain THEN OldChain[p[2]] ELSE NoBlock]
    /\ unsynced = {}
    /\ blockTree =
          [index |-> [b \in Blocks |-> IF b \in ToSet(Stored) THEN OldEntry(b) ELSE UnknownEntry],
           files |-> [f \in Files |-> IF f > 0 THEN EmptyFile ELSE
                         [nSize |-> Len(Stored), nUndoSize |-> Len(OldChain),
                          nHeightLast |-> Max({Height(b) : b \in ToSet(Stored)})]],
           last |-> 0]
    /\ coinsDB = Last(Stored)
    /\ kills = 0

Next ==
    \/ \E b \in Blocks \ {Genesis} : AcceptBlock(b) \/ ConnectTip(b)
    \/ DisconnectTip
    \/ \E full \in BOOLEAN, prune \in SUBSET Files : FlushStateToDisk(full, prune)
    \/ FlushStep
    \/ StartStep
    \/ Shutdown
    \/ Exit
    \/ Kill

Spec == Init /\ [][Next]_vars

\* The start-up runs to its end, and so does a flush.
FairSpec == Spec /\ WF_vars(FlushStep \/ StartStep \/ Exit)

-----------------------------------------------------------------------------
(* Properties.                                                             *)

Entries ==
    [known : BOOLEAN, nTx : BOOLEAN, pos : Places \cup {NoPos}, undo : Places \cup {NoPos},
     witness : BOOLEAN]
FileInfos == [nSize : 0..FileSlots, nUndoSize : 0..FileSlots, nHeightLast : Nat]

\* State in memory and on disk has its type; no file outgrows its size.
TypeOK ==
    /\ mapBlockIndex \in [Blocks -> Entries]
    /\ vinfoBlockFile \in [Files -> FileInfos]
    /\ nLastBlockFile \in Files
    /\ setDirtyBlockIndex \subseteq Blocks
    /\ setDirtyFileInfo \subseteq Files
    /\ tip \in Blocks \cup {NoBlock}
    /\ coinsTip \in Blocks \cup {NoBlock}
    /\ pc \in {"down", "rewind", "verify", "idle", "updateTip", "flushed", "writeIndex",
               "unlink", "flushCoins", "abort", "exit", "refused"}
    /\ home \in {"rewind", "idle"}
    /\ flush \in [full : BOOLEAN, prune : SUBSET Files,
                  then : {"idle", "flushed", "verify", "exit"}]
    /\ blk \in [Places -> Blocks \cup {NoBlock}]
    /\ rev \in [Places -> Blocks \cup {NoBlock}]
    /\ unsynced \subseteq {"blk", "rev"} \X Places
    /\ blockTree \in [index : [Blocks -> Entries], files : [Files -> FileInfos], last : Files]
    /\ coinsDB \in Blocks
    /\ kills \in 0..MaxKills

\* Every block of a chain was received.
Received(index, c) == \A b \in AncestorsOrSelf[c] : index[b].nTx

\* A block that cannot be disconnected.
Lost(index, b) == b # Genesis /\ index[b].undo = NoPos

\* A node whose active chain ends in c has what it takes to make t its tip.
Reaches(index, c, t) ==
    /\ HaveChainTx(index, t)
    /\ \A a \in AncestorsOrSelf[t] \ AncestorsOrSelf[c] : index[a].pos # NoPos

\* t is a chain that such a node has on top of b, as long as what pruning keeps.
Buries(index, c, t, b) ==
    /\ Reaches(index, c, t)
    /\ b \in AncestorsOrSelf[t]
    /\ Height(t) >= Height(b) + MinBlocksToKeep

\* A block of the active chain loses its undo data only when it is buried, and stays
\* buried even when the chain that buried it is left, and pruned in its turn.
LostBuried(index, c) ==
    \A b \in AncestorsOrSelf[c] : Lost(index, b) => \E t \in Blocks : Buries(index, c, t, b)

\* A reorganisation never stops the node for want of a block or its undo data, neither
\* after pruning nor after a restart.
NeverAborts == pc # "abort"

Points(index) ==
    \A b \in Blocks :
        /\ index[b].pos # NoPos => blk[index[b].pos] = b
        /\ index[b].undo # NoPos => rev[index[b].undo] = b

\* What the index database says of places is true at every moment, so that a kill
\* leaves no entry that points at another block's data, however often the files
\* were written over since; and the same of the index in memory.
IndexPointsAtData == Points(blockTree.index) /\ Points(mapBlockIndex)

\* "Flush the chainstate (which may refer to block index entries)": the best block of the
\* coin database can always be loaded with the index database as it is
\* (RewindBlockIndex breaks it for a moment, see Window).
CoinsCovered == "rewind" \notin Window => Received(blockTree.index, coinsDB)

\* A block of the coins on disk that cannot be undone, because it was pruned, and
\* perhaps stored again, is buried under as many blocks as pruning keeps, and a chain
\* that buries it can be made the active one with the blocks on disk.
CoinsUndoable == Window = {} => LostBuried(blockTree.index, coinsDB)

\* Block data that the index database refers to was committed to disk first.
DataCommitted ==
    \A b \in Blocks : blockTree.index[b].pos # NoPos => <<"blk", blockTree.index[b].pos>> \notin unsynced

\* What is on disk is consistent between any two writes, so that the process may end
\* there: the index tells the truth about committed data, covers the coins, and lets
\* them be undone as far as a reorganisation may go.
StoreConsistent == TypeOK /\ IndexPointsAtData /\ CoinsCovered /\ CoinsUndoable /\ DataCommitted

\* A block of the coins was stored again after it was pruned.
StoredAgain == \E b \in AncestorsOrSelf[coinsDB] :
                  Lost(blockTree.index, b) /\ blockTree.index[b].pos # NoPos

\* A node that was killed at any other moment than in the windows, or stopped, comes up
\* when it is started: the best block of the coins is in the index, no block file is
\* missing, the set of candidates is not empty, VerifyDB reads the blocks and the undo
\* data it wants (else pc = "refused"), and the rewind ends.  Not so when a pruned block
\* was stored again: "If pruning, only go back as far as we have data", says VerifyDB,
\* and wants the undo data of that block.
ComesUp == pc = "down" /\ ~StoredAgain ~> pc = "idle"

-----------------------------------------------------------------------------
(* The inductive invariant of BlockStoreProofs.                            *)

\* What an index says of places lies inside the sizes kept for the files, and a
\* block's undo data is in the undo file that belongs to its block file.
Sized(index, infos) ==
    \A b \in Blocks :
        /\ index[b].pos # NoPos => index[b].pos[2] <= infos[index[b].pos[1]].nSize
        /\ index[b].undo # NoPos =>
              /\ index[b].pos # NoPos /\ index[b].undo[1] = index[b].pos[1]
              /\ index[b].undo[2] <= infos[index[b].undo[1]].nUndoSize

\* Every undo record has used up a block of its file, so that there is room for
\* the undo data of each of those without.
WithoutUndo(index, f) ==
    {b \in Blocks : index[b].pos # NoPos /\ index[b].pos[1] = f /\ index[b].undo = NoPos}
UndoFits(index, infos) ==
    \A f \in Files : infos[f].nUndoSize + Cardinality(WithoutUndo(index, f)) <= infos[f].nSize

UnusedEmpty(infos, last) == \A f \in Files : f > last => infos[f] = EmptyFile

\* An index and the file sizes that belong to it.
Placed(index, infos, last) ==
    /\ Sized(index, infos)
    /\ UndoFits(index, infos)
    /\ UnusedEmpty(infos, last)
    /\ index[Genesis].undo = NoPos

\* No place the index database refers to is free to be written again: sizes in
\* memory only shrink for pruned files, and then the index is written first.
NotReused == pc \notin {"down", "writeIndex"} => Sized(blockTree.index, vinfoBlockFile)

\* Only what is dirty differs from the database, and nothing is dirty once it was
\* written.
CleanAgree ==
    /\ pc = "down" \/ \A b \in Blocks \ setDirtyBlockIndex : blockTree.index[b] = mapBlockIndex[b]
    /\ pc = "down" \/ \A f \in Files \ setDirtyFileInfo : blockTree.files[f] = vinfoBlockFile[f]
    /\ pc \in {"down", "unlink", "flushCoins"} =>
          setDirtyBlockIndex = {} /\ setDirtyFileInfo = {}
    /\ pc \in {"unlink", "flushCoins"} => blockTree.last = nLastBlockFile

FlushShape ==
    /\ pc \notin {"writeIndex", "unlink", "flushCoins"} => flush = NoFlush
    /\ flush.prune # {} => flush.full
    /\ flush.then = "verify" => flush.full /\ flush.prune = {}
    /\ pc = "unlink" => flush.prune # {}
    /\ pc = "flushCoins" => flush.full

\* A file is unlinked when neither index refers to it any more.
PrunedGone ==
    pc \in {"writeIndex", "unlink"} =>
        \A b \in Blocks : mapBlockIndex[b].pos # NoPos => mapBlockIndex[b].pos[1] \notin flush.prune

\* Files that were left have been committed, and so has everything when the index is
\* written.
LeftCommitted ==
    \A b \in Blocks :
        mapBlockIndex[b].pos # NoPos /\ <<"blk", mapBlockIndex[b].pos>> \in unsynced =>
            pc # "writeIndex" /\ mapBlockIndex[b].pos[1] = nLastBlockFile

TipSet == pc # "down" => tip \in Blocks /\ coinsTip \in Blocks

PlaceInv ==
    /\ TypeOK
    /\ Placed(mapBlockIndex, vinfoBlockFile, nLastBlockFile)
    /\ Placed(blockTree.index, blockTree.files, blockTree.last)
    /\ NotReused
    /\ CleanAgree
    /\ FlushShape
    /\ PrunedGone
    /\ LeftCommitted
    /\ IndexPointsAtData
    /\ DataCommitted
    /\ TipSet

CoinsInv ==
    /\ pc # "down" =>
          /\ Received(mapBlockIndex, tip) /\ Received(mapBlockIndex, coinsTip)
          /\ flush.then # "verify" => Received(mapBlockIndex, coinsDB)
    /\ pc \in {"idle", "rewind", "verify", "abort"} => tip = coinsTip
    /\ flush.then \in {"exit", "verify"} => tip = coinsTip
    /\ flush.then = "idle" /\ pc \in {"writeIndex", "unlink", "flushCoins"} => tip = coinsTip
    /\ CoinsCovered

-----------------------------------------------------------------------------
(* Why a node that prunes can still reorganise.                            *)

\* Of two branches at most one is longer than what pruning keeps.
ShallowForks ==
    \A b, c \in Blocks :
        \/ Cardinality(AncestorsOrSelf[b] \ AncestorsOrSelf[c]) <= MinBlocksToKeep
        \/ Cardinality(AncestorsOrSelf[c] \ AncestorsOrSelf[b]) <= MinBlocksToKeep

\* nHeightLast bounds the heights of the blocks of a file.
HeightsCovered(index, infos) ==
    \A b \in Blocks : index[b].pos # NoPos => Height(b) <= infos[index[b].pos[1]].nHeightLast

\* Pruning begins after the start-up has rewound what has no witness.
NothingLost(index, c) == \A b \in AncestorsOrSelf[c] : ~Lost(index, b)
Witnessed(index) == \A b \in Blocks : index[b].nTx /\ b \in WitnessBlocks => index[b].witness
LostLater(index, c) == NothingLost(index, c) \/ Witnessed(index)
KnownFirst(index) == \A b \in Blocks : index[b].nTx => index[b].known

\* Between ConnectTip or DisconnectTip and UpdateTip the coins are one block that can
\* be undone away from the tip.
Moving(u, v) == u # Genesis /\ v = Parent[u] /\ mapBlockIndex[u].undo # NoPos
TipMoves ==
    pc \in {"updateTip", "flushed"} \/ flush.then = "flushed" =>
        Moving(tip, coinsTip) \/ Moving(coinsTip, tip)

\* Two chains differ only in blocks that can be undone; so do that of pcoinsTip and
\* that of the coin database, since pruning flushes the coins.
AgreeOnLost(index, c, d) ==
    \A b \in Blocks : Lost(index, b) => (b \in AncestorsOrSelf[c] <=> b \in AncestorsOrSelf[d])
LostStored ==
    pc # "down" /\ flush.prune = {} /\ flush.then # "verify" =>
        AgreeOnLost(mapBlockIndex, coinsTip, coinsDB)

KeptInv ==
    /\ HeightsCovered(mapBlockIndex, vinfoBlockFile)
    /\ HeightsCovered(blockTree.index, blockTree.files)
    /\ KnownFirst(mapBlockIndex) /\ KnownFirst(blockTree.index)
    /\ pc # "down" => LostLater(mapBlockIndex, tip)
    /\ LostLater(blockTree.index, coinsDB)
    /\ pc = "down" => home = "rewind"
    /\ home = "idle" \/ pc = "verify" \/ flush.then = "verify" \/ flush.prune # {} =>
          Witnessed(mapBlockIndex)
    /\ pc # "down" => LostBuried(mapBlockIndex, tip)
    /\ CoinsUndoable
    /\ LostStored
    /\ TipMoves

=============================================================================
