-------------------------- MODULE BlockStoreProofs --------------------------
(***************************************************************************)
(* What BlockStore keeps true on disk and in memory for every block tree,  *)
(* every number and size of files, and however often the node is killed.   *)
(***************************************************************************)
EXTENDS BlockStore, FiniteSetTheorems, WellFoundedInduction, TLAPS

(* Blocks, heights and entries                                             *)

\* A block is among its own ancestors, and its height is a natural number.
LEMMA TreeFacts ==
  ASSUME NEW b \in Blocks
  PROVE  b \in AncestorsOrSelf[b] /\ AncestorsOrSelf[b] \subseteq Blocks /\ Height(b) \in Nat
<1>1. b \in AncestorsOrSelf[b] /\ AncestorsOrSelf[b] \subseteq Blocks
  BY AncestryAssumption
<1>2. IsFiniteSet(AncestorsOrSelf[b])
  BY <1>1, AncestryAssumption, FS_Subset
<1>3. Cardinality(AncestorsOrSelf[b]) \in Nat /\ Cardinality(AncestorsOrSelf[b]) # 0
  BY <1>1, <1>2, FS_CardinalityType, FS_EmptySet
<1>4. Height(b) \in Nat
  BY <1>3 DEF Height
<1>5. QED
  BY <1>1, <1>4

\* The larger of two numbers.
LEMMA MaxOfTwo ==
  ASSUME NEW x \in Nat, NEW y \in Nat
  PROVE  Max({x, y}) \in Nat /\ Max({x, y}) >= x /\ Max({x, y}) >= y
<1>1. \E m \in {x, y} : \A k \in {x, y} : m >= k
  OBVIOUS
<1>2. Max({x, y}) \in {x, y} /\ \A k \in {x, y} : Max({x, y}) >= k
  BY <1>1 DEF Max
<1>3. QED
  BY <1>2

\* A bounded set of natural numbers has a largest element.
LEMMA MaxOfBounded ==
  ASSUME NEW S \in SUBSET Nat, S # {}, NEW n \in Nat, \A x \in S : x <= n
  PROVE  Max(S) \in S /\ \A x \in S : Max(S) >= x
<1> DEFINE T == {n - x : x \in S}
<1>1. T \subseteq Nat /\ T # {}
  <2>1. \A x \in S : n - x \in Nat
    OBVIOUS
  <2>2. PICK x \in S : TRUE
    OBVIOUS
  <2>3. n - x \in T
    OBVIOUS
  <2> QED BY <2>1, <2>3
<1>2. PICK u \in T : \A v \in T : <<v, u>> \notin OpToRel(<, Nat)
  <2> HIDE DEF T
  <2> QED BY <1>1, NatLessThanWellFounded, WFMin
<1>3. PICK m \in S : u = n - m
  OBVIOUS
<1>4. ASSUME NEW x \in S PROVE m >= x
  <2>1. n - x \in T /\ n - x \in Nat /\ u \in Nat
    BY <1>1
  <2>2. ~(n - x < u)
    BY <1>2, <2>1 DEF OpToRel
  <2> QED BY <1>3, <2>2
<1>5. QED
  BY <1>4 DEF Max

\* What an entry can be.
LEMMA EntryFacts ==
  ASSUME NEW index \in [Blocks -> Entries], NEW b \in Blocks
  PROVE  /\ index[b] \in Entries
         /\ index[b].pos # NoPos =>
               /\ index[b].pos \in Places /\ index[b].pos[1] \in Files /\ index[b].pos[2] \in Slots
               /\ index[b].pos = <<index[b].pos[1], index[b].pos[2]>>
         /\ index[b].undo # NoPos =>
               /\ index[b].undo \in Places /\ index[b].undo[1] \in Files /\ index[b].undo[2] \in Slots
               /\ index[b].undo = <<index[b].undo[1], index[b].undo[2]>>
<1>1. index[b] \in Entries
  OBVIOUS
<1>2. index[b].pos \in Places \cup {NoPos} /\ index[b].undo \in Places \cup {NoPos}
  BY <1>1 DEF Entries
<1>3. \A p \in Places : p[1] \in Files /\ p[2] \in Slots /\ p = <<p[1], p[2]>>
  BY DEF Places
<1>4. QED
  BY <1>1, <1>2, <1>3

\* The entry of a block that was stored.
LEMMA StoredEntry ==
  ASSUME NEW e \in Entries, NEW p \in Places, NEW b
  PROVE  [e EXCEPT !.known = TRUE, !.nTx = TRUE, !.pos = p,
                   !.witness = @ \/ b \in WitnessBlocks] \in Entries
BY DEF Entries

\* The index after that.
LEMMA StoredIndex ==
  ASSUME NEW index \in [Blocks -> Entries], NEW p \in Places, NEW b \in Blocks
  PROVE  [index EXCEPT
              ![b] = [index[b] EXCEPT !.known = TRUE, !.nTx = TRUE, !.pos = p,
                               !.witness = @ \/ b \in WitnessBlocks]] \in [Blocks -> Entries]
<1>1. index[b] \in Entries
  OBVIOUS
<1>2. [index[b] EXCEPT !.known = TRUE, !.nTx = TRUE, !.pos = p,
                               !.witness = @ \/ b \in WitnessBlocks] \in Entries
  BY <1>1, StoredEntry
<1>3. \A e \in Entries : [index EXCEPT ![b] = e] \in [Blocks -> Entries]
  OBVIOUS
<1> QED BY <1>2, <1>3

\* The blocks of a file whose undo data was not written can be counted.
LEMMA WithoutUndoFinite ==
  \A index, f : IsFiniteSet(WithoutUndo(index, f)) /\ Cardinality(WithoutUndo(index, f)) \in Nat
<1> TAKE index, f
<1>1. WithoutUndo(index, f) \in SUBSET Blocks
  BY DEF WithoutUndo
<1>2. QED
  BY <1>1, AncestryAssumption, FS_Subset, FS_CardinalityType

-----------------------------------------------------------------------------
(* Where blocks and undo data are                                          *)

\* Storing a block: the place after the end of the last file is referred to by
\* no entry, and the file that is left is committed.
LEMMA AcceptKeepsPlaces ==
  ASSUME PlaceInv, NEW b \in Blocks \ {Genesis}, AcceptBlock(b)
  PROVE  PlaceInv'
<1> DEFINE f == FindBlockPos
           pos == <<f, vinfoBlockFile[f].nSize + 1>>
           e == mapBlockIndex[b]
<1>1. /\ pc = "idle" /\ e.pos = NoPos /\ f \in Files
      /\ blk' = [blk EXCEPT ![pos] = b]
      /\ unsynced' = LeaveBlockFile(f, unsynced) \cup {<<"blk", pos>>}
      /\ nLastBlockFile' = f
      /\ vinfoBlockFile' = [vinfoBlockFile EXCEPT
              ![f].nSize = @ + 1, ![f].nHeightLast = Max({@, Height(b)})]
      /\ mapBlockIndex' = [mapBlockIndex EXCEPT
              ![b] = [mapBlockIndex[b] EXCEPT !.known = TRUE, !.nTx = TRUE, !.pos = pos,
                                              !.witness = @ \/ b \in WitnessBlocks]]
      /\ setDirtyBlockIndex' = setDirtyBlockIndex \cup {b}
      /\ setDirtyFileInfo' = setDirtyFileInfo \cup {f}
      /\ UNCHANGED <<tip, coinsTip, pc, home, flush, rev, blockTree, coinsDB, kills>>
  BY DEF AcceptBlock, control
<1>2. /\ TypeOK /\ mapBlockIndex \in [Blocks -> Entries] /\ vinfoBlockFile \in [Files -> FileInfos]
      /\ blk \in [Places -> Blocks \cup {NoBlock}] /\ nLastBlockFile \in Files
      /\ e \in Entries /\ vinfoBlockFile[f] \in FileInfos
      /\ blockTree.index \in [Blocks -> Entries]
  BY <1>1 DEF PlaceInv, TypeOK
<1>3. /\ Sized(mapBlockIndex, vinfoBlockFile) /\ UndoFits(mapBlockIndex, vinfoBlockFile)
      /\ UnusedEmpty(vinfoBlockFile, nLastBlockFile) /\ mapBlockIndex[Genesis].undo = NoPos
      /\ Sized(blockTree.index, vinfoBlockFile)
  BY <1>1 DEF PlaceInv, Placed, NotReused
<1>4. vinfoBlockFile[f].nSize \in Nat /\ vinfoBlockFile[f].nSize < FileSlots /\ pos \in Places
  <2>1. vinfoBlockFile[f].nSize \in 0..FileSlots /\ FileSlots \in Nat \ {0} /\ MaxFile \in Nat
    BY <1>2, StoreAssumption DEF FileInfos
  <2>2. vinfoBlockFile[f].nSize < FileSlots
    <3>1. CASE f = nLastBlockFile
      BY <3>1, <2>1, <1>2 DEF FindBlockPos, Files
    <3>2. CASE f = nLastBlockFile + 1
      <4>1. f > nLastBlockFile
        BY <1>2, <3>2 DEF Files
      <4>2. vinfoBlockFile[f].nSize = 0
        BY <1>1, <1>3, <4>1 DEF UnusedEmpty, EmptyFile
      <4> QED BY <4>2, <2>1
    <3> QED BY <3>1, <3>2 DEF FindBlockPos
  <2>3. vinfoBlockFile[f].nSize + 1 \in Slots
    BY <2>1, <2>2 DEF Slots
  <2> QED BY <1>1, <2>1, <2>2, <2>3 DEF Places
<1>5. f = nLastBlockFile \/ f = nLastBlockFile + 1
  BY DEF FindBlockPos
<1>6. /\ \A x \in Blocks \ {b} : mapBlockIndex'[x] = mapBlockIndex[x]
      /\ mapBlockIndex'[b].pos = pos /\ mapBlockIndex'[b].undo = e.undo
      /\ mapBlockIndex'[b].nTx /\ mapBlockIndex'[b].known
  BY <1>1, <1>2 DEF Entries
<1>7. mapBlockIndex' \in [Blocks -> Entries]
  <2>1. pos \in Places
    BY <1>4
  <2> HIDE DEF pos, f, e
  <2> QED BY <1>1, <1>2, <2>1, StoredIndex
<1>8. /\ \A g \in Files \ {f} : vinfoBlockFile'[g] = vinfoBlockFile[g]
      /\ vinfoBlockFile'[f].nSize = vinfoBlockFile[f].nSize + 1
      /\ vinfoBlockFile'[f].nUndoSize = vinfoBlockFile[f].nUndoSize
      /\ vinfoBlockFile' \in [Files -> FileInfos]
  <2>1. vinfoBlockFile[f].nHeightLast \in Nat /\ Height(b) \in Nat
    BY <1>2, TreeFacts DEF FileInfos
  <2>2. Max({vinfoBlockFile[f].nHeightLast, Height(b)}) \in Nat
    BY <2>1, MaxOfTwo
  <2>3. vinfoBlockFile[f].nSize + 1 \in 0..FileSlots /\ vinfoBlockFile[f].nUndoSize \in 0..FileSlots
    BY <1>2, <1>4, StoreAssumption DEF FileInfos
  <2> DEFINE n == [nSize |-> vinfoBlockFile[f].nSize + 1, nUndoSize |-> vinfoBlockFile[f].nUndoSize,
                   nHeightLast |-> Max({vinfoBlockFile[f].nHeightLast, Height(b)})]
  <2>4. vinfoBlockFile'[f] = n /\ \A g \in Files \ {f} : vinfoBlockFile'[g] = vinfoBlockFile[g]
    BY <1>1, <1>2 DEF FileInfos
  <2>5. n \in FileInfos
    BY <2>2, <2>3 DEF FileInfos
  <2>6. n.nSize = vinfoBlockFile[f].nSize + 1 /\ n.nUndoSize = vinfoBlockFile[f].nUndoSize
    OBVIOUS
  <2>7. vinfoBlockFile' = [g \in Files |-> vinfoBlockFile'[g]]
    BY <1>1, <1>2
  <2> HIDE DEF n, f
  <2>8. \A g \in Files : vinfoBlockFile'[g] \in FileInfos
    BY <1>2, <2>4, <2>5
  <2>9. vinfoBlockFile' \in [Files -> FileInfos]
    BY <2>7, <2>8
  <2> QED BY <2>4, <2>6, <2>9
<1>9. e.undo = NoPos
  BY <1>1, <1>3 DEF Sized
<1> HIDE DEF f, pos, e
<1>10. ASSUME NEW index \in [Blocks -> Entries], Sized(index, vinfoBlockFile)
       PROVE  /\ Sized(index, vinfoBlockFile')
              /\ \A x \in Blocks : index[x].pos # pos
  <2>1. ASSUME NEW x \in Blocks
        PROVE  /\ index[x].pos # pos
               /\ index[x].pos # NoPos => index[x].pos[2] <= vinfoBlockFile'[index[x].pos[1]].nSize
               /\ index[x].undo # NoPos =>
                     /\ index[x].pos # NoPos /\ index[x].undo[1] = index[x].pos[1]
                     /\ index[x].undo[2] <= vinfoBlockFile'[index[x].undo[1]].nUndoSize
    <3>1. /\ index[x].pos # NoPos => index[x].pos \in Places /\ index[x].pos[1] \in Files
                                     /\ index[x].pos[2] \in Slots
          /\ index[x].undo # NoPos => index[x].undo[1] \in Files
      BY EntryFacts
    <3>2. /\ index[x].pos # NoPos => index[x].pos[2] <= vinfoBlockFile[index[x].pos[1]].nSize
          /\ index[x].undo # NoPos =>
                /\ index[x].pos # NoPos /\ index[x].undo[1] = index[x].pos[1]
                /\ index[x].undo[2] <= vinfoBlockFile[index[x].undo[1]].nUndoSize
      BY <1>10 DEF Sized
    <3>3. index[x].pos # pos
      <4>1. pos[1] = f /\ pos[2] = vinfoBlockFile[f].nSize + 1 /\ pos # NoPos
        BY <1>4, StoreAssumption DEF pos
      <4> QED BY <1>4, <3>1, <3>2, <4>1 DEF Slots
    <3>4. index[x].pos # NoPos => index[x].pos[2] <= vinfoBlockFile'[index[x].pos[1]].nSize
      <4>1. index[x].pos # NoPos => index[x].pos[2] \in Nat /\ vinfoBlockFile[index[x].pos[1]].nSize \in Nat
        BY <1>2, <3>1, StoreAssumption DEF Slots, FileInfos
      <4> QED BY <1>8, <1>4, <3>1, <3>2, <4>1
    <3> QED BY <1>8, <3>1, <3>2, <3>3, <3>4
  <2> QED BY <2>1 DEF Sized
<1>11. Sized(mapBlockIndex', vinfoBlockFile')
  <2>1. Sized(mapBlockIndex, vinfoBlockFile')
    BY <1>2, <1>3, <1>10
  <2>2. pos[1] = f /\ pos[2] = vinfoBlockFile'[f].nSize /\ vinfoBlockFile'[f].nSize \in Nat
    BY <1>4, <1>8 DEF pos
  <2> QED BY <1>6, <1>9, <2>1, <2>2 DEF Sized
<1>12. UndoFits(mapBlockIndex', vinfoBlockFile')
  <2>1. ASSUME NEW g \in Files
        PROVE  vinfoBlockFile'[g].nUndoSize + Cardinality(WithoutUndo(mapBlockIndex', g))
                  <= vinfoBlockFile'[g].nSize
    <3> DEFINE W == WithoutUndo(mapBlockIndex, g)
    <3>1. IsFiniteSet(W) /\ Cardinality(W) \in Nat
      BY WithoutUndoFinite
    <3>2. vinfoBlockFile[g].nUndoSize + Cardinality(W) <= vinfoBlockFile[g].nSize
      BY <1>3 DEF UndoFits
    <3>3. vinfoBlockFile[g].nUndoSize \in Nat /\ vinfoBlockFile[g].nSize \in Nat
      BY <1>2, StoreAssumption DEF FileInfos
    <3>4. CASE g = f
      <4>1. WithoutUndo(mapBlockIndex', g) = W \cup {b} /\ b \notin W
        <5>1. pos[1] = f /\ pos # NoPos /\ mapBlockIndex[b].pos = NoPos
          BY <1>1, <1>4, StoreAssumption DEF pos, e
        <5> QED BY <1>6, <1>9, <3>4, <5>1 DEF WithoutUndo
      <4>2. Cardinality(WithoutUndo(mapBlockIndex', g)) = Cardinality(W) + 1
        BY <3>1, <4>1, FS_AddElement
      <4> HIDE DEF W
      <4> QED BY <1>8, <3>1, <3>2, <3>3, <3>4, <4>2
    <3>5. CASE g # f
      <4>1. WithoutUndo(mapBlockIndex', g) = W
        <5>1. pos[1] = f /\ mapBlockIndex[b].pos = NoPos
          BY <1>1 DEF pos, e
        <5> QED BY <1>6, <3>5, <5>1 DEF WithoutUndo
      <4> QED BY <1>8, <3>2, <3>5, <4>1
    <3> QED BY <3>4, <3>5
  <2> QED BY <2>1 DEF UndoFits
<1>13. Placed(mapBlockIndex', vinfoBlockFile', nLastBlockFile')
  <2>1. UnusedEmpty(vinfoBlockFile', nLastBlockFile')
    <3>1. ASSUME NEW g \in Files, g > f PROVE vinfoBlockFile'[g] = EmptyFile
      <4>1. g # f /\ g > nLastBlockFile
        BY <1>1, <1>2, <1>5, <3>1 DEF Files
      <4> QED BY <1>3, <1>8, <4>1 DEF UnusedEmpty
    <3> QED BY <1>1, <3>1 DEF UnusedEmpty
  <2>2. mapBlockIndex'[Genesis].undo = NoPos
    BY <1>3, <1>6, StoreAssumption
  <2> QED BY <1>11, <1>12, <2>1, <2>2 DEF Placed
<1>14. IndexPointsAtData'
  <2>1. \A x \in Blocks : blockTree.index[x].pos # pos /\ mapBlockIndex[x].pos # pos
    BY <1>2, <1>3, <1>10
  <2>2. \A p \in Places : blk'[p] = IF p = pos THEN b ELSE blk[p]
    BY <1>1, <1>2
  <2>3. Points(blockTree.index)'
    <3>1. ASSUME NEW x \in Blocks, blockTree.index[x].pos # NoPos
          PROVE  blk'[blockTree.index[x].pos] = x
      BY <1>2, <2>1, <2>2, <3>1, EntryFacts DEF PlaceInv, IndexPointsAtData, Points
    <3> QED BY <1>1, <3>1 DEF Points, PlaceInv, IndexPointsAtData
  <2>4. Points(mapBlockIndex)'
    <3>1. ASSUME NEW x \in Blocks, mapBlockIndex'[x].pos # NoPos
          PROVE  blk'[mapBlockIndex'[x].pos] = x
      <4>1. CASE x = b
        BY <1>4, <1>6, <2>2, <4>1
      <4>2. CASE x # b
        BY <1>2, <1>6, <2>1, <2>2, <3>1, <4>2, EntryFacts DEF PlaceInv, IndexPointsAtData, Points
      <4> QED BY <4>1, <4>2
    <3>2. ASSUME NEW x \in Blocks, mapBlockIndex'[x].undo # NoPos
          PROVE  rev'[mapBlockIndex'[x].undo] = x
      BY <1>1, <1>6, <1>9, <3>2 DEF PlaceInv, IndexPointsAtData, Points
    <3> QED BY <3>1, <3>2 DEF Points
  <2> QED BY <2>3, <2>4 DEF IndexPointsAtData
<1>15. DataCommitted'
  <2>1. \A x \in Blocks : blockTree.index[x].pos # pos
    BY <1>2, <1>3, <1>10
  <2>2. unsynced' \subseteq unsynced \cup {<<"blk", pos>>}
    BY <1>1 DEF LeaveBlockFile, Committed
  <2> QED BY <1>1, <2>1, <2>2 DEF DataCommitted, PlaceInv
<1>16. LeftCommitted'
  <2>1. ASSUME NEW x \in Blocks, mapBlockIndex'[x].pos # NoPos,
               <<"blk", mapBlockIndex'[x].pos>> \in unsynced'
        PROVE  mapBlockIndex'[x].pos[1] = f
    <3>1. CASE x = b
      BY <1>6, <3>1 DEF pos
    <3>2. CASE x # b
      <4>1. mapBlockIndex'[x] = mapBlockIndex[x] /\ mapBlockIndex[x].pos # pos
        BY <1>2, <1>3, <1>6, <1>10, <3>2
      <4>2. <<"blk", mapBlockIndex[x].pos>> \in LeaveBlockFile(f, unsynced)
        <5>1. <<"blk", mapBlockIndex[x].pos>> # <<"blk", pos>>
          BY <4>1
        <5>2. unsynced' = LeaveBlockFile(f, unsynced) \cup {<<"blk", pos>>}
          BY <1>1
        <5>3. <<"blk", mapBlockIndex[x].pos>> \in unsynced'
          BY <2>1, <4>1
        <5> QED BY <5>1, <5>2, <5>3
      <4>3. <<"blk", mapBlockIndex[x].pos>> \in unsynced
        BY <4>2 DEF LeaveBlockFile, Committed
      <4>4. mapBlockIndex[x].pos[1] = nLastBlockFile
        BY <2>1, <4>1, <4>3 DEF LeftCommitted, PlaceInv
      <4>5. f = nLastBlockFile
        BY <4>2, <4>4 DEF LeaveBlockFile, Committed
      <4> QED BY <4>1, <4>4, <4>5
    <3> QED BY <3>1, <3>2
  <2> QED BY <1>1, <2>1 DEF LeftCommitted
<1>17. NotReused' /\ CleanAgree'
  <2>1. NotReused'
    BY <1>1, <1>2, <1>3, <1>10 DEF NotReused
  <2>2. \A x \in Blocks \ setDirtyBlockIndex' : blockTree'.index[x] = mapBlockIndex'[x]
    BY <1>1, <1>6 DEF PlaceInv, CleanAgree
  <2>3. \A g \in Files \ setDirtyFileInfo' : blockTree'.files[g] = vinfoBlockFile'[g]
    BY <1>1, <1>8 DEF PlaceInv, CleanAgree
  <2> QED BY <1>1, <2>1, <2>2, <2>3 DEF CleanAgree
<1>18. TypeOK'
  <2>1. unsynced' \subseteq {"blk", "rev"} \X Places
    BY <1>1, <1>2, <1>4 DEF TypeOK, LeaveBlockFile, Committed
  <2>2. blk' \in [Places -> Blocks \cup {NoBlock}]
    BY <1>1, <1>2
  <2>3. setDirtyBlockIndex' \subseteq Blocks /\ setDirtyFileInfo' \subseteq Files /\ nLastBlockFile' \in Files
    BY <1>1, <1>2 DEF TypeOK
  <2> QED BY <1>1, <1>2, <1>7, <1>8, <2>1, <2>2, <2>3 DEF TypeOK
<1>19. FlushShape' /\ PrunedGone' /\ TipSet' /\ Placed(blockTree.index, blockTree.files, blockTree.last)'
  BY <1>1 DEF PlaceInv, FlushShape, PrunedGone, TipSet, Placed, Sized, UndoFits, UnusedEmpty, WithoutUndo
<1>20. QED
  BY <1>13, <1>14, <1>15, <1>16, <1>17, <1>18, <1>19 DEF PlaceInv


\* What only depends on the files, the indexes and the sizes is kept while they are.
LEMMA SamePlaces ==
  ASSUME PlaceInv,
         UNCHANGED <<mapBlockIndex, vinfoBlockFile, nLastBlockFile, blk, rev, unsynced, blockTree>>
  PROVE  /\ Placed(mapBlockIndex, vinfoBlockFile, nLastBlockFile)'
         /\ Placed(blockTree.index, blockTree.files, blockTree.last)'
         /\ IndexPointsAtData' /\ DataCommitted'
<1>1. /\ Placed(mapBlockIndex, vinfoBlockFile, nLastBlockFile)
      /\ Placed(blockTree.index, blockTree.files, blockTree.last)
      /\ IndexPointsAtData /\ DataCommitted
  BY DEF PlaceInv
<1>2. Points(blockTree.index)' /\ Points(mapBlockIndex)' /\ DataCommitted'
  BY <1>1 DEF IndexPointsAtData, Points, DataCommitted
<1>3. QED
  BY <1>1, <1>2 DEF IndexPointsAtData

\* A step that moves only pcoinsTip, chainActive, pc, the best block of the coin
\* database and home, with no flush under way before or after it.
LEMMA QuietStep ==
  ASSUME PlaceInv,
         UNCHANGED <<mapBlockIndex, vinfoBlockFile, nLastBlockFile, setDirtyBlockIndex,
                     setDirtyFileInfo, flush, blk, rev, unsynced, blockTree, coinsDB, kills>>,
         pc \notin {"down", "writeIndex", "unlink", "flushCoins"},
         pc' \in {"rewind", "idle", "updateTip", "abort", "refused"},
         home' \in {"rewind", "idle"}, tip' \in Blocks, coinsTip' \in Blocks
  PROVE  PlaceInv'
<1>1. TypeOK /\ NotReused /\ CleanAgree /\ FlushShape /\ PrunedGone /\ LeftCommitted
  BY DEF PlaceInv
<1>2. TypeOK'
  BY <1>1 DEF TypeOK
<1>3. NotReused'
  BY <1>1 DEF NotReused, Sized
<1>4. CleanAgree' /\ FlushShape' /\ PrunedGone' /\ LeftCommitted' /\ TipSet'
  BY <1>1 DEF CleanAgree, FlushShape, PrunedGone, LeftCommitted, TipSet
<1>5. QED
  BY <1>2, <1>3, <1>4, SamePlaces DEF PlaceInv

\* The block to connect can be read: FindMostWorkChain has seen that nothing is
\* missing, and the index tells the truth.
LEMMA ConnectReads ==
  ASSUME PlaceInv, NEW b \in Blocks \ {Genesis}, ConnectTip(b)
  PROVE  ReadBlockFromDisk(mapBlockIndex, b)
<1>1. Parent[b] = tip /\ \E target \in MostWork : b \in AncestorsOrSelf[target]
  BY DEF ConnectTip
<1>2. PICK target \in Blocks : b \in AncestorsOrSelf[target] /\ ~MissingData(target)
  BY <1>1 DEF MostWork, Candidates
<1>3. ~InActiveChain(b)
  BY <1>1, AncestryAssumption DEF InActiveChain
<1>4. mapBlockIndex[b].pos # NoPos
  BY <1>2, <1>3 DEF MissingData
<1>5. QED
  BY <1>4 DEF ReadBlockFromDisk, PlaceInv, IndexPointsAtData, Points

\* Undo data goes to a place of the block's undo file that no entry refers to, and
\* the file has room for it.
LEMMA ConnectKeepsPlaces ==
  ASSUME PlaceInv, NEW b \in Blocks \ {Genesis}, ConnectTip(b)
  PROVE  PlaceInv'
<1> DEFINE f == mapBlockIndex[b].pos[1]
           pos == FindUndoPos(f)
<1>1. /\ pc = "idle" /\ pc' = "updateTip" /\ coinsTip' = b
      /\ mapBlockIndex[b].pos # NoPos /\ WriteUndo(b)
      /\ UNCHANGED <<nLastBlockFile, tip, home, flush, blk, blockTree, coinsDB, kills>>
  BY ConnectReads DEF ConnectTip, ReadBlockFromDisk
<1>2. tip' \in Blocks /\ coinsTip' \in Blocks
  BY <1>1 DEF PlaceInv, TipSet
<1>3. CASE mapBlockIndex[b].undo # NoPos
  <2>1. UNCHANGED <<rev, unsynced, vinfoBlockFile, setDirtyFileInfo, mapBlockIndex, setDirtyBlockIndex>>
    BY <1>1, <1>3 DEF WriteUndo
  <2>2. home' \in {"rewind", "idle"}
    BY <1>1 DEF PlaceInv, TypeOK
  <2> QED BY <1>1, <1>2, <2>1, <2>2, QuietStep
<1>4. CASE mapBlockIndex[b].undo = NoPos
  <2>1. /\ rev' = [rev EXCEPT ![pos] = b]
        /\ unsynced' = unsynced \cup {<<"rev", pos>>}
        /\ vinfoBlockFile' = [vinfoBlockFile EXCEPT ![f].nUndoSize = @ + 1]
        /\ setDirtyFileInfo' = setDirtyFileInfo \cup {f}
        /\ mapBlockIndex' = [mapBlockIndex EXCEPT ![b].undo = pos]
        /\ setDirtyBlockIndex' = setDirtyBlockIndex \cup {b}
    BY <1>1, <1>4 DEF WriteUndo
  <2>2. /\ TypeOK /\ mapBlockIndex \in [Blocks -> Entries] /\ vinfoBlockFile \in [Files -> FileInfos]
        /\ rev \in [Places -> Blocks \cup {NoBlock}] /\ blockTree.index \in [Blocks -> Entries]
    BY DEF PlaceInv, TypeOK
  <2>3. /\ Sized(mapBlockIndex, vinfoBlockFile) /\ UndoFits(mapBlockIndex, vinfoBlockFile)
        /\ UnusedEmpty(vinfoBlockFile, nLastBlockFile) /\ mapBlockIndex[Genesis].undo = NoPos
        /\ Sized(blockTree.index, vinfoBlockFile)
    BY <1>1 DEF PlaceInv, Placed, NotReused
  <2>4. f \in Files /\ vinfoBlockFile[f] \in FileInfos
    BY <1>1, <2>2, EntryFacts
  <2>5. /\ vinfoBlockFile[f].nUndoSize \in Nat /\ vinfoBlockFile[f].nSize \in Nat
        /\ vinfoBlockFile[f].nUndoSize + 1 <= vinfoBlockFile[f].nSize
        /\ vinfoBlockFile[f].nSize <= FileSlots /\ FileSlots \in Nat
    <3>1. vinfoBlockFile[f].nUndoSize \in 0..FileSlots /\ vinfoBlockFile[f].nSize \in 0..FileSlots
          /\ FileSlots \in Nat
      BY <2>4, StoreAssumption DEF FileInfos
    <3>2. b \in WithoutUndo(mapBlockIndex, f)
      BY <1>1, <1>4 DEF WithoutUndo
    <3>3. /\ Cardinality(WithoutUndo(mapBlockIndex, f)) \in Nat
          /\ Cardinality(WithoutUndo(mapBlockIndex, f)) # 0
      BY <3>2, WithoutUndoFinite, FS_EmptySet
    <3>4. vinfoBlockFile[f].nUndoSize + Cardinality(WithoutUndo(mapBlockIndex, f)) <= vinfoBlockFile[f].nSize
      BY <2>3, <2>4 DEF UndoFits
    <3> QED BY <3>1, <3>3, <3>4
  <2>6. pos = <<f, vinfoBlockFile[f].nUndoSize + 1>> /\ pos \in Places /\ pos # NoPos
    <3>1. vinfoBlockFile[f].nUndoSize + 1 \in Slots
      BY <2>5 DEF Slots
    <3> QED BY <2>4, <3>1, StoreAssumption DEF FindUndoPos, Places
  <2>7. /\ \A x \in Blocks \ {b} : mapBlockIndex'[x] = mapBlockIndex[x]
        /\ mapBlockIndex'[b].undo = pos /\ mapBlockIndex'[b].pos = mapBlockIndex[b].pos
        /\ mapBlockIndex' \in [Blocks -> Entries]
    <3> HIDE DEF pos
    <3>1. \A x \in Blocks \ {b} : mapBlockIndex'[x] = mapBlockIndex[x]
      BY <2>1, <2>2
    <3>2. mapBlockIndex'[b].undo = pos /\ mapBlockIndex'[b].pos = mapBlockIndex[b].pos
      BY <2>1, <2>2 DEF Entries
    <3>3. mapBlockIndex'[b] \in Entries
      <4>1. mapBlockIndex[b] \in Entries /\ mapBlockIndex'[b] = [mapBlockIndex[b] EXCEPT !.undo = pos]
        BY <2>1, <2>2
      <4> QED BY <2>6, <4>1 DEF Entries
    <3>4. mapBlockIndex' = [x \in Blocks |-> mapBlockIndex'[x]]
      BY <2>1, <2>2
    <3>5. mapBlockIndex' \in [Blocks -> Entries]
      BY <2>2, <3>1, <3>3, <3>4
    <3> QED BY <3>1, <3>2, <3>5
  <2>8. /\ \A g \in Files \ {f} : vinfoBlockFile'[g] = vinfoBlockFile[g]
        /\ vinfoBlockFile'[f].nSize = vinfoBlockFile[f].nSize
        /\ vinfoBlockFile'[f].nUndoSize = vinfoBlockFile[f].nUndoSize + 1
        /\ vinfoBlockFile' \in [Files -> FileInfos]
    <3> HIDE DEF f
    <3>1. \A g \in Files \ {f} : vinfoBlockFile'[g] = vinfoBlockFile[g]
      BY <2>1, <2>2
    <3>2. /\ vinfoBlockFile'[f].nSize = vinfoBlockFile[f].nSize
          /\ vinfoBlockFile'[f].nUndoSize = vinfoBlockFile[f].nUndoSize + 1
      BY <2>1, <2>2, <2>4 DEF FileInfos
    <3>3. vinfoBlockFile'[f] \in FileInfos
      <4>1. /\ vinfoBlockFile[f] \in FileInfos
            /\ vinfoBlockFile'[f] = [vinfoBlockFile[f] EXCEPT !.nUndoSize = vinfoBlockFile[f].nUndoSize + 1]
        BY <2>1, <2>2, <2>4
      <4>2. vinfoBlockFile[f].nUndoSize + 1 \in 0..FileSlots
        BY <2>5
      <4> QED BY <4>1, <4>2 DEF FileInfos
    <3>4. vinfoBlockFile' = [x \in Files |-> vinfoBlockFile'[x]]
      BY <2>1, <2>2
    <3>5. vinfoBlockFile' \in [Files -> FileInfos]
      BY <2>2, <3>1, <3>3, <3>4
    <3> QED BY <3>1, <3>2, <3>5
  <2> HIDE DEF f, pos
  <2>9. ASSUME NEW index \in [Blocks -> Entries], Sized(index, vinfoBlockFile)
        PROVE  /\ Sized(index, vinfoBlockFile')
               /\ \A x \in Blocks : index[x].undo # pos
    <3>1. ASSUME NEW x \in Blocks
          PROVE  /\ index[x].undo # pos
                 /\ index[x].pos # NoPos => index[x].pos[2] <= vinfoBlockFile'[index[x].pos[1]].nSize
                 /\ index[x].undo # NoPos =>
                       /\ index[x].pos # NoPos /\ index[x].undo[1] = index[x].pos[1]
                       /\ index[x].undo[2] <= vinfoBlockFile'[index[x].undo[1]].nUndoSize
      <4>1. /\ index[x].pos # NoPos => index[x].pos[1] \in Files /\ index[x].pos[2] \in Slots
            /\ index[x].undo # NoPos => index[x].undo[1] \in Files /\ index[x].undo[2] \in Slots
        BY EntryFacts
      <4>2. /\ index[x].pos # NoPos => index[x].pos[2] <= vinfoBlockFile[index[x].pos[1]].nSize
            /\ index[x].undo # NoPos =>
                  /\ index[x].pos # NoPos /\ index[x].undo[1] = index[x].pos[1]
                  /\ index[x].undo[2] <= vinfoBlockFile[index[x].undo[1]].nUndoSize
        BY <2>9 DEF Sized
      <4>3. index[x].undo # pos
        <5>1. pos[1] = f /\ pos[2] = vinfoBlockFile[f].nUndoSize + 1 /\ pos # NoPos
          BY <2>6
        <5> QED BY <2>5, <4>1, <4>2, <5>1 DEF Slots
      <4>4. index[x].undo # NoPos => index[x].undo[2] <= vinfoBlockFile'[index[x].undo[1]].nUndoSize
        BY <2>5, <2>8, <4>1, <4>2 DEF Slots
      <4> QED BY <2>8, <4>1, <4>2, <4>3, <4>4
    <3> QED BY <3>1 DEF Sized
  <2>10. Sized(mapBlockIndex', vinfoBlockFile')
    <3>1. Sized(mapBlockIndex, vinfoBlockFile')
      BY <2>2, <2>3, <2>9
    <3>2. pos[1] = f /\ pos[2] = vinfoBlockFile'[f].nUndoSize /\ vinfoBlockFile'[f].nUndoSize \in Nat
          /\ f = mapBlockIndex[b].pos[1]
      BY <2>5, <2>6, <2>8 DEF f
    <3> QED BY <1>1, <2>7, <3>1, <3>2 DEF Sized
  <2>11. UndoFits(mapBlockIndex', vinfoBlockFile')
    <3>1. ASSUME NEW g \in Files
          PROVE  vinfoBlockFile'[g].nUndoSize + Cardinality(WithoutUndo(mapBlockIndex', g))
                    <= vinfoBlockFile'[g].nSize
      <4> DEFINE W == WithoutUndo(mapBlockIndex, g)
      <4>1. IsFiniteSet(W) /\ Cardinality(W) \in Nat
        BY WithoutUndoFinite
      <4>2. vinfoBlockFile[g].nUndoSize + Cardinality(W) <= vinfoBlockFile[g].nSize
        BY <2>3 DEF UndoFits
      <4>3. vinfoBlockFile[g].nUndoSize \in Nat /\ vinfoBlockFile[g].nSize \in Nat
        BY <2>2, StoreAssumption DEF FileInfos
      <4>4. CASE g = f
        <5>1. WithoutUndo(mapBlockIndex', g) = W \ {b} /\ b \in W
          BY <1>1, <1>4, <2>6, <2>7, <4>4 DEF WithoutUndo, f
        <5>2. Cardinality(WithoutUndo(mapBlockIndex', g)) = Cardinality(W) - 1
          BY <4>1, <5>1, FS_RemoveElement
        <5> HIDE DEF W
        <5> QED BY <2>8, <4>1, <4>2, <4>3, <4>4, <5>2
      <4>5. CASE g # f
        <5>1. WithoutUndo(mapBlockIndex', g) = W
          BY <2>7, <4>5 DEF WithoutUndo, f
        <5> QED BY <2>8, <4>2, <4>5, <5>1
      <4> QED BY <4>4, <4>5
    <3> QED BY <3>1 DEF UndoFits
  <2>12. Placed(mapBlockIndex', vinfoBlockFile', nLastBlockFile')
    <3>1. UnusedEmpty(vinfoBlockFile', nLastBlockFile')
      <4>1. ~(f > nLastBlockFile)
        <5>1. vinfoBlockFile[f].nSize # 0
          BY <2>5
        <5> QED BY <2>3, <2>4, <5>1 DEF UnusedEmpty, EmptyFile
      <4> QED BY <1>1, <2>3, <2>8, <4>1 DEF UnusedEmpty
    <3>2. mapBlockIndex'[Genesis].undo = NoPos
      BY <2>3, <2>7, StoreAssumption
    <3> QED BY <2>10, <2>11, <3>1, <3>2 DEF Placed
  <2>13. IndexPointsAtData'
    <3>1. \A x \in Blocks : blockTree.index[x].undo # pos /\ mapBlockIndex[x].undo # pos
      BY <2>2, <2>3, <2>9
    <3>2. \A p \in Places : rev'[p] = IF p = pos THEN b ELSE rev[p]
      BY <2>1, <2>2
    <3>3. Points(blockTree.index)'
      <4>1. ASSUME NEW x \in Blocks, blockTree.index[x].undo # NoPos
            PROVE  rev'[blockTree.index[x].undo] = x
        BY <2>2, <3>1, <3>2, <4>1, EntryFacts DEF PlaceInv, IndexPointsAtData, Points
      <4> QED BY <1>1, <4>1 DEF Points, PlaceInv, IndexPointsAtData
    <3>4. Points(mapBlockIndex)'
      <4>1. ASSUME NEW x \in Blocks, mapBlockIndex'[x].undo # NoPos
            PROVE  rev'[mapBlockIndex'[x].undo] = x
        <5>1. CASE x = b
          BY <2>6, <2>7, <3>2, <5>1
        <5>2. CASE x # b
          BY <2>2, <2>7, <3>1, <3>2, <4>1, <5>2, EntryFacts DEF PlaceInv, IndexPointsAtData, Points
        <5> QED BY <5>1, <5>2
      <4>2. ASSUME NEW x \in Blocks, mapBlockIndex'[x].pos # NoPos
            PROVE  blk'[mapBlockIndex'[x].pos] = x
        BY <1>1, <2>7, <4>2 DEF PlaceInv, IndexPointsAtData, Points
      <4> QED BY <4>1, <4>2 DEF Points
    <3> QED BY <3>3, <3>4 DEF IndexPointsAtData
  <2>14. \A p : <<"blk", p>> \in unsynced' => <<"blk", p>> \in unsynced
    BY <2>1
  <2>15. DataCommitted' /\ LeftCommitted'
    <3>1. DataCommitted'
      BY <1>1, <2>14 DEF DataCommitted, PlaceInv
    <3>2. \A x \in Blocks : mapBlockIndex'[x].pos = mapBlockIndex[x].pos
      BY <2>7
    <3> QED BY <1>1, <2>14, <3>1, <3>2 DEF LeftCommitted, PlaceInv
  <2>16. NotReused' /\ CleanAgree'
    <3>1. NotReused'
      BY <1>1, <2>2, <2>3, <2>9 DEF NotReused
    <3>2. \A x \in Blocks \ setDirtyBlockIndex' : blockTree'.index[x] = mapBlockIndex'[x]
      BY <1>1, <2>1, <2>7 DEF PlaceInv, CleanAgree
    <3>3. \A g \in Files \ setDirtyFileInfo' : blockTree'.files[g] = vinfoBlockFile'[g]
      BY <1>1, <2>1, <2>8 DEF PlaceInv, CleanAgree
    <3> QED BY <1>1, <3>1, <3>2, <3>3 DEF CleanAgree
  <2>17. TypeOK'
    <3>1. unsynced' \subseteq {"blk", "rev"} \X Places
      BY <2>1, <2>2, <2>6 DEF TypeOK
    <3>2. rev' \in [Places -> Blocks \cup {NoBlock}]
      BY <2>1, <2>2
    <3>3. setDirtyBlockIndex' \subseteq Blocks /\ setDirtyFileInfo' \subseteq Files
      BY <2>1, <2>2, <2>4 DEF TypeOK
    <3> QED BY <1>1, <1>2, <2>2, <2>7, <2>8, <3>1, <3>2, <3>3 DEF TypeOK
  <2>18. FlushShape' /\ PrunedGone' /\ TipSet' /\ Placed(blockTree.index, blockTree.files, blockTree.last)'
    BY <1>1, <1>2 DEF PlaceInv, FlushShape, PrunedGone, TipSet, Placed, Sized, UndoFits, UnusedEmpty, WithoutUndo
  <2>19. QED
    BY <2>12, <2>13, <2>15, <2>16, <2>17, <2>18 DEF PlaceInv
<1>5. QED
  BY <1>3, <1>4

\* Disconnecting a block changes no place; it has a parent because Genesis has no
\* undo data.
LEMMA DisconnectKeepsPlaces ==
  ASSUME PlaceInv, pc \in {"idle", "rewind"}, DisconnectBlock(tip)
  PROVE  PlaceInv'
<1> DEFINE ok == ReadBlockFromDisk(mapBlockIndex, tip) /\ UndoReadFromDisk(mapBlockIndex, tip)
<1>1. /\ coinsTip' = IF ok THEN Parent[tip] ELSE coinsTip
      /\ pc' = IF ok THEN "updateTip" ELSE "abort"
      /\ UNCHANGED <<mapBlockIndex, vinfoBlockFile, nLastBlockFile, setDirtyBlockIndex,
                     setDirtyFileInfo, tip, home, flush, blk, rev, unsynced, blockTree, coinsDB, kills>>
  BY DEF DisconnectBlock, files
<1>2. tip \in Blocks /\ coinsTip \in Blocks /\ home \in {"rewind", "idle"}
  BY DEF PlaceInv, TipSet, TypeOK
<1>3. ok => tip # Genesis
  BY DEF UndoReadFromDisk, PlaceInv, Placed
<1>4. coinsTip' \in Blocks
  BY <1>1, <1>2, <1>3, AncestryAssumption
<1>5. QED
  BY <1>1, <1>2, <1>4, QuietStep

\* chainActive follows pcoinsTip.
LEMMA UpdateTipKeepsPlaces ==
  ASSUME PlaceInv, UpdateTip
  PROVE  PlaceInv'
<1>1. /\ pc \in {"updateTip", "flushed"} /\ pc' = home /\ tip' = coinsTip
      /\ UNCHANGED <<mapBlockIndex, vinfoBlockFile, nLastBlockFile, setDirtyBlockIndex, coinsTip,
                     setDirtyFileInfo, home, flush, blk, rev, unsynced, blockTree, coinsDB, kills>>
  BY DEF UpdateTip, files
<1>2. coinsTip \in Blocks /\ home \in {"rewind", "idle"}
  BY <1>1 DEF PlaceInv, TipSet, TypeOK
<1>3. QED
  BY <1>1, <1>2, QuietStep

\* VerifyDB reads only.
LEMMA VerifyKeepsPlaces ==
  ASSUME PlaceInv, VerifyDB
  PROVE  PlaceInv'
<1>1. /\ pc = "verify" /\ pc' \in {"idle", "refused"} /\ home' = "idle"
      /\ UNCHANGED <<mapBlockIndex, vinfoBlockFile, nLastBlockFile, setDirtyBlockIndex, coinsTip, tip,
                     setDirtyFileInfo, flush, blk, rev, unsynced, blockTree, coinsDB, kills>>
  BY DEF VerifyDB, files, memory
<1>2. coinsTip \in Blocks /\ tip \in Blocks
  BY <1>1 DEF PlaceInv, TipSet
<1>3. QED
  BY <1>1, <1>2, QuietStep

\* What pruning makes of an index.
LEMMA PrunedEntries ==
  ASSUME NEW index \in [Blocks -> Entries], NEW S \in SUBSET Files
  PROVE  /\ PruneOneBlockFile(index, S) \in [Blocks -> Entries]
         /\ \A x \in Blocks :
               LET e == PruneOneBlockFile(index, S)[x]
               IN  /\ e.pos # NoPos => e.pos = index[x].pos /\ e.undo = index[x].undo /\ e.pos[1] \notin S
                   /\ e.pos = NoPos => e.undo = NoPos \/ (index[x].pos = NoPos /\ e.undo = index[x].undo)
                   /\ e.nTx = index[x].nTx /\ e.known = index[x].known /\ e.witness = index[x].witness
                   /\ e.pos = NoPos => index[x].pos = NoPos \/ index[x].pos[1] \in S
                   /\ index[x].pos = NoPos => e = index[x]
<1>1. ASSUME NEW x \in Blocks
      PROVE  LET e == PruneOneBlockFile(index, S)[x]
             IN  /\ e \in Entries
                 /\ e.pos # NoPos => e.pos = index[x].pos /\ e.undo = index[x].undo /\ e.pos[1] \notin S
                 /\ e.pos = NoPos => e.undo = NoPos \/ (index[x].pos = NoPos /\ e.undo = index[x].undo)
                 /\ e.nTx = index[x].nTx /\ e.known = index[x].known /\ e.witness = index[x].witness
                 /\ e.pos = NoPos => index[x].pos = NoPos \/ index[x].pos[1] \in S
                 /\ index[x].pos = NoPos => e = index[x]
  <2>1. index[x] \in Entries
    OBVIOUS
  <2>2. CASE index[x].pos # NoPos /\ index[x].pos[1] \in S
    <3>1. PruneOneBlockFile(index, S)[x] = [index[x] EXCEPT !.pos = NoPos, !.undo = NoPos]
      BY <2>2 DEF PruneOneBlockFile
    <3>2. [index[x] EXCEPT !.pos = NoPos, !.undo = NoPos] \in Entries
      BY <2>1 DEF Entries
    <3> QED BY <2>1, <2>2, <3>1, <3>2 DEF Entries
  <2>3. CASE ~(index[x].pos # NoPos /\ index[x].pos[1] \in S)
    <3>1. PruneOneBlockFile(index, S)[x] = index[x]
      BY <2>3 DEF PruneOneBlockFile
    <3> QED BY <2>1, <2>3, <3>1
  <2> QED BY <2>2, <2>3
<1>2. PruneOneBlockFile(index, S) = [x \in Blocks |-> PruneOneBlockFile(index, S)[x]]
  BY DEF PruneOneBlockFile
<1>3. QED
  BY <1>1, <1>2

\* The first part of a flush: entries lose their place together with their undo
\* data, and the last pair of files is committed.
LEMMA FlushStartKeepsPlaces ==
  ASSUME PlaceInv, pc \notin {"down", "writeIndex"},
         NEW index \in [Blocks -> Entries], NEW dirty \in SUBSET Blocks,
         NEW full \in BOOLEAN, NEW prune \in SUBSET Files,
         NEW then \in {"idle", "flushed", "verify", "exit"},
         \A x \in Blocks : \/ index[x].pos = mapBlockIndex[x].pos /\ index[x].undo = mapBlockIndex[x].undo
                           \/ index[x].pos = NoPos /\ index[x].undo = NoPos,
         setDirtyBlockIndex \subseteq dirty,
         \A x \in Blocks : index[x] # mapBlockIndex[x] => x \in dirty,
         prune # {} => full, then = "verify" => full /\ prune = {},
         FlushStart(index, dirty, full, prune, then)
  PROVE  PlaceInv'
<1> DEFINE new == PruneOneBlockFile(index, prune)
<1>1. /\ mapBlockIndex' = new
      /\ vinfoBlockFile' = [f \in Files |-> IF f \in prune THEN EmptyFile ELSE vinfoBlockFile[f]]
      /\ setDirtyBlockIndex' = dirty \cup {x \in Blocks : new[x] # index[x]}
      /\ setDirtyFileInfo' = setDirtyFileInfo \cup prune
      /\ unsynced' = Committed(nLastBlockFile, unsynced)
      /\ flush' = [full |-> full, prune |-> prune, then |-> then]
      /\ pc' = "writeIndex"
      /\ UNCHANGED <<nLastBlockFile, tip, coinsTip, home, blk, rev, blockTree, coinsDB, kills>>
  BY DEF FlushStart
<1>2. /\ TypeOK /\ mapBlockIndex \in [Blocks -> Entries] /\ vinfoBlockFile \in [Files -> FileInfos]
      /\ Sized(mapBlockIndex, vinfoBlockFile) /\ UndoFits(mapBlockIndex, vinfoBlockFile)
      /\ UnusedEmpty(vinfoBlockFile, nLastBlockFile) /\ mapBlockIndex[Genesis].undo = NoPos
      /\ IndexPointsAtData /\ DataCommitted /\ LeftCommitted /\ CleanAgree /\ TipSet
  BY DEF PlaceInv, TypeOK, Placed
<1>3. new \in [Blocks -> Entries]
  BY PrunedEntries
<1>4. \A x \in Blocks :
        /\ new[x].pos # NoPos => /\ new[x].pos = mapBlockIndex[x].pos /\ new[x].undo = mapBlockIndex[x].undo
                                 /\ new[x].pos[1] \notin prune
        /\ new[x].pos = NoPos => new[x].undo = NoPos
  <2>1. TAKE x \in Blocks
  <2>2. mapBlockIndex[x].pos = NoPos => mapBlockIndex[x].undo = NoPos
    BY <1>2 DEF Sized
  <2> QED BY <2>2, PrunedEntries
<1>5. \A f \in Files : f \notin prune => vinfoBlockFile'[f] = vinfoBlockFile[f]
  BY <1>1
<1>6. \A f \in prune : vinfoBlockFile'[f].nSize = 0 /\ vinfoBlockFile'[f].nUndoSize = 0
                       /\ vinfoBlockFile'[f] = EmptyFile
  BY <1>1 DEF EmptyFile
<1>7. vinfoBlockFile' \in [Files -> FileInfos]
  <2>1. EmptyFile \in FileInfos
    BY StoreAssumption DEF EmptyFile, FileInfos
  <2> QED BY <1>1, <1>2, <2>1
<1> HIDE DEF new
<1>8. Sized(mapBlockIndex', vinfoBlockFile')
  <2>1. ASSUME NEW x \in Blocks
        PROVE  /\ new[x].pos # NoPos => new[x].pos[2] <= vinfoBlockFile'[new[x].pos[1]].nSize
               /\ new[x].undo # NoPos =>
                    /\ new[x].pos # NoPos /\ new[x].undo[1] = new[x].pos[1]
                    /\ new[x].undo[2] <= vinfoBlockFile'[new[x].undo[1]].nUndoSize
    <3>1. new[x].pos # NoPos => vinfoBlockFile'[new[x].pos[1]] = vinfoBlockFile[new[x].pos[1]]
      BY <1>3, <1>4, <1>5, EntryFacts
    <3> QED BY <1>2, <1>4, <3>1 DEF Sized
  <2> QED BY <1>1, <2>1 DEF Sized
<1>9. UndoFits(mapBlockIndex', vinfoBlockFile')
  <2>1. ASSUME NEW f \in Files
        PROVE  vinfoBlockFile'[f].nUndoSize + Cardinality(WithoutUndo(new, f)) <= vinfoBlockFile'[f].nSize
    <3>1. CASE f \in prune
      <4>1. WithoutUndo(new, f) = {}
        BY <1>4, <3>1 DEF WithoutUndo
      <4> QED BY <1>6, <3>1, <4>1, FS_EmptySet
    <3>2. CASE f \notin prune
      <4>1. WithoutUndo(new, f) \subseteq WithoutUndo(mapBlockIndex, f)
        BY <1>4 DEF WithoutUndo
      <4>2. /\ Cardinality(WithoutUndo(new, f)) <= Cardinality(WithoutUndo(mapBlockIndex, f))
            /\ Cardinality(WithoutUndo(new, f)) \in Nat /\ Cardinality(WithoutUndo(mapBlockIndex, f)) \in Nat
        BY <4>1, WithoutUndoFinite, FS_Subset
      <4>3. vinfoBlockFile[f].nUndoSize \in Nat /\ vinfoBlockFile[f].nSize \in Nat
        BY <1>2, StoreAssumption DEF FileInfos
      <4>4. vinfoBlockFile[f].nUndoSize + Cardinality(WithoutUndo(mapBlockIndex, f)) <= vinfoBlockFile[f].nSize
        BY <1>2 DEF UndoFits
      <4> QED BY <1>5, <3>2, <4>2, <4>3, <4>4
    <3> QED BY <3>1, <3>2
  <2> QED BY <1>1, <2>1 DEF UndoFits
<1>10. Placed(mapBlockIndex', vinfoBlockFile', nLastBlockFile')
  <2>1. UnusedEmpty(vinfoBlockFile', nLastBlockFile')
    BY <1>1, <1>2, <1>5, <1>6 DEF UnusedEmpty
  <2>2. mapBlockIndex'[Genesis].undo = NoPos
    BY <1>1, <1>2, <1>4, StoreAssumption
  <2> QED BY <1>8, <1>9, <2>1, <2>2 DEF Placed
<1>11. IndexPointsAtData'
  <2>1. Points(blockTree.index)'
    BY <1>1, <1>2 DEF IndexPointsAtData, Points
  <2>2. Points(mapBlockIndex)'
    BY <1>1, <1>2, <1>4 DEF IndexPointsAtData, Points
  <2> QED BY <2>1, <2>2 DEF IndexPointsAtData
<1>12. unsynced' \subseteq unsynced
  BY <1>1 DEF Committed
<1>13. DataCommitted' /\ LeftCommitted'
  <2>1. DataCommitted'
    BY <1>1, <1>2, <1>12 DEF DataCommitted
  <2>2. ASSUME NEW x \in Blocks, new[x].pos # NoPos PROVE <<"blk", new[x].pos>> \notin unsynced'
    <3>1. new[x].pos = mapBlockIndex[x].pos
      BY <1>4, <2>2
    <3>2. <<"blk", new[x].pos>> \in unsynced => new[x].pos[1] = nLastBlockFile
      BY <1>2, <2>2, <3>1 DEF LeftCommitted
    <3>3. unsynced' = {u \in unsynced : u[2][1] # nLastBlockFile}
      BY <1>1 DEF Committed
    <3> QED BY <3>2, <3>3
  <2> QED BY <1>1, <2>1, <2>2 DEF LeftCommitted
<1>14. CleanAgree'
  <2>1. \A x \in Blocks \ setDirtyBlockIndex' : blockTree.index[x] = new[x]
    BY <1>1, <1>2 DEF CleanAgree
  <2>2. \A f \in Files \ setDirtyFileInfo' : blockTree.files[f] = vinfoBlockFile'[f]
    BY <1>1, <1>2, <1>5 DEF CleanAgree
  <2> QED BY <1>1, <2>1, <2>2 DEF CleanAgree
<1>15. TypeOK'
  <2>1. flush' \in [full : BOOLEAN, prune : SUBSET Files, then : {"idle", "flushed", "verify", "exit"}]
    BY <1>1
  <2>2. setDirtyBlockIndex' \subseteq Blocks /\ setDirtyFileInfo' \subseteq Files
    BY <1>1, <1>2 DEF TypeOK
  <2>3. unsynced' \subseteq {"blk", "rev"} \X Places
    BY <1>2, <1>12 DEF TypeOK
  <2> QED BY <1>1, <1>2, <1>3, <1>7, <2>1, <2>2, <2>3 DEF TypeOK
<1>16. FlushShape' /\ PrunedGone' /\ TipSet' /\ NotReused'
  <2>1. flush'.full = full /\ flush'.prune = prune /\ flush'.then = then
    BY <1>1
  <2>2. FlushShape'
    BY <1>1, <2>1 DEF FlushShape
  <2>3. PrunedGone'
    BY <1>1, <1>4, <2>1 DEF PrunedGone
  <2> QED BY <1>1, <1>2, <2>2, <2>3 DEF TipSet, NotReused
<1>17. Placed(blockTree.index, blockTree.files, blockTree.last)'
  BY <1>1 DEF PlaceInv, Placed, Sized, UndoFits, UnusedEmpty, WithoutUndo
<1>18. QED
  BY <1>10, <1>11, <1>13, <1>14, <1>15, <1>16, <1>17 DEF PlaceInv

\* The flushes of a node that runs, of Shutdown and of RewindBlockIndex.
LEMMA FlushesKeepPlaces ==
  ASSUME PlaceInv,
         \/ \E full \in BOOLEAN, prune \in SUBSET Files : FlushStateToDisk(full, prune)
         \/ Shutdown
         \/ RewindBlockIndex
  PROVE  PlaceInv'
<1>1. /\ mapBlockIndex \in [Blocks -> Entries] /\ setDirtyBlockIndex \in SUBSET Blocks
      /\ \A x \in Blocks : mapBlockIndex[x].undo # NoPos => mapBlockIndex[x].pos # NoPos
  BY DEF PlaceInv, TypeOK, Placed, Sized
<1>2. CASE \E full \in BOOLEAN, prune \in SUBSET Files : FlushStateToDisk(full, prune)
  <2>1. PICK full \in BOOLEAN, prune \in SUBSET Files : FlushStateToDisk(full, prune)
    BY <1>2
  <2>2. /\ pc \in {"idle", "updateTip"} /\ (prune # {} => full)
        /\ FlushStart(mapBlockIndex, setDirtyBlockIndex, full, prune, IF pc = "idle" THEN "idle" ELSE "flushed")
    BY <2>1 DEF FlushStateToDisk
  <2>3. CASE pc = "idle"
    BY <1>1, <2>2, <2>3, FlushStartKeepsPlaces
  <2>4. CASE pc # "idle"
    BY <1>1, <2>2, <2>4, FlushStartKeepsPlaces
  <2> QED BY <2>3, <2>4
<1>3. CASE Shutdown
  <2>1. pc \in {"idle", "abort"} /\ FlushStart(mapBlockIndex, setDirtyBlockIndex, TRUE, {}, "exit")
    BY <1>3 DEF Shutdown
  <2> QED BY <1>1, <2>1, FlushStartKeepsPlaces
<1>4. CASE RewindBlockIndex
  <2> DEFINE dirty == setDirtyBlockIndex \cup {x \in Blocks : ReducedIndex[x] # mapBlockIndex[x]}
  <2>1. pc = "rewind" /\ FlushStart(ReducedIndex, dirty, TRUE, {}, "verify")
    BY <1>4 DEF RewindBlockIndex
  <2>2. HeaderEntry \in Entries /\ HeaderEntry.pos = NoPos /\ HeaderEntry.undo = NoPos
    BY DEF HeaderEntry, UnknownEntry, Entries
  <2>3. \A x \in Blocks : ReducedIndex[x] \in {HeaderEntry, mapBlockIndex[x]}
    BY DEF ReducedIndex
  <2>4. ReducedIndex \in [Blocks -> Entries]
    <3>1. ReducedIndex = [x \in Blocks |-> ReducedIndex[x]]
      BY DEF ReducedIndex
    <3> QED BY <1>1, <2>2, <2>3, <3>1
  <2>5. \A x \in Blocks :
           \/ ReducedIndex[x].pos = mapBlockIndex[x].pos /\ ReducedIndex[x].undo = mapBlockIndex[x].undo
           \/ ReducedIndex[x].pos = NoPos /\ ReducedIndex[x].undo = NoPos
    BY <2>2, <2>3
  <2>6. /\ dirty \in SUBSET Blocks /\ setDirtyBlockIndex \subseteq dirty
        /\ \A x \in Blocks : ReducedIndex[x] # mapBlockIndex[x] => x \in dirty
    BY <1>1
  <2> HIDE DEF dirty
  <2> QED BY <2>1, <2>4, <2>5, <2>6, FlushStartKeepsPlaces
<1>5. QED
  BY <1>2, <1>3, <1>4

\* What comes after the write of the index or after the unlinking of files.
LEMMA AfterIndexShape ==
  ASSUME TypeOK, FlushShape, AfterIndex
  PROVE  /\ pc' \in {"idle", "flushed", "verify", "exit", "flushCoins"}
         /\ FlushShape'
         /\ flush' \in [full : BOOLEAN, prune : SUBSET Files,
                        then : {"idle", "flushed", "verify", "exit"}]
         /\ pc' = "flushCoins" => flush' = flush /\ flush.full
         /\ pc' # "flushCoins" => pc' = flush.then /\ flush' = NoFlush /\ ~flush.full
<1>1. flush.full \in BOOLEAN /\ flush.then \in {"idle", "flushed", "verify", "exit"}
  BY DEF TypeOK
<1>2. NoFlush \in [full : BOOLEAN, prune : SUBSET Files, then : {"idle", "flushed", "verify", "exit"}]
      /\ NoFlush.prune = {} /\ NoFlush.then = "idle"
  BY DEF NoFlush
<1>3. CASE flush.full
  <2>1. pc' = "flushCoins" /\ flush' = flush
    BY <1>3 DEF AfterIndex
  <2> QED BY <1>3, <2>1 DEF FlushShape, TypeOK
<1>4. CASE ~flush.full
  <2>1. pc' = flush.then /\ flush' = NoFlush
    BY <1>4 DEF AfterIndex
  <2> QED BY <1>1, <1>2, <1>4, <2>1 DEF FlushShape
<1>5. QED
  BY <1>1, <1>3, <1>4

\* The index database becomes what is in memory.
LEMMA WriteKeepsPlaces ==
  ASSUME PlaceInv, WriteBatchSync
  PROVE  PlaceInv'
<1>1. /\ pc = "writeIndex"
      /\ setDirtyBlockIndex' = {} /\ setDirtyFileInfo' = {}
      /\ IF flush.prune # {} THEN pc' = "unlink" /\ UNCHANGED flush ELSE AfterIndex
      /\ UNCHANGED <<mapBlockIndex, vinfoBlockFile, nLastBlockFile, tip, coinsTip, home,
                     blk, rev, unsynced, coinsDB, kills>>
  BY DEF WriteBatchSync, files
<1>2. /\ TypeOK /\ mapBlockIndex \in [Blocks -> Entries] /\ vinfoBlockFile \in [Files -> FileInfos]
      /\ nLastBlockFile \in Files
      /\ CleanAgree /\ FlushShape /\ PrunedGone /\ LeftCommitted /\ TipSet
      /\ Placed(mapBlockIndex, vinfoBlockFile, nLastBlockFile) /\ Points(mapBlockIndex)
  BY DEF PlaceInv, TypeOK, IndexPointsAtData
<1>3. blockTree'.index = mapBlockIndex /\ blockTree'.files = vinfoBlockFile /\ blockTree'.last = nLastBlockFile
  <2>1. blockTree'.index = [b \in Blocks |-> IF b \in setDirtyBlockIndex THEN mapBlockIndex[b]
                                             ELSE blockTree.index[b]]
    BY DEF WriteBatchSync
  <2>2. blockTree'.files = [f \in Files |-> IF f \in setDirtyFileInfo THEN vinfoBlockFile[f]
                                            ELSE blockTree.files[f]]
    BY DEF WriteBatchSync
  <2>3. blockTree'.last = nLastBlockFile
    BY DEF WriteBatchSync
  <2>4. \A b \in Blocks : b \notin setDirtyBlockIndex => blockTree.index[b] = mapBlockIndex[b]
    BY <1>1, <1>2 DEF CleanAgree
  <2>5. \A f \in Files : f \notin setDirtyFileInfo => blockTree.files[f] = vinfoBlockFile[f]
    BY <1>1, <1>2 DEF CleanAgree
  <2>6. blockTree'.index = mapBlockIndex
    BY <1>2, <2>1, <2>4
  <2>7. blockTree'.files = vinfoBlockFile
    BY <1>2, <2>2, <2>5
  <2> QED BY <2>3, <2>6, <2>7
<1>4. blockTree' \in [index : [Blocks -> Entries], files : [Files -> FileInfos], last : Files]
  <2>1. blockTree' = [index |-> blockTree'.index, files |-> blockTree'.files, last |-> blockTree'.last]
    BY DEF WriteBatchSync
  <2> QED BY <1>2, <1>3, <2>1
<1>5. /\ pc' \in {"idle", "flushed", "verify", "exit", "flushCoins", "unlink"} /\ FlushShape'
      /\ flush' \in [full : BOOLEAN, prune : SUBSET Files, then : {"idle", "flushed", "verify", "exit"}]
      /\ pc' = "unlink" => flush' = flush
  <2>1. CASE flush.prune # {}
    BY <1>1, <1>2, <2>1 DEF FlushShape, TypeOK
  <2>2. CASE flush.prune = {}
    BY <1>1, <1>2, <2>2, AfterIndexShape
  <2> QED BY <2>1, <2>2
<1>6. TypeOK'
  BY <1>1, <1>2, <1>4, <1>5 DEF TypeOK
<1>7. /\ Placed(mapBlockIndex, vinfoBlockFile, nLastBlockFile)'
      /\ Placed(blockTree.index, blockTree.files, blockTree.last)'
      /\ Sized(blockTree.index, vinfoBlockFile)'
  <2>1. Placed(mapBlockIndex', vinfoBlockFile', nLastBlockFile')
    BY <1>1, <1>2
  <2>2. Placed(blockTree'.index, blockTree'.files, blockTree'.last)
    BY <1>2, <1>3
  <2>3. Sized(blockTree'.index, vinfoBlockFile')
    BY <1>1, <1>2, <1>3 DEF Placed
  <2> QED BY <2>1, <2>2, <2>3
<1>8. IndexPointsAtData'
  BY <1>1, <1>2, <1>3 DEF IndexPointsAtData, Points
<1>9. DataCommitted' /\ LeftCommitted'
  BY <1>1, <1>2, <1>3, <1>5 DEF DataCommitted, LeftCommitted
<1>10. CleanAgree'
  BY <1>1, <1>3 DEF CleanAgree
<1>11. PrunedGone' /\ TipSet' /\ NotReused'
  BY <1>1, <1>2, <1>5, <1>7 DEF PrunedGone, TipSet, NotReused
<1>12. QED
  BY <1>5, <1>6, <1>7, <1>8, <1>9, <1>10, <1>11 DEF PlaceInv

\* Files are removed that neither index refers to.
LEMMA UnlinkKeepsPlaces ==
  ASSUME PlaceInv, UnlinkPrunedFiles
  PROVE  PlaceInv'
<1>1. /\ pc = "unlink" /\ AfterIndex
      /\ blk' = [p \in Places |-> IF p[1] \in flush.prune THEN NoBlock ELSE blk[p]]
      /\ rev' = [p \in Places |-> IF p[1] \in flush.prune THEN NoBlock ELSE rev[p]]
      /\ unsynced' = {u \in unsynced : u[2][1] \notin flush.prune}
      /\ UNCHANGED <<mapBlockIndex, vinfoBlockFile, nLastBlockFile, setDirtyBlockIndex,
                     setDirtyFileInfo, tip, coinsTip, home, blockTree, coinsDB, kills>>
  BY DEF UnlinkPrunedFiles, memory
<1>2. /\ TypeOK /\ mapBlockIndex \in [Blocks -> Entries] /\ blockTree.index \in [Blocks -> Entries]
      /\ blk \in [Places -> Blocks \cup {NoBlock}] /\ rev \in [Places -> Blocks \cup {NoBlock}]
      /\ CleanAgree /\ FlushShape /\ PrunedGone /\ LeftCommitted /\ TipSet /\ NotReused /\ DataCommitted
      /\ Sized(mapBlockIndex, vinfoBlockFile) /\ IndexPointsAtData
  BY DEF PlaceInv, TypeOK, Placed
<1>3. /\ pc' \in {"idle", "flushed", "verify", "exit", "flushCoins"} /\ FlushShape'
      /\ flush' \in [full : BOOLEAN, prune : SUBSET Files, then : {"idle", "flushed", "verify", "exit"}]
  BY <1>1, <1>2, AfterIndexShape
<1>4. unsynced' \subseteq unsynced
  BY <1>1
<1>5. TypeOK'
  <2>1. unsynced' \subseteq {"blk", "rev"} \X Places
    BY <1>2, <1>4 DEF TypeOK
  <2>2. blk' \in [Places -> Blocks \cup {NoBlock}] /\ rev' \in [Places -> Blocks \cup {NoBlock}]
    BY <1>1, <1>2
  <2> QED BY <1>1, <1>2, <1>3, <2>1, <2>2 DEF TypeOK
<1>6. \A b \in Blocks : blockTree.index[b] = mapBlockIndex[b]
  BY <1>1, <1>2 DEF CleanAgree
<1>7. Points(mapBlockIndex)'
  <2>1. ASSUME NEW b \in Blocks, mapBlockIndex[b].pos # NoPos PROVE blk'[mapBlockIndex[b].pos] = b
    <3>1. mapBlockIndex[b].pos \in Places /\ mapBlockIndex[b].pos[1] \notin flush.prune
      BY <1>1, <1>2, <2>1, EntryFacts DEF PrunedGone
    <3> QED BY <1>1, <1>2, <2>1, <3>1 DEF IndexPointsAtData, Points
  <2>2. ASSUME NEW b \in Blocks, mapBlockIndex[b].undo # NoPos PROVE rev'[mapBlockIndex[b].undo] = b
    <3>1. mapBlockIndex[b].undo \in Places /\ mapBlockIndex[b].undo[1] \notin flush.prune
      BY <1>1, <1>2, <2>2, EntryFacts DEF PrunedGone, Sized
    <3> QED BY <1>1, <1>2, <2>2, <3>1 DEF IndexPointsAtData, Points
  <2> QED BY <1>1, <2>1, <2>2 DEF Points
<1>8. IndexPointsAtData'
  BY <1>1, <1>6, <1>7 DEF IndexPointsAtData, Points
<1>9. DataCommitted' /\ LeftCommitted' /\ CleanAgree' /\ PrunedGone' /\ TipSet'
  <2>1. DataCommitted' /\ LeftCommitted'
    BY <1>1, <1>2, <1>3, <1>4 DEF DataCommitted, LeftCommitted
  <2> QED BY <1>1, <1>2, <1>3, <2>1 DEF CleanAgree, PrunedGone, TipSet
<1>10. NotReused' /\ Placed(mapBlockIndex, vinfoBlockFile, nLastBlockFile)'
       /\ Placed(blockTree.index, blockTree.files, blockTree.last)'
  <2>1. Sized(blockTree.index, vinfoBlockFile)
    BY <1>1, <1>2 DEF NotReused
  <2>2. Sized(blockTree.index, vinfoBlockFile)'
    BY <1>1, <2>1 DEF Sized
  <2> QED BY <1>1, <2>2 DEF PlaceInv, NotReused, Placed, Sized, UndoFits, UnusedEmpty, WithoutUndo
<1>11. QED
  BY <1>3, <1>5, <1>8, <1>9, <1>10 DEF PlaceInv

\* The coins are written.
LEMMA FlushCoinsKeepsPlaces ==
  ASSUME PlaceInv, FlushCoins
  PROVE  PlaceInv'
<1>1. /\ pc = "flushCoins" /\ coinsDB' = coinsTip /\ pc' = flush.then /\ flush' = NoFlush
      /\ UNCHANGED <<mapBlockIndex, vinfoBlockFile, nLastBlockFile, setDirtyBlockIndex,
                     setDirtyFileInfo, tip, coinsTip, home, blk, rev, unsynced, blockTree, kills>>
  BY DEF FlushCoins, memory, files
<1>2. /\ TypeOK /\ CleanAgree /\ LeftCommitted /\ NotReused /\ TipSet
      /\ flush.then \in {"idle", "flushed", "verify", "exit"} /\ coinsTip \in Blocks
  BY <1>1 DEF PlaceInv, TypeOK, TipSet
<1>3. NoFlush \in [full : BOOLEAN, prune : SUBSET Files, then : {"idle", "flushed", "verify", "exit"}]
      /\ NoFlush.prune = {} /\ NoFlush.then = "idle"
  BY DEF NoFlush
<1>4. TypeOK'
  BY <1>1, <1>2, <1>3 DEF TypeOK
<1>5. FlushShape' /\ PrunedGone' /\ TipSet'
  BY <1>1, <1>2, <1>3 DEF FlushShape, PrunedGone, TipSet
<1>6. CleanAgree' /\ LeftCommitted'
  BY <1>1, <1>2 DEF CleanAgree, LeftCommitted
<1>7. NotReused'
  BY <1>1, <1>2 DEF NotReused, Sized
<1>8. QED
  BY <1>1, <1>4, <1>5, <1>6, <1>7, SamePlaces DEF PlaceInv

\* The process ends: what it kept in memory is gone, what is on disk stays.
LEMMA ForgetKeepsPlaces ==
  ASSUME PlaceInv, Forget, UNCHANGED <<blk, rev, unsynced, blockTree, coinsDB>>,
         kills' \in 0..MaxKills
  PROVE  PlaceInv'
<1>1. /\ mapBlockIndex' = [b \in Blocks |-> UnknownEntry] /\ vinfoBlockFile' = [f \in Files |-> EmptyFile]
      /\ nLastBlockFile' = 0 /\ setDirtyBlockIndex' = {} /\ setDirtyFileInfo' = {}
      /\ tip' = NoBlock /\ coinsTip' = NoBlock /\ home' = "rewind" /\ flush' = NoFlush /\ pc' = "down"
  BY DEF Forget
<1>2. /\ \A b \in Blocks : mapBlockIndex'[b].pos = NoPos /\ mapBlockIndex'[b].undo = NoPos
      /\ \A f \in Files : /\ vinfoBlockFile'[f] = EmptyFile /\ vinfoBlockFile'[f].nSize = 0
                          /\ vinfoBlockFile'[f].nUndoSize = 0
  BY <1>1 DEF UnknownEntry, EmptyFile
<1>3. TypeOK'
  <2>1. UnknownEntry \in Entries /\ EmptyFile \in FileInfos /\ 0 \in Files
    BY StoreAssumption DEF UnknownEntry, Entries, EmptyFile, FileInfos, Files
  <2>2. NoFlush \in [full : BOOLEAN, prune : SUBSET Files, then : {"idle", "flushed", "verify", "exit"}]
    BY DEF NoFlush
  <2>3. mapBlockIndex' \in [Blocks -> Entries] /\ vinfoBlockFile' \in [Files -> FileInfos]
    BY <1>1, <2>1
  <2>4. /\ blk' \in [Places -> Blocks \cup {NoBlock}] /\ rev' \in [Places -> Blocks \cup {NoBlock}]
        /\ unsynced' \subseteq {"blk", "rev"} \X Places
        /\ blockTree' \in [index : [Blocks -> Entries], files : [Files -> FileInfos], last : Files]
        /\ coinsDB' \in Blocks
    BY DEF PlaceInv, TypeOK
  <2> QED BY <1>1, <2>1, <2>2, <2>3, <2>4 DEF TypeOK
<1>4. Placed(mapBlockIndex, vinfoBlockFile, nLastBlockFile)'
  <2>1. Sized(mapBlockIndex', vinfoBlockFile')
    BY <1>2 DEF Sized
  <2>2. UndoFits(mapBlockIndex', vinfoBlockFile')
    <3>1. \A f \in Files : WithoutUndo(mapBlockIndex', f) = {}
      BY <1>2 DEF WithoutUndo
    <3>2. Cardinality({}) = 0
      BY FS_EmptySet
    <3>3. ASSUME NEW f \in Files
          PROVE  vinfoBlockFile'[f].nUndoSize + Cardinality(WithoutUndo(mapBlockIndex', f))
                    <= vinfoBlockFile'[f].nSize
      <4>1. Cardinality(WithoutUndo(mapBlockIndex', f)) = 0
        BY <3>1, <3>2
      <4>2. vinfoBlockFile'[f].nUndoSize = 0 /\ vinfoBlockFile'[f].nSize = 0
        BY <1>2
      <4> QED BY <4>1, <4>2
    <3> QED BY <3>3 DEF UndoFits
  <2>3. UnusedEmpty(vinfoBlockFile', nLastBlockFile') /\ mapBlockIndex'[Genesis].undo = NoPos
    BY <1>2, StoreAssumption DEF UnusedEmpty
  <2> QED BY <2>1, <2>2, <2>3 DEF Placed
<1>5. Placed(blockTree.index, blockTree.files, blockTree.last)'
  BY DEF PlaceInv, Placed, Sized, UndoFits, UnusedEmpty, WithoutUndo
<1>6. IndexPointsAtData' /\ DataCommitted' /\ LeftCommitted'
  BY <1>2 DEF PlaceInv, IndexPointsAtData, Points, DataCommitted, LeftCommitted
<1>7. NotReused' /\ CleanAgree' /\ FlushShape' /\ PrunedGone' /\ TipSet'
  <2>1. NoFlush.prune = {} /\ NoFlush.then = "idle"
    BY DEF NoFlush
  <2> QED BY <1>1, <2>1 DEF NotReused, CleanAgree, FlushShape, PrunedGone, TipSet
<1>8. QED
  BY <1>3, <1>4, <1>5, <1>6, <1>7 DEF PlaceInv

\* The process starts: memory becomes what is on disk.
LEMMA LoadKeepsPlaces ==
  ASSUME PlaceInv, LoadBlockIndexDB
  PROVE  PlaceInv'
<1>1. /\ pc = "down" /\ pc' \in {"rewind", "refused"} /\ tip' = coinsDB /\ coinsTip' = coinsDB
      /\ mapBlockIndex' = blockTree.index /\ vinfoBlockFile' = blockTree.files
      /\ nLastBlockFile' = blockTree.last
      /\ UNCHANGED <<setDirtyBlockIndex, setDirtyFileInfo, home, flush, blk, rev, unsynced, blockTree,
                     coinsDB, kills>>
  BY DEF LoadBlockIndexDB, files
<1>2. /\ TypeOK /\ CleanAgree /\ FlushShape /\ IndexPointsAtData /\ DataCommitted
      /\ Placed(blockTree.index, blockTree.files, blockTree.last)
      /\ coinsDB \in Blocks
      /\ blockTree.index \in [Blocks -> Entries] /\ blockTree.files \in [Files -> FileInfos]
      /\ blockTree.last \in Files
  BY DEF PlaceInv, TypeOK
<1>3. TypeOK'
  BY <1>1, <1>2 DEF TypeOK
<1>4. /\ Placed(mapBlockIndex, vinfoBlockFile, nLastBlockFile)'
      /\ Placed(blockTree.index, blockTree.files, blockTree.last)'
      /\ NotReused'
  <2>1. Sized(blockTree.index, blockTree.files)
    BY <1>2 DEF Placed
  <2>2. Placed(mapBlockIndex', vinfoBlockFile', nLastBlockFile')
    BY <1>1, <1>2
  <2>3. Placed(blockTree'.index, blockTree'.files, blockTree'.last) /\ Sized(blockTree'.index, vinfoBlockFile')
    BY <1>1, <1>2, <2>1
  <2> QED BY <2>2, <2>3 DEF NotReused
<1>5. IndexPointsAtData' /\ DataCommitted' /\ LeftCommitted'
  BY <1>1, <1>2 DEF IndexPointsAtData, Points, DataCommitted, LeftCommitted
<1>6. CleanAgree' /\ FlushShape' /\ PrunedGone' /\ TipSet'
  BY <1>1, <1>2 DEF CleanAgree, FlushShape, PrunedGone, TipSet
<1>7. QED
  BY <1>3, <1>4, <1>5, <1>6 DEF PlaceInv

-----------------------------------------------------------------------------
(* The database of the old client                                          *)

\* The blocks of the old client in the order of their places.
LEMMA StoredFacts ==
  /\ Len(OldChain) \in Nat /\ DOMAIN OldChain = 1..Len(OldChain)
  /\ Len(Stored) = Len(OldChain) + 1 /\ DOMAIN Stored = 1..(Len(OldChain) + 1)
  /\ Len(Stored) <= FileSlots
  /\ Stored[1] = Genesis
  /\ \A i \in DOMAIN OldChain : Stored[i + 1] = OldChain[i] /\ OldChain[i] \in Blocks \ {Genesis}
  /\ \A i \in DOMAIN Stored : Stored[i] \in Blocks /\ (i # 1 => i - 1 \in DOMAIN OldChain
                                                               /\ Stored[i] = OldChain[i - 1])
  /\ \A i, j \in DOMAIN Stored : Stored[i] = Stored[j] => i = j
  /\ ToSet(Stored) = {Stored[i] : i \in DOMAIN Stored}
  /\ Last(Stored) = Stored[Len(Stored)]
<1>1. OldChain \in Seq(Blocks \ {Genesis}) /\ Len(OldChain) \in Nat /\ DOMAIN OldChain = 1..Len(OldChain)
  BY OldChainAssumption
<1>2. Len(Stored) = Len(OldChain) + 1 /\ DOMAIN Stored = 1..(Len(OldChain) + 1)
  BY <1>1 DEF Stored
<1>3. Len(Stored) <= FileSlots
  BY <1>1, <1>2, OldChainAssumption, StoreAssumption
<1>4. Stored[1] = Genesis
  BY <1>1 DEF Stored
<1>5. \A i \in DOMAIN OldChain : Stored[i + 1] = OldChain[i] /\ OldChain[i] \in Blocks \ {Genesis}
  BY <1>1 DEF Stored
<1>6. \A i \in DOMAIN Stored : Stored[i] \in Blocks /\ (i # 1 => i - 1 \in DOMAIN OldChain
                                                                 /\ Stored[i] = OldChain[i - 1])
  <2>1. ASSUME NEW i \in DOMAIN Stored, i # 1 PROVE i - 1 \in DOMAIN OldChain /\ Stored[i] = OldChain[i - 1]
    <3>1. i - 1 \in DOMAIN OldChain /\ (i - 1) + 1 = i
      BY <1>1, <1>2, <2>1
    <3> QED BY <1>5, <3>1
  <2> QED BY <1>4, <1>5, <2>1, StoreAssumption
<1>7. \A i, j \in DOMAIN Stored : Stored[i] = Stored[j] => i = j
  <2>1. ASSUME NEW i \in DOMAIN Stored, NEW j \in DOMAIN Stored, Stored[i] = Stored[j] PROVE i = j
    <3>1. CASE i = 1 \/ j = 1
      BY <1>4, <1>5, <1>6, <2>1, <3>1
    <3>2. CASE i # 1 /\ j # 1
      <4>1. i - 1 = j - 1
        BY <1>6, <2>1, <3>2, OldChainAssumption
      <4> QED BY <1>2, <4>1
    <3> QED BY <3>1, <3>2
  <2> QED BY <2>1
<1>8. ToSet(Stored) = {Stored[i] : i \in DOMAIN Stored}
  BY DEF ToSet
<1>9. Last(Stored) = Stored[Len(Stored)]
  BY DEF Last
<1>10. QED
  BY <1>1, <1>2, <1>3, <1>4, <1>5, <1>6, <1>7, <1>8, <1>9

\* The entry of a block of the old client.
LEMMA OldEntryFacts ==
  ASSUME NEW b \in ToSet(Stored)
  PROVE  \E i \in DOMAIN Stored :
            /\ Stored[i] = b /\ OldEntry(b) \in Entries
            /\ OldEntry(b).known /\ OldEntry(b).nTx
            /\ OldEntry(b).pos = <<0, i>> /\ <<0, i>> \in Places /\ <<0, i>> # NoPos
            /\ b = Genesis => OldEntry(b).undo = NoPos
            /\ b # Genesis => /\ OldEntry(b).undo = <<0, i - 1>> /\ <<0, i - 1>> \in Places
                              /\ <<0, i - 1>> # NoPos /\ i - 1 \in DOMAIN OldChain /\ OldChain[i - 1] = b
<1> DEFINE i == CHOOSE i \in DOMAIN Stored : Stored[i] = b
<1>1. \E k \in DOMAIN Stored : Stored[k] = b
  BY StoredFacts
<1>2. i \in DOMAIN Stored /\ Stored[i] = b
  BY <1>1
<1>3. OldEntry(b) = [known |-> TRUE, nTx |-> TRUE, pos |-> <<0, i>>,
                     undo |-> IF b = Genesis THEN NoPos ELSE <<0, i - 1>>, witness |-> FALSE]
  BY DEF OldEntry
<1> HIDE DEF i
<1>4. 0 \in Files /\ i \in Slots /\ i \in 1..FileSlots
  BY <1>2, StoredFacts, StoreAssumption DEF Files, Slots
<1>5. <<0, i>> \in Places /\ <<0, i>> # NoPos
  BY <1>4, StoreAssumption DEF Places
<1>6. ASSUME b # Genesis
      PROVE  /\ <<0, i - 1>> \in Places /\ <<0, i - 1>> # NoPos
             /\ i - 1 \in DOMAIN OldChain /\ OldChain[i - 1] = b
  <2>1. i - 1 \in DOMAIN OldChain /\ OldChain[i - 1] = b
    BY <1>2, <1>6, StoredFacts
  <2>2. i - 1 \in Slots
    BY <2>1, StoredFacts, OldChainAssumption, StoreAssumption DEF Slots
  <2> QED BY <1>4, <2>1, <2>2, StoreAssumption DEF Places
<1>7. OldEntry(b) \in Entries
  BY <1>3, <1>5, <1>6 DEF Entries
<1>8. /\ OldEntry(b).known /\ OldEntry(b).nTx /\ OldEntry(b).pos = <<0, i>>
      /\ b = Genesis => OldEntry(b).undo = NoPos
      /\ b # Genesis => OldEntry(b).undo = <<0, i - 1>>
  BY <1>3
<1>9. QED
  BY <1>2, <1>5, <1>6, <1>7, <1>8

\* The state a process starts from the first time.
LEMMA InitPlaces == Init => PlaceInv
<1> SUFFICES ASSUME Init PROVE PlaceInv
  OBVIOUS
<1> DEFINE index == [b \in Blocks |-> IF b \in ToSet(Stored) THEN OldEntry(b) ELSE UnknownEntry]
           top == Max({Height(b) : b \in ToSet(Stored)})
           infos == [f \in Files |-> IF f > 0 THEN EmptyFile ELSE
                         [nSize |-> Len(Stored), nUndoSize |-> Len(OldChain), nHeightLast |-> top]]
<1>1. /\ mapBlockIndex = [b \in Blocks |-> UnknownEntry] /\ vinfoBlockFile = [f \in Files |-> EmptyFile]
      /\ nLastBlockFile = 0 /\ setDirtyBlockIndex = {} /\ setDirtyFileInfo = {}
      /\ tip = NoBlock /\ coinsTip = NoBlock /\ pc = "down" /\ home = "rewind" /\ flush = NoFlush
      /\ unsynced = {} /\ blockTree = [index |-> index, files |-> infos, last |-> 0]
      /\ coinsDB = Last(Stored) /\ kills = 0
  BY DEF Init
<1>2. /\ blk = [p \in Places |-> IF p[1] = 0 /\ p[2] \in DOMAIN Stored THEN Stored[p[2]] ELSE NoBlock]
      /\ rev = [p \in Places |-> IF p[1] = 0 /\ p[2] \in DOMAIN OldChain THEN OldChain[p[2]] ELSE NoBlock]
  BY DEF Init
<1>3. ToSet(Stored) \subseteq Blocks /\ Genesis \in ToSet(Stored) /\ Last(Stored) \in Blocks
  BY StoredFacts
<1>4. top \in Nat
  <2> DEFINE S == {Height(b) : b \in ToSet(Stored)}
             n == Cardinality(Blocks)
  <2>1. n \in Nat
    BY AncestryAssumption, FS_CardinalityType
  <2>2. \A b \in Blocks : Height(b) \in Nat /\ Height(b) <= n
    <3>1. TAKE b \in Blocks
    <3>2. AncestorsOrSelf[b] \subseteq Blocks /\ Height(b) \in Nat
      BY TreeFacts
    <3>3. /\ Cardinality(AncestorsOrSelf[b]) <= n /\ Cardinality(AncestorsOrSelf[b]) \in Nat
      BY <3>2, AncestryAssumption, FS_Subset, FS_CardinalityType
    <3> HIDE DEF n
    <3> QED BY <2>1, <3>2, <3>3 DEF Height
  <2>3. S \in SUBSET Nat /\ S # {} /\ \A x \in S : x <= n
    BY <1>3, <2>2
  <2>4. top = Max(S)
    OBVIOUS
  <2> HIDE DEF S, n, top
  <2> QED BY <2>1, <2>3, <2>4, MaxOfBounded
<1> HIDE DEF top
<1>5. /\ \A f \in Files : f # 0 => infos[f] = EmptyFile
      /\ 0 \in Files /\ infos[0].nSize = Len(Stored) /\ infos[0].nUndoSize = Len(OldChain)
      /\ \A f \in Files : f \in Nat
  BY StoreAssumption DEF Files
<1>6. infos \in [Files -> FileInfos]
  <2>1. EmptyFile \in FileInfos
    BY StoreAssumption DEF EmptyFile, FileInfos
  <2>2. Len(Stored) \in 0..FileSlots /\ Len(OldChain) \in 0..FileSlots
    BY StoredFacts, StoreAssumption
  <2>3. [nSize |-> Len(Stored), nUndoSize |-> Len(OldChain), nHeightLast |-> top] \in FileInfos
    BY <1>4, <2>2 DEF FileInfos
  <2> QED BY <2>1, <2>3
<1>7. UnknownEntry \in Entries /\ UnknownEntry.pos = NoPos /\ UnknownEntry.undo = NoPos
  BY DEF UnknownEntry, Entries
<1>8. index \in [Blocks -> Entries]
  <2>1. \A b \in ToSet(Stored) : OldEntry(b) \in Entries
    BY OldEntryFacts
  <2> QED BY <1>7, <2>1
<1>9. ASSUME NEW b \in Blocks, index[b].pos # NoPos \/ index[b].undo # NoPos
      PROVE  \E i \in DOMAIN Stored :
                /\ Stored[i] = b /\ index[b].pos = <<0, i>> /\ index[b].pos \in Places /\ index[b].pos # NoPos
                /\ b = Genesis => index[b].undo = NoPos
                /\ b # Genesis => /\ index[b].undo = <<0, i - 1>> /\ index[b].undo \in Places
                                  /\ index[b].undo # NoPos /\ i - 1 \in DOMAIN OldChain /\ OldChain[i - 1] = b
  <2>1. b \in ToSet(Stored) /\ index[b] = OldEntry(b)
    BY <1>7, <1>9
  <2>2. PICK i \in DOMAIN Stored :
            /\ Stored[i] = b
            /\ OldEntry(b).pos = <<0, i>> /\ <<0, i>> \in Places /\ <<0, i>> # NoPos
            /\ b = Genesis => OldEntry(b).undo = NoPos
            /\ b # Genesis => /\ OldEntry(b).undo = <<0, i - 1>> /\ <<0, i - 1>> \in Places
                              /\ <<0, i - 1>> # NoPos /\ i - 1 \in DOMAIN OldChain /\ OldChain[i - 1] = b
    BY <2>1, OldEntryFacts
  <2> HIDE DEF index
  <2> QED BY <2>1, <2>2
<1>10. index[Genesis].undo = NoPos
  <2>1. index[Genesis] = OldEntry(Genesis)
    BY <1>3, StoreAssumption
  <2> QED BY <1>3, <2>1, OldEntryFacts
<1> HIDE DEF index, infos
<1>11. /\ \A b \in Blocks : mapBlockIndex[b].pos = NoPos /\ mapBlockIndex[b].undo = NoPos
       /\ \A f \in Files : vinfoBlockFile[f] = EmptyFile
       /\ EmptyFile.nSize = 0 /\ EmptyFile.nUndoSize = 0
  BY <1>1, <1>7 DEF EmptyFile
<1>12. blockTree.index = index /\ blockTree.files = infos /\ blockTree.last = 0
  BY <1>1
<1>13. TypeOK
  <2>1. UnknownEntry \in Entries /\ EmptyFile \in FileInfos /\ 0 \in Files
    BY <1>7, StoreAssumption DEF EmptyFile, FileInfos, Files
  <2>2. mapBlockIndex \in [Blocks -> Entries] /\ vinfoBlockFile \in [Files -> FileInfos]
    BY <1>1, <2>1
  <2>3. NoFlush \in [full : BOOLEAN, prune : SUBSET Files, then : {"idle", "flushed", "verify", "exit"}]
    BY DEF NoFlush
  <2>4. blk \in [Places -> Blocks \cup {NoBlock}] /\ rev \in [Places -> Blocks \cup {NoBlock}]
    BY <1>2, StoredFacts
  <2>5. blockTree \in [index : [Blocks -> Entries], files : [Files -> FileInfos], last : Files]
    BY <1>1, <1>6, <1>8, <2>1
  <2>6. kills \in 0..MaxKills
    BY <1>1, BoundAssumption
  <2> QED BY <1>1, <1>3, <2>1, <2>2, <2>3, <2>4, <2>5, <2>6 DEF TypeOK
<1>14. Placed(mapBlockIndex, vinfoBlockFile, nLastBlockFile)
  <2>1. Sized(mapBlockIndex, vinfoBlockFile)
    BY <1>11 DEF Sized
  <2>2. UndoFits(mapBlockIndex, vinfoBlockFile)
    <3>1. ASSUME NEW f \in Files
          PROVE  vinfoBlockFile[f].nUndoSize + Cardinality(WithoutUndo(mapBlockIndex, f)) <= vinfoBlockFile[f].nSize
      <4>1. WithoutUndo(mapBlockIndex, f) = {}
        BY <1>11 DEF WithoutUndo
      <4>2. Cardinality(WithoutUndo(mapBlockIndex, f)) = 0
        BY <4>1, FS_EmptySet
      <4>3. vinfoBlockFile[f].nUndoSize = 0 /\ vinfoBlockFile[f].nSize = 0
        BY <1>11
      <4> QED BY <4>2, <4>3
    <3> QED BY <3>1 DEF UndoFits
  <2>3. UnusedEmpty(vinfoBlockFile, nLastBlockFile) /\ mapBlockIndex[Genesis].undo = NoPos
    BY <1>11, StoreAssumption DEF UnusedEmpty
  <2> QED BY <2>1, <2>2, <2>3 DEF Placed
<1>15. Sized(index, infos)
  <2>1. ASSUME NEW b \in Blocks
        PROVE  /\ index[b].pos # NoPos => index[b].pos[2] <= infos[index[b].pos[1]].nSize
               /\ index[b].undo # NoPos =>
                     /\ index[b].pos # NoPos /\ index[b].undo[1] = index[b].pos[1]
                     /\ index[b].undo[2] <= infos[index[b].undo[1]].nUndoSize
    <3>1. SUFFICES ASSUME index[b].pos # NoPos \/ index[b].undo # NoPos
                   PROVE  /\ index[b].pos # NoPos => index[b].pos[2] <= infos[index[b].pos[1]].nSize
                          /\ index[b].undo # NoPos =>
                                /\ index[b].pos # NoPos /\ index[b].undo[1] = index[b].pos[1]
                                /\ index[b].undo[2] <= infos[index[b].undo[1]].nUndoSize
      OBVIOUS
    <3>2. PICK i \in DOMAIN Stored :
                /\ Stored[i] = b /\ index[b].pos = <<0, i>> /\ index[b].pos \in Places /\ index[b].pos # NoPos
                /\ b = Genesis => index[b].undo = NoPos
                /\ b # Genesis => /\ index[b].undo = <<0, i - 1>> /\ index[b].undo \in Places
                                  /\ index[b].undo # NoPos /\ i - 1 \in DOMAIN OldChain /\ OldChain[i - 1] = b
      BY <1>9, <3>1
    <3>3. index[b].pos[1] = 0 /\ index[b].pos[2] = i /\ i <= Len(Stored)
      BY <3>2, StoredFacts
    <3>4. b # Genesis => index[b].undo[1] = 0 /\ index[b].undo[2] = i - 1 /\ i - 1 <= Len(OldChain)
      BY <3>2, StoredFacts
    <3> QED BY <1>5, <3>2, <3>3, <3>4
  <2> QED BY <2>1 DEF Sized
<1>16. UndoFits(index, infos)
  <2>1. ASSUME NEW f \in Files
        PROVE  infos[f].nUndoSize + Cardinality(WithoutUndo(index, f)) <= infos[f].nSize
    <3>1. CASE f = 0
      <4>1. WithoutUndo(index, f) \subseteq {Genesis}
        BY <1>9 DEF WithoutUndo
      <4>2. /\ Cardinality(WithoutUndo(index, f)) <= Cardinality({Genesis})
            /\ Cardinality(WithoutUndo(index, f)) \in Nat
        BY <4>1, FS_Singleton, FS_Subset, WithoutUndoFinite
      <4>3. Cardinality({Genesis}) = 1
        BY FS_Singleton
      <4> QED BY <1>5, <3>1, <4>2, <4>3, StoredFacts
    <3>2. CASE f # 0
      <4>1. WithoutUndo(index, f) = {}
        BY <1>9, <3>2 DEF WithoutUndo
      <4>2. Cardinality(WithoutUndo(index, f)) = 0
        BY <4>1, FS_EmptySet
      <4>3. infos[f].nUndoSize = 0 /\ infos[f].nSize = 0
        BY <1>5, <1>11, <3>2
      <4> QED BY <4>2, <4>3
    <3> QED BY <3>1, <3>2
  <2> QED BY <2>1 DEF UndoFits
<1>17. Placed(blockTree.index, blockTree.files, blockTree.last)
  <2>1. UnusedEmpty(infos, 0)
    BY <1>5 DEF UnusedEmpty
  <2> QED BY <1>10, <1>12, <1>15, <1>16, <2>1 DEF Placed
<1>18. IndexPointsAtData
  <2>1. Points(mapBlockIndex)
    BY <1>11 DEF Points
  <2>2. Points(index)
    <3>1. ASSUME NEW b \in Blocks, index[b].pos # NoPos PROVE blk[index[b].pos] = b
      BY <1>2, <1>9, <3>1
    <3>2. ASSUME NEW b \in Blocks, index[b].undo # NoPos PROVE rev[index[b].undo] = b
      BY <1>2, <1>9, <3>2
    <3> QED BY <3>1, <3>2 DEF Points
  <2> QED BY <1>12, <2>1, <2>2 DEF IndexPointsAtData
<1>19. DataCommitted /\ LeftCommitted
  BY <1>1 DEF DataCommitted, LeftCommitted
<1>20. NotReused /\ CleanAgree /\ FlushShape /\ PrunedGone /\ TipSet
  <2>1. NoFlush.prune = {} /\ NoFlush.then = "idle"
    BY DEF NoFlush
  <2> QED BY <1>1, <2>1 DEF NotReused, CleanAgree, FlushShape, PrunedGone, TipSet
<1>21. QED
  BY <1>13, <1>14, <1>17, <1>18, <1>19, <1>20 DEF PlaceInv

-----------------------------------------------------------------------------
(* The theorem about places                                                *)

\* Every step keeps PlaceInv.
LEMMA NextKeepsPlaces == PlaceInv /\ [Next]_vars => PlaceInv'
<1> SUFFICES ASSUME PlaceInv, [Next]_vars PROVE PlaceInv'
  OBVIOUS
<1>1. ASSUME NEW b \in Blocks \ {Genesis}, AcceptBlock(b) PROVE PlaceInv'
  BY <1>1, AcceptKeepsPlaces
<1>2. ASSUME NEW b \in Blocks \ {Genesis}, ConnectTip(b) PROVE PlaceInv'
  BY <1>2, ConnectKeepsPlaces
<1>3. CASE DisconnectTip
  BY <1>3, DisconnectKeepsPlaces DEF DisconnectTip
<1>4. CASE \/ \E full \in BOOLEAN, prune \in SUBSET Files : FlushStateToDisk(full, prune)
           \/ Shutdown
           \/ RewindBlockIndex
  BY <1>4, FlushesKeepPlaces
<1>5. CASE WriteBatchSync
  BY <1>5, WriteKeepsPlaces
<1>6. CASE UnlinkPrunedFiles
  BY <1>6, UnlinkKeepsPlaces
<1>7. CASE FlushCoins
  BY <1>7, FlushCoinsKeepsPlaces
<1>8. CASE LoadBlockIndexDB
  BY <1>8, LoadKeepsPlaces
<1>9. CASE RewindDisconnect
  BY <1>9, DisconnectKeepsPlaces DEF RewindDisconnect
<1>10. CASE VerifyDB
  BY <1>10, VerifyKeepsPlaces
<1>11. CASE UpdateTip
  BY <1>11, UpdateTipKeepsPlaces
<1>12. CASE Exit
  <2>1. Forget /\ UNCHANGED <<blk, rev, unsynced, blockTree, coinsDB>> /\ kills' \in 0..MaxKills
    BY <1>12 DEF Exit, files, PlaceInv, TypeOK
  <2> QED BY <2>1, ForgetKeepsPlaces
<1>13. CASE Kill
  <2>1. Forget /\ UNCHANGED <<blk, rev, unsynced, blockTree, coinsDB>>
    BY <1>13 DEF Kill, files
  <2>2. kills' \in 0..MaxKills
    BY <1>13, BoundAssumption DEF Kill, PlaceInv, TypeOK
  <2> QED BY <2>1, <2>2, ForgetKeepsPlaces
<1>14. CASE UNCHANGED vars
  <2>1. UNCHANGED <<mapBlockIndex, vinfoBlockFile, nLastBlockFile, setDirtyBlockIndex, setDirtyFileInfo,
                    tip, coinsTip, pc, home, flush, blk, rev, unsynced, blockTree, coinsDB, kills>>
    BY <1>14 DEF vars, memory, control, files
  <2>2. TypeOK' /\ TipSet'
    BY <2>1 DEF PlaceInv, TypeOK, TipSet
  <2>3. CleanAgree' /\ FlushShape' /\ PrunedGone' /\ LeftCommitted'
    BY <2>1 DEF PlaceInv, CleanAgree, FlushShape, PrunedGone, LeftCommitted
  <2>4. NotReused'
    BY <2>1 DEF PlaceInv, NotReused, Sized
  <2> QED BY <2>1, <2>2, <2>3, <2>4, SamePlaces DEF PlaceInv
<1>15. QED
  BY <1>1, <1>2, <1>3, <1>4, <1>5, <1>6, <1>7, <1>8, <1>9, <1>10, <1>11, <1>12, <1>13, <1>14
     DEF Next, FlushStep, StartStep

\* What the process knows of places is always right, in memory and on disk.
THEOREM PlacesHold == Spec => []PlaceInv
<1>1. Init => PlaceInv
  BY InitPlaces
<1>2. PlaceInv /\ [Next]_vars => PlaceInv'
  BY NextKeepsPlaces
<1>3. QED
  BY <1>1, <1>2, PTL DEF Spec

\* However often the node is killed, at whatever moment, and whatever is pruned and
\* written over: the index database and the index in memory point at the data of
\* the blocks they name, and block data is committed before the index database
\* refers to it.
THEOREM IndexAlwaysTrue == Spec => [](IndexPointsAtData /\ DataCommitted)
<1>1. PlaceInv => IndexPointsAtData /\ DataCommitted
  BY DEF PlaceInv
<1>2. QED
  BY <1>1, PlacesHold, PTL

-----------------------------------------------------------------------------
(* The coins                                                               *)

\* An index in which nothing that was received is forgotten.
LEMMA ReceivedKept ==
  ASSUME NEW index, NEW new, NEW c, Received(index, c),
         \A x \in AncestorsOrSelf[c] : index[x].nTx => new[x].nTx
  PROVE  Received(new, c)
BY DEF Received

\* When a kill would meet the rewind window, and what CoinsCovered says otherwise.
LEMMA CoveredMeans ==
  ASSUME FlushShape
  PROVE  /\ "rewind" \in Window <=> pc = "flushCoins" /\ flush.then = "verify"
         /\ CoinsCovered <=>
               (~(pc = "flushCoins" /\ flush.then = "verify") => Received(blockTree.index, coinsDB))
<1>1. "rewind" \in Window <=> pc = "flushCoins" /\ flush.then = "verify"
  <2>1. CASE pc \in {"unlink", "flushCoins"} /\ flush.prune # {}
    <3>1. flush.then # "verify"
      BY <2>1 DEF FlushShape
    <3>2. Window = {"prune"}
      BY <2>1, <3>1 DEF Window
    <3> QED BY <3>1, <3>2
  <2>2. CASE ~(pc \in {"unlink", "flushCoins"} /\ flush.prune # {}) /\ pc = "flushCoins" /\ flush.then = "verify"
    <3>1. Window = {"rewind"}
      BY <2>2 DEF Window
    <3> QED BY <2>2, <3>1
  <2>3. CASE ~(pc \in {"unlink", "flushCoins"} /\ flush.prune # {}) /\ ~(pc = "flushCoins" /\ flush.then = "verify")
    <3>1. Window = {}
      BY <2>3 DEF Window
    <3> QED BY <2>3, <3>1
  <2> QED BY <2>1, <2>2, <2>3
<1>2. QED
  BY <1>1 DEF CoinsCovered, Received

\* The same in the next state.
LEMMA CoveredNext ==
  ASSUME FlushShape', ~(pc' = "flushCoins" /\ flush'.then = "verify") =>
                          Received(blockTree'.index, coinsDB')
  PROVE  CoinsCovered'
<1>1. ("rewind" \in Window)' <=> pc' = "flushCoins" /\ flush'.then = "verify"
  <2>1. CASE pc' \in {"unlink", "flushCoins"} /\ flush'.prune # {}
    <3>1. flush'.then # "verify"
      BY <2>1 DEF FlushShape
    <3>2. Window' = {"prune"}
      BY <2>1, <3>1 DEF Window
    <3> QED BY <3>1, <3>2
  <2>2. CASE ~(pc' \in {"unlink", "flushCoins"} /\ flush'.prune # {}) /\ pc' = "flushCoins" /\ flush'.then = "verify"
    <3>1. Window' = {"rewind"}
      BY <2>2 DEF Window
    <3> QED BY <2>2, <3>1
  <2>3. CASE ~(pc' \in {"unlink", "flushCoins"} /\ flush'.prune # {}) /\ ~(pc' = "flushCoins" /\ flush'.then = "verify")
    <3>1. Window' = {}
      BY <2>3 DEF Window
    <3> QED BY <2>3, <3>1
  <2> QED BY <2>1, <2>2, <2>3
<1>2. QED
  BY <1>1 DEF CoinsCovered, Received

\* Nothing is flushed.
LEMMA NoFlushMeans ==
  NoFlush.prune = {} /\ NoFlush.then = "idle" /\ NoFlush.full = FALSE
BY DEF NoFlush

\* What the invariant says while no flush is under way.
LEMMA QuietCoins ==
  ASSUME PlaceInv, CoinsInv, pc \notin {"down", "writeIndex", "unlink", "flushCoins"}
  PROVE  /\ flush = NoFlush /\ flush.then = "idle" /\ flush.prune = {}
         /\ Received(mapBlockIndex, tip) /\ Received(mapBlockIndex, coinsTip)
         /\ Received(mapBlockIndex, coinsDB) /\ Received(blockTree.index, coinsDB)
         /\ tip \in Blocks /\ coinsTip \in Blocks /\ coinsDB \in Blocks
<1>1. FlushShape /\ flush = NoFlush
  BY DEF PlaceInv, FlushShape
<1>2. flush.then = "idle" /\ flush.prune = {}
  BY <1>1, NoFlushMeans
<1>3. Received(blockTree.index, coinsDB)
  BY <1>1, CoveredMeans DEF CoinsInv
<1>4. QED
  BY <1>1, <1>2, <1>3 DEF CoinsInv, PlaceInv, TipSet, TypeOK

\* What the invariant takes after a step that ends with no flush under way.
LEMMA QuietCoinsNext ==
  ASSUME PlaceInv', flush' = NoFlush, pc' \notin {"down", "writeIndex", "unlink", "flushCoins"},
         Received(mapBlockIndex', tip'), Received(mapBlockIndex', coinsTip'),
         Received(mapBlockIndex', coinsDB'), Received(blockTree'.index, coinsDB'),
         pc' \in {"idle", "rewind", "verify", "abort"} => tip' = coinsTip'
  PROVE  CoinsInv'
<1>1. FlushShape' /\ flush'.then = "idle" /\ flush'.prune = {}
  BY NoFlushMeans DEF PlaceInv
<1>2. CoinsCovered'
  BY <1>1, CoveredNext
<1>3. QED
  BY <1>1, <1>2 DEF CoinsInv, Received

\* A block is stored, and was received then.
LEMMA AcceptKeepsCoins ==
  ASSUME PlaceInv, CoinsInv, PlaceInv', NEW b \in Blocks \ {Genesis}, AcceptBlock(b)
  PROVE  CoinsInv'
<1>1. /\ pc = "idle" /\ UNCHANGED <<tip, coinsTip, pc, home, flush, blockTree, coinsDB>>
      /\ \A x \in Blocks : mapBlockIndex[x].nTx => mapBlockIndex'[x].nTx
  <2>1. /\ pc = "idle" /\ UNCHANGED <<tip, coinsTip, pc, home, flush, blockTree, coinsDB>>
        /\ \A x \in Blocks \ {b} : mapBlockIndex'[x] = mapBlockIndex[x]
    BY DEF AcceptBlock, control, PlaceInv, TypeOK
  <2>2. mapBlockIndex \in [Blocks -> Entries] /\ mapBlockIndex[b] \in Entries
    BY DEF PlaceInv, TypeOK
  <2>3. mapBlockIndex'[b].nTx
    BY <2>2 DEF AcceptBlock, Entries
  <2> QED BY <2>1, <2>3
<1>2. tip = coinsTip
  BY <1>1 DEF CoinsInv
<1>3. /\ flush = NoFlush
      /\ Received(mapBlockIndex, tip) /\ Received(mapBlockIndex, coinsDB)
      /\ Received(blockTree.index, coinsDB)
      /\ tip \in Blocks /\ coinsDB \in Blocks
  BY <1>1, QuietCoins
<1>4. Received(mapBlockIndex', tip) /\ Received(mapBlockIndex', coinsDB)
  BY <1>1, <1>3, ReceivedKept, TreeFacts
<1>5. QED
  BY <1>1, <1>2, <1>3, <1>4, QuietCoinsNext

\* The block that is connected was received.
LEMMA ConnectKeepsCoins ==
  ASSUME PlaceInv, CoinsInv, PlaceInv', NEW b \in Blocks \ {Genesis}, ConnectTip(b)
  PROVE  CoinsInv'
<1>1. /\ pc = "idle" /\ pc' = "updateTip" /\ coinsTip' = b /\ Parent[b] = tip
      /\ WriteUndo(b) /\ \E target \in MostWork : b \in AncestorsOrSelf[target]
      /\ UNCHANGED <<tip, flush, blockTree, coinsDB>>
  BY ConnectReads DEF ConnectTip
<1>2. /\ flush = NoFlush
      /\ Received(mapBlockIndex, tip)
      /\ Received(mapBlockIndex, coinsDB) /\ Received(blockTree.index, coinsDB)
      /\ tip \in Blocks /\ coinsDB \in Blocks
  BY <1>1, QuietCoins
<1>3. mapBlockIndex[b].nTx
  BY <1>1 DEF MostWork, Candidates, HaveChainTx
<1>4. \A x \in Blocks : mapBlockIndex[x].nTx => mapBlockIndex'[x].nTx
  <2>1. CASE mapBlockIndex[b].undo # NoPos
    BY <1>1, <2>1 DEF WriteUndo
  <2>2. CASE mapBlockIndex[b].undo = NoPos
    <3> DEFINE pos == FindUndoPos(mapBlockIndex[b].pos[1])
    <3>1. mapBlockIndex' = [mapBlockIndex EXCEPT ![b].undo = pos]
      BY <1>1, <2>2 DEF WriteUndo
    <3> HIDE DEF pos
    <3>2. mapBlockIndex \in [Blocks -> Entries] /\ mapBlockIndex[b] \in Entries
      BY DEF PlaceInv, TypeOK
    <3> QED BY <3>1, <3>2 DEF Entries
  <2> QED BY <2>1, <2>2
<1>5. Received(mapBlockIndex', tip) /\ Received(mapBlockIndex', coinsDB)
  BY <1>2, <1>4, ReceivedKept, TreeFacts
<1>6. AncestorsOrSelf[b] = {b} \cup AncestorsOrSelf[tip]
  BY <1>1, AncestryAssumption
<1>7. Received(mapBlockIndex', b)
  BY <1>3, <1>4, <1>5, <1>6 DEF Received
<1>8. QED
  BY <1>1, <1>2, <1>5, <1>7, QuietCoinsNext

\* Disconnecting leaves a shorter chain, or the same one.
LEMMA DisconnectKeepsCoins ==
  ASSUME PlaceInv, CoinsInv, PlaceInv', pc \in {"idle", "rewind"}, DisconnectBlock(tip)
  PROVE  CoinsInv'
<1> DEFINE ok == ReadBlockFromDisk(mapBlockIndex, tip) /\ UndoReadFromDisk(mapBlockIndex, tip)
<1>1. /\ coinsTip' = IF ok THEN Parent[tip] ELSE coinsTip
      /\ pc' = IF ok THEN "updateTip" ELSE "abort"
      /\ UNCHANGED <<mapBlockIndex, tip, flush, blockTree, coinsDB>>
  BY DEF DisconnectBlock
<1>2. tip = coinsTip
  BY DEF CoinsInv
<1>3. /\ flush = NoFlush
      /\ Received(mapBlockIndex, tip)
      /\ Received(mapBlockIndex, coinsDB) /\ Received(blockTree.index, coinsDB)
      /\ tip \in Blocks /\ coinsDB \in Blocks
  BY QuietCoins
<1>4. CASE ok
  <2>1. tip # Genesis
    BY <1>4 DEF UndoReadFromDisk, PlaceInv, Placed
  <2>2. AncestorsOrSelf[tip] = {tip} \cup AncestorsOrSelf[Parent[tip]]
    BY <1>3, <2>1, AncestryAssumption
  <2>3. Received(mapBlockIndex, Parent[tip])
    BY <1>3, <2>2 DEF Received
  <2>4. coinsTip' = Parent[tip] /\ pc' = "updateTip"
    BY <1>1, <1>4
  <2> QED BY <1>1, <1>3, <2>3, <2>4, QuietCoinsNext
<1>5. CASE ~ok
  <2>1. coinsTip' = coinsTip /\ pc' = "abort"
    BY <1>1, <1>5
  <2> QED BY <1>1, <1>2, <1>3, <2>1, QuietCoinsNext
<1>6. QED
  BY <1>4, <1>5

\* chainActive follows, or VerifyDB ends.
LEMMA TipKeepsCoins ==
  ASSUME PlaceInv, CoinsInv, PlaceInv', UpdateTip \/ VerifyDB
  PROVE  CoinsInv'
<1>1. /\ pc \in {"updateTip", "flushed", "verify"}
      /\ UNCHANGED <<mapBlockIndex, coinsTip, flush, blockTree, coinsDB>>
  BY DEF UpdateTip, VerifyDB, memory
<1>2. /\ flush = NoFlush
      /\ Received(mapBlockIndex, tip) /\ Received(mapBlockIndex, coinsTip)
      /\ Received(mapBlockIndex, coinsDB) /\ Received(blockTree.index, coinsDB)
  BY <1>1, QuietCoins
<1>3. tip' = coinsTip
  BY DEF UpdateTip, VerifyDB, CoinsInv, memory
<1>4. pc' \in {"idle", "rewind", "refused"}
  BY DEF UpdateTip, VerifyDB, PlaceInv, TypeOK
<1>5. QED
  BY <1>1, <1>2, <1>3, <1>4, QuietCoinsNext

\* A flush begins; only that of RewindBlockIndex forgets blocks, off the active chain.
LEMMA FlushesKeepCoins ==
  ASSUME PlaceInv, CoinsInv, PlaceInv',
         \/ \E full \in BOOLEAN, prune \in SUBSET Files : FlushStateToDisk(full, prune)
         \/ Shutdown
         \/ RewindBlockIndex
  PROVE  CoinsInv'
<1>1. /\ pc \in {"idle", "updateTip", "abort", "rewind"} /\ mapBlockIndex \in [Blocks -> Entries]
      /\ pc # "updateTip" => tip = coinsTip
  BY DEF FlushStateToDisk, Shutdown, RewindBlockIndex, PlaceInv, TypeOK, CoinsInv
<1>2. /\ Received(mapBlockIndex, tip) /\ Received(mapBlockIndex, coinsTip)
      /\ Received(mapBlockIndex, coinsDB) /\ Received(blockTree.index, coinsDB)
      /\ tip \in Blocks /\ coinsTip \in Blocks /\ coinsDB \in Blocks
  BY <1>1, QuietCoins
<1>3. ASSUME NEW index \in [Blocks -> Entries], NEW prune \in SUBSET Files, NEW c \in Blocks, Received(index, c)
      PROVE  Received(PruneOneBlockFile(index, prune), c)
  <2> DEFINE new == PruneOneBlockFile(index, prune)
  <2>1. \A x \in Blocks : index[x].nTx => new[x].nTx
    BY PrunedEntries
  <2> HIDE DEF new
  <2>2. Received(new, c)
    BY <1>3, <2>1, ReceivedKept, TreeFacts
  <2> QED BY <2>2 DEF new
<1>4. ASSUME NEW full, NEW prune \in SUBSET Files, NEW then, then # "verify",
             then \in {"exit", "idle"} => tip = coinsTip,
             FlushStart(mapBlockIndex, setDirtyBlockIndex, full, prune, then)
      PROVE  CoinsInv'
  <2>1. /\ mapBlockIndex' = PruneOneBlockFile(mapBlockIndex, prune) /\ pc' = "writeIndex"
        /\ flush'.prune = prune /\ flush'.then = then
        /\ UNCHANGED <<tip, coinsTip, blockTree, coinsDB>>
    BY <1>4 DEF FlushStart
  <2>2. Received(mapBlockIndex', tip) /\ Received(mapBlockIndex', coinsTip) /\ Received(mapBlockIndex', coinsDB)
    BY <1>1, <1>2, <1>3, <2>1
  <2>3. CoinsCovered'
    BY <1>2, <2>1, CoveredNext DEF PlaceInv
  <2> QED BY <1>4, <2>1, <2>2, <2>3 DEF CoinsInv, Received
<1>5. CASE \E full \in BOOLEAN, prune \in SUBSET Files : FlushStateToDisk(full, prune)
  <2>1. PICK full \in BOOLEAN, prune \in SUBSET Files : FlushStateToDisk(full, prune)
    BY <1>5
  <2>2. FlushStart(mapBlockIndex, setDirtyBlockIndex, full, prune, IF pc = "idle" THEN "idle" ELSE "flushed")
    BY <2>1 DEF FlushStateToDisk
  <2>3. CASE pc = "idle"
    BY <1>1, <1>4, <2>2, <2>3
  <2>4. CASE pc # "idle"
    BY <1>4, <2>2, <2>4
  <2> QED BY <2>3, <2>4
<1>6. CASE Shutdown
  <2>1. pc \in {"idle", "abort"} /\ FlushStart(mapBlockIndex, setDirtyBlockIndex, TRUE, {}, "exit")
    BY <1>6 DEF Shutdown
  <2> QED BY <1>1, <1>4, <2>1
<1>7. CASE RewindBlockIndex
  <2>1. /\ pc = "rewind" /\ mapBlockIndex' = PruneOneBlockFile(ReducedIndex, {}) /\ pc' = "writeIndex"
        /\ flush'.prune = {} /\ flush'.then = "verify"
        /\ UNCHANGED <<tip, coinsTip, blockTree, coinsDB>>
    BY <1>7 DEF RewindBlockIndex, FlushStart
  <2>2. ReducedIndex \in [Blocks -> Entries]
    <3>1. HeaderEntry \in Entries
      BY DEF HeaderEntry, UnknownEntry, Entries
    <3> QED BY <1>1, <3>1 DEF ReducedIndex
  <2>3. \A x \in AncestorsOrSelf[tip] : ReducedIndex[x] = mapBlockIndex[x]
    BY <1>2, TreeFacts, StoreAssumption DEF ReducedIndex, InActiveChain
  <2>4. Received(ReducedIndex, tip)
    BY <1>2, <2>3, ReceivedKept
  <2>5. Received(mapBlockIndex', tip) /\ tip = coinsTip
    BY <1>1, <1>2, <1>3, <2>1, <2>2, <2>4
  <2>6. CoinsCovered'
    BY <1>2, <2>1, CoveredNext DEF PlaceInv
  <2> QED BY <2>1, <2>5, <2>6 DEF CoinsInv, Received
<1>8. QED
  BY <1>5, <1>6, <1>7

\* The index is written, files are unlinked: the coins on disk are covered by what is
\* written, unless RewindBlockIndex has forgotten some of their blocks.
LEMMA WriteKeepsCoins ==
  ASSUME PlaceInv, CoinsInv, PlaceInv', WriteBatchSync \/ UnlinkPrunedFiles
  PROVE  CoinsInv'
<1>1. /\ pc \in {"writeIndex", "unlink"}
      /\ UNCHANGED <<mapBlockIndex, tip, coinsTip, coinsDB>>
  BY DEF WriteBatchSync, UnlinkPrunedFiles, memory
<1>2. TypeOK /\ FlushShape /\ FlushShape' /\ CleanAgree /\ CleanAgree'
  BY DEF PlaceInv
<1>3. \/ pc' \in {"unlink", "flushCoins"} /\ flush' = flush
      \/ /\ pc' = flush.then /\ flush' = NoFlush /\ ~flush.full /\ pc = "writeIndex"
         /\ flush.then \in {"idle", "flushed", "verify", "exit"}
  <2>1. CASE AfterIndex
    <3>1. CASE flush.full
      BY <2>1, <3>1 DEF AfterIndex
    <3>2. CASE ~flush.full
      <4>1. flush.prune = {} /\ pc = "writeIndex"
        BY <1>1, <1>2, <3>2 DEF FlushShape
      <4> QED BY <1>2, <2>1, <3>2, <4>1 DEF AfterIndex, TypeOK
    <3> QED BY <3>1, <3>2
  <2>2. CASE ~AfterIndex
    BY <2>2 DEF WriteBatchSync, UnlinkPrunedFiles
  <2> QED BY <2>1, <2>2
<1>4. Received(mapBlockIndex, tip) /\ Received(mapBlockIndex, coinsTip)
      /\ (flush.then # "verify" => Received(mapBlockIndex, coinsDB))
  BY <1>1 DEF CoinsInv
<1>5. flush.then # "verify" => Received(blockTree'.index, coinsDB)
  <2>1. CASE WriteBatchSync
    <3>1. blockTree'.index = [b \in Blocks |-> IF b \in setDirtyBlockIndex THEN mapBlockIndex[b]
                                               ELSE blockTree.index[b]]
      BY <2>1 DEF WriteBatchSync
    <3>2. \A b \in Blocks : blockTree'.index[b] = mapBlockIndex[b]
      BY <1>1, <1>2, <3>1 DEF CleanAgree
    <3>3. AncestorsOrSelf[coinsDB] \subseteq Blocks
      BY <1>2, TreeFacts DEF TypeOK
    <3> QED BY <1>4, <3>2, <3>3, ReceivedKept
  <2>2. CASE UnlinkPrunedFiles
    <3>1. pc = "unlink" /\ UNCHANGED blockTree
      BY <2>2 DEF UnlinkPrunedFiles
    <3> QED BY <1>2, <3>1, CoveredMeans DEF CoinsInv
  <2> QED BY <2>1, <2>2
<1>6. CASE pc' \in {"unlink", "flushCoins"} /\ flush' = flush
  <2>1. pc' = "unlink" => flush.then # "verify"
    BY <1>2, <1>6 DEF FlushShape
  <2>2. CoinsCovered'
    BY <1>1, <1>2, <1>5, <1>6, <2>1, CoveredNext
  <2> QED BY <1>1, <1>4, <1>6, <2>2 DEF CoinsInv, Received
<1>7. CASE /\ pc' = flush.then /\ flush' = NoFlush /\ ~flush.full /\ pc = "writeIndex"
           /\ flush.then \in {"idle", "flushed", "verify", "exit"}
  <2>1. flush.then # "verify" /\ flush.prune = {}
    BY <1>2, <1>7 DEF FlushShape
  <2>2. pc' \in {"idle", "rewind", "verify", "abort"} => tip = coinsTip
    BY <1>7, <2>1 DEF CoinsInv
  <2> QED BY <1>1, <1>4, <1>5, <1>7, <2>1, <2>2, QuietCoinsNext
<1>8. QED
  BY <1>3, <1>6, <1>7

\* The coins in memory go to disk.
LEMMA FlushCoinsKeepsCoins ==
  ASSUME PlaceInv, CoinsInv, PlaceInv', FlushCoins
  PROVE  CoinsInv'
<1>1. /\ pc = "flushCoins" /\ coinsDB' = coinsTip /\ pc' = flush.then /\ flush' = NoFlush
      /\ UNCHANGED <<mapBlockIndex, tip, coinsTip, blockTree>>
  BY DEF FlushCoins, memory
<1>2. CleanAgree /\ setDirtyBlockIndex = {} /\ flush.then \in {"idle", "flushed", "verify", "exit"}
      /\ coinsTip \in Blocks
  BY <1>1 DEF PlaceInv, CleanAgree, TypeOK, TipSet
<1>3. Received(mapBlockIndex, tip) /\ Received(mapBlockIndex, coinsTip)
  BY <1>1 DEF CoinsInv
<1>4. Received(blockTree.index, coinsTip)
  <2>1. \A b \in Blocks : blockTree.index[b] = mapBlockIndex[b]
    BY <1>1, <1>2 DEF CleanAgree
  <2> QED BY <1>2, <1>3, <2>1, ReceivedKept, TreeFacts
<1>5. pc' \in {"idle", "rewind", "verify", "abort"} => tip = coinsTip
  BY <1>1, <1>2 DEF CoinsInv
<1>6. QED
  BY <1>1, <1>2, <1>3, <1>4, <1>5, QuietCoinsNext

\* The process ends, but not in the rewind window.
LEMMA ForgetKeepsCoins ==
  ASSUME PlaceInv, CoinsInv, PlaceInv', Forget, UNCHANGED <<blockTree, coinsDB>>,
         "rewind" \notin Window
  PROVE  CoinsInv'
<1>1. pc' = "down" /\ flush' = NoFlush
  BY DEF Forget
<1>2. FlushShape /\ FlushShape' /\ NoFlush.then = "idle"
  BY NoFlushMeans DEF PlaceInv
<1>3. Received(blockTree.index, coinsDB)
  BY <1>2, CoveredMeans DEF CoinsInv
<1>4. CoinsCovered'
  BY <1>2, <1>3, CoveredNext
<1>5. QED
  BY <1>1, <1>2, <1>4 DEF CoinsInv

\* The process starts with the coins on disk.
LEMMA LoadKeepsCoins ==
  ASSUME PlaceInv, CoinsInv, PlaceInv', LoadBlockIndexDB
  PROVE  CoinsInv'
<1>1. /\ pc = "down" /\ pc' \in {"rewind", "refused"} /\ tip' = coinsDB /\ coinsTip' = coinsDB
      /\ mapBlockIndex' = blockTree.index /\ UNCHANGED <<flush, blockTree, coinsDB>>
  BY DEF LoadBlockIndexDB
<1>2. FlushShape /\ flush = NoFlush
  BY <1>1 DEF PlaceInv, FlushShape
<1>3. Received(blockTree.index, coinsDB)
  BY <1>1, <1>2, CoveredMeans DEF CoinsInv
<1>4. QED
  BY <1>1, <1>2, <1>3, QuietCoinsNext

\* The ancestors of the old client's best block are the old client's blocks.
LEMMA OldChainClosed ==
  ASSUME NEW b \in ToSet(Stored)
  PROVE  AncestorsOrSelf[b] \subseteq ToSet(Stored)
<1> DEFINE Bad == {i \in DOMAIN Stored : ~(AncestorsOrSelf[Stored[i]] \subseteq ToSet(Stored))}
<1>1. PICK k \in DOMAIN Stored : Stored[k] = b
  BY StoredFacts
<1>2. SUFFICES ASSUME Bad # {} PROVE FALSE
  <2>1. Bad = {} => k \notin Bad
    OBVIOUS
  <2>2. k \notin Bad => AncestorsOrSelf[b] \subseteq ToSet(Stored)
    BY <1>1
  <2> HIDE DEF Bad
  <2> QED BY <2>1, <2>2
<1>3. Bad \subseteq Nat
  BY StoredFacts
<1>4. PICK i \in Bad : \A j \in Bad : <<j, i>> \notin OpToRel(<, Nat)
  <2> HIDE DEF Bad
  <2> QED BY <1>2, <1>3, NatLessThanWellFounded, WFMin
<1>5. i \in DOMAIN Stored /\ i \in Nat /\ \A j \in Bad : ~(j < i)
  BY <1>3, <1>4 DEF OpToRel
<1>6. Stored[i] \in ToSet(Stored) /\ Genesis \in ToSet(Stored) /\ Stored[1] = Genesis
  <2>1. \A j \in DOMAIN Stored : Stored[j] \in ToSet(Stored)
    BY StoredFacts
  <2>2. Genesis \in ToSet(Stored) /\ Stored[1] = Genesis
    BY StoredFacts
  <2> QED BY <1>5, <2>1, <2>2
<1>7. i # 1
  BY <1>4, <1>6, AncestryAssumption
<1>8. i - 1 \in DOMAIN OldChain /\ Stored[i] = OldChain[i - 1] /\ i - 1 \in DOMAIN Stored
      /\ Stored[i] \in Blocks \ {Genesis}
  BY <1>5, <1>7, StoredFacts
<1>9. Parent[Stored[i]] = Stored[i - 1]
  <2>1. Parent[OldChain[i - 1]] = IF i - 1 = 1 THEN Genesis ELSE OldChain[(i - 1) - 1]
    BY <1>8, OldChainAssumption
  <2>2. CASE i - 1 = 1
    BY <1>6, <1>8, <2>1, <2>2
  <2>3. CASE i - 1 # 1
    BY <1>8, <2>1, <2>3, StoredFacts
  <2> QED BY <2>2, <2>3
<1>10. AncestorsOrSelf[Stored[i]] = {Stored[i]} \cup AncestorsOrSelf[Stored[i - 1]]
  BY <1>8, <1>9, AncestryAssumption
<1>11. i - 1 \notin Bad
  BY <1>5
<1>12. AncestorsOrSelf[Stored[i - 1]] \subseteq ToSet(Stored)
  BY <1>8, <1>11
<1>13. QED
  BY <1>4, <1>6, <1>10, <1>12

\* The old client's coins are covered by its index.
LEMMA InitCoins ==
  ASSUME Init, PlaceInv
  PROVE  CoinsInv
<1>1. pc = "down" /\ flush = NoFlush /\ coinsDB = Last(Stored)
      /\ blockTree.index = [b \in Blocks |-> IF b \in ToSet(Stored) THEN OldEntry(b) ELSE UnknownEntry]
  BY DEF Init
<1>2. coinsDB \in ToSet(Stored) /\ ToSet(Stored) \subseteq Blocks
  BY <1>1, StoredFacts
<1>3. Received(blockTree.index, coinsDB)
  <2>1. ASSUME NEW b \in AncestorsOrSelf[coinsDB]
        PROVE  blockTree.index[b].nTx
    <3>1. b \in ToSet(Stored) /\ blockTree.index[b] = OldEntry(b)
      BY <1>1, <1>2, OldChainClosed
    <3>2. OldEntry(b).nTx
      BY <3>1, OldEntryFacts
    <3> QED BY <3>1, <3>2, Zenon
  <2> QED BY <2>1 DEF Received
<1>4. CoinsCovered
  BY <1>3, CoveredMeans DEF PlaceInv
<1>5. QED
  BY <1>1, <1>4, NoFlushMeans DEF CoinsInv

\* Every step keeps CoinsInv when no process is killed in the rewind window.
LEMMA NextKeepsCoins ==
  ASSUME "rewind" \notin KillWindows, PlaceInv, CoinsInv, [Next]_vars
  PROVE  CoinsInv'
<1> PlaceInv'
  BY NextKeepsPlaces
<1>1. ASSUME NEW b \in Blocks \ {Genesis}, AcceptBlock(b) PROVE CoinsInv'
  BY <1>1, AcceptKeepsCoins
<1>2. ASSUME NEW b \in Blocks \ {Genesis}, ConnectTip(b) PROVE CoinsInv'
  BY <1>2, ConnectKeepsCoins
<1>3. CASE DisconnectTip
  BY <1>3, DisconnectKeepsCoins DEF DisconnectTip
<1>4. CASE \/ \E full \in BOOLEAN, prune \in SUBSET Files : FlushStateToDisk(full, prune)
           \/ Shutdown
           \/ RewindBlockIndex
  BY <1>4, FlushesKeepCoins
<1>5. CASE WriteBatchSync \/ UnlinkPrunedFiles
  BY <1>5, WriteKeepsCoins
<1>6. CASE FlushCoins
  BY <1>6, FlushCoinsKeepsCoins
<1>7. CASE LoadBlockIndexDB
  BY <1>7, LoadKeepsCoins
<1>8. CASE RewindDisconnect
  BY <1>8, DisconnectKeepsCoins DEF RewindDisconnect
<1>9. CASE UpdateTip \/ VerifyDB
  BY <1>9, TipKeepsCoins
<1>10. CASE Exit
  <2>1. Forget /\ UNCHANGED <<blockTree, coinsDB>> /\ pc \in {"exit", "refused"}
    BY <1>10 DEF Exit
  <2>2. "rewind" \notin Window
    BY <2>1, CoveredMeans DEF PlaceInv
  <2> QED BY <2>1, <2>2, ForgetKeepsCoins
<1>11. CASE Kill
  BY <1>11, ForgetKeepsCoins DEF Kill
<1>12. CASE UNCHANGED vars
  <2>1. UNCHANGED <<mapBlockIndex, tip, coinsTip, pc, flush, blockTree, coinsDB>>
    BY <1>12 DEF vars, memory, control
  <2>2. CoinsCovered'
    BY <2>1, CoveredMeans, CoveredNext DEF PlaceInv, CoinsInv
  <2> QED BY <2>1, <2>2 DEF CoinsInv, Received
<1>13. QED
  BY <1>1, <1>2, <1>3, <1>4, <1>5, <1>6, <1>7, <1>8, <1>9, <1>10, <1>11, <1>12
     DEF Next, FlushStep, StartStep

\* Wherever the node is killed but between the write of a rewound index and that of
\* its coins (RewindBlockIndex), even while files are pruned: the best block of the coin
\* database can be loaded with the index database as it is.
THEOREM CoinsAlwaysCovered ==
  ASSUME "rewind" \notin KillWindows
  PROVE  Spec => []CoinsCovered
<1>1. Init => PlaceInv /\ CoinsInv
  BY InitPlaces, InitCoins
<1>2. (PlaceInv /\ CoinsInv) /\ [Next]_vars => (PlaceInv /\ CoinsInv)'
  BY NextKeepsPlaces, NextKeepsCoins
<1>3. PlaceInv /\ CoinsInv => CoinsCovered
  BY DEF CoinsInv
<1>4. QED
  BY <1>1, <1>2, <1>3, PTL DEF Spec

-----------------------------------------------------------------------------
(* Forks and what is pruned                                                *)

WithData(index) == \A b \in Blocks : index[b].undo # NoPos => index[b].pos # NoPos

\* A block is not lower than its ancestors.
LEMMA HeightUp ==
  ASSUME NEW a \in Blocks, NEW b \in AncestorsOrSelf[a]
  PROVE  b \in Blocks /\ Height(b) \in Nat /\ Height(a) \in Nat /\ Height(b) <= Height(a)
<1>1. b \in Blocks /\ AncestorsOrSelf[b] \subseteq AncestorsOrSelf[a]
  BY TreeFacts, AncestryAssumption
<1>2. IsFiniteSet(AncestorsOrSelf[a])
  BY TreeFacts, AncestryAssumption, FS_Subset
<1>3. Cardinality(AncestorsOrSelf[b]) <= Cardinality(AncestorsOrSelf[a])
  BY <1>1, <1>2, FS_Subset
<1>4. Height(b) \in Nat /\ Height(a) \in Nat
  BY <1>1, TreeFacts
<1>5. Cardinality(AncestorsOrSelf[b]) \in Nat /\ Cardinality(AncestorsOrSelf[a]) \in Nat
  BY <1>1, <1>2, FS_Subset, FS_CardinalityType
<1>6. Height(b) <= Height(a)
  BY <1>3, <1>5 DEF Height
<1>7. QED
  BY <1>1, <1>4, <1>6

\* Every chain starts at the genesis block.
LEMMA GenesisBelow ==
  ASSUME NEW c \in Blocks
  PROVE  Genesis \in AncestorsOrSelf[c]
<1> DEFINE H == {Height(x) : x \in AncestorsOrSelf[c]}
<1>1. H \subseteq Nat /\ H # {}
  BY TreeFacts
<1>2. PICK n \in H : \A m \in H : <<m, n>> \notin OpToRel(<, Nat)
  <2> HIDE DEF H
  <2> QED BY <1>1, NatLessThanWellFounded, WFMin
<1>3. n \in Nat /\ \A m \in H : m \in Nat /\ ~(m < n)
  <2> HIDE DEF H
  <2>1. n \in Nat /\ \A m \in H : m \in Nat
    BY <1>1
  <2>2. \A m \in Nat : m < n => <<m, n>> \in OpToRel(<, Nat)
    BY <2>1 DEF OpToRel
  <2> QED BY <1>2, <2>1, <2>2
<1>4. PICK x \in AncestorsOrSelf[c] : n = Height(x)
  OBVIOUS
<1>5. x \in Blocks /\ AncestorsOrSelf[x] \subseteq AncestorsOrSelf[c]
  BY TreeFacts, AncestryAssumption
<1>6. ASSUME x # Genesis PROVE FALSE
  <2>1. Parent[x] \in Blocks /\ x \notin AncestorsOrSelf[Parent[x]]
        /\ AncestorsOrSelf[x] = {x} \cup AncestorsOrSelf[Parent[x]]
    BY <1>5, <1>6, AncestryAssumption
  <2>2. Parent[x] \in AncestorsOrSelf[c]
    BY <1>5, <2>1, TreeFacts
  <2>3. Height(x) = Height(Parent[x]) + 1
    <3>1. IsFiniteSet(AncestorsOrSelf[Parent[x]])
      BY <2>1, TreeFacts, AncestryAssumption, FS_Subset
    <3>2. Cardinality(AncestorsOrSelf[Parent[x]] \cup {x}) = Cardinality(AncestorsOrSelf[Parent[x]]) + 1
      BY <2>1, <3>1, FS_AddElement
    <3>3. AncestorsOrSelf[x] = AncestorsOrSelf[Parent[x]] \cup {x}
      BY <2>1
    <3>4. Cardinality(AncestorsOrSelf[Parent[x]]) \in Nat
      BY <3>1, FS_CardinalityType
    <3> QED BY <3>2, <3>3, <3>4 DEF Height
  <2>4. Height(Parent[x]) \in H
    BY <2>2
  <2>5. Height(Parent[x]) \in Nat
    BY <2>1, TreeFacts
  <2> QED BY <1>3, <1>4, <2>3, <2>4, <2>5
<1>7. QED
  BY <1>4, <1>6

\* A branch that has b and one that has not part below b.
LEMMA BranchesPart ==
  ASSUME NEW t \in Blocks, NEW c \in Blocks, NEW b \in AncestorsOrSelf[t], b \notin AncestorsOrSelf[c]
  PROVE  /\ Cardinality(AncestorsOrSelf[t] \ AncestorsOrSelf[c]) > Height(t) - Height(b)
         /\ Cardinality(AncestorsOrSelf[c] \ AncestorsOrSelf[t]) > Height(c) - Height(b)
<1> DEFINE X == AncestorsOrSelf[t]
           Y == AncestorsOrSelf[c]
           B == AncestorsOrSelf[b] \ {b}
<1>1. b \in Blocks /\ Height(b) \in Nat /\ Height(t) \in Nat /\ Height(c) \in Nat
  BY HeightUp, TreeFacts
<1>2. IsFiniteSet(X) /\ IsFiniteSet(Y) /\ IsFiniteSet(AncestorsOrSelf[b])
  BY <1>1, TreeFacts, AncestryAssumption, FS_Subset
<1>3. X \cap Y \subseteq B
  <2>1. SUFFICES ASSUME NEW x \in X, x \in Y PROVE x \in B
    OBVIOUS
  <2>2. x \in AncestorsOrSelf[b] \/ b \in AncestorsOrSelf[x]
    BY AncestryAssumption
  <2>3. AncestorsOrSelf[x] \subseteq Y
    BY <2>1, AncestryAssumption
  <2> QED BY <2>1, <2>2, <2>3
<1>4. IsFiniteSet(B) /\ Cardinality(B) = Height(b)
  <2>1. b \in AncestorsOrSelf[b]
    BY <1>1, TreeFacts
  <2> QED BY <1>2, <2>1, FS_RemoveElement DEF Height
<1>5. IsFiniteSet(X \cap Y) /\ Cardinality(X \cap Y) \in Nat /\ Cardinality(X \cap Y) <= Height(b)
  <2> HIDE DEF X, Y, B
  <2> QED BY <1>3, <1>4, FS_Subset, FS_CardinalityType
<1>6. /\ Cardinality(X \ Y) = Cardinality(X) - Cardinality(X \cap Y)
      /\ Cardinality(Y \ X) = Cardinality(Y) - Cardinality(X \cap Y)
  <2> HIDE DEF X, Y
  <2>1. Y \cap X = X \cap Y
    OBVIOUS
  <2>2. Cardinality(Y \ X) = Cardinality(Y) - Cardinality(Y \cap X)
    BY <1>2, FS_Difference
  <2>3. Cardinality(X \ Y) = Cardinality(X) - Cardinality(X \cap Y)
    BY <1>2, FS_Difference
  <2> QED BY <2>1, <2>2, <2>3
<1>7. Cardinality(X) = Height(t) + 1 /\ Cardinality(Y) = Height(c) + 1
  <2>1. Cardinality(X) \in Nat /\ Cardinality(Y) \in Nat
    BY <1>2, FS_CardinalityType
  <2> QED BY <2>1 DEF Height
<1> HIDE DEF X, Y
<1>8. Cardinality(X \ Y) > Height(t) - Height(b) /\ Cardinality(Y \ X) > Height(c) - Height(b)
  BY <1>1, <1>5, <1>6, <1>7
<1>9. QED
  BY <1>8 DEF X, Y

\* Undo data belongs to a block that has its data.
LEMMA UndoHasData ==
  ASSUME PlaceInv
  PROVE  WithData(mapBlockIndex) /\ WithData(blockTree.index)
BY DEF PlaceInv, Placed, Sized, WithData

\* What is lost of a chain that agrees is buried as well.
LEMMA BuriedAgree ==
  ASSUME NEW index, WithData(index), NEW c \in Blocks, NEW d \in Blocks,
         AgreeOnLost(index, c, d), LostBuried(index, c)
  PROVE  LostBuried(index, d)
<1>1. SUFFICES ASSUME NEW b \in AncestorsOrSelf[d], Lost(index, b)
               PROVE  \E t \in Blocks : Buries(index, d, t, b)
  BY DEF LostBuried
<1>2. b \in Blocks /\ b \in AncestorsOrSelf[c]
  BY <1>1, TreeFacts DEF AgreeOnLost
<1>3. PICK t \in Blocks : Buries(index, c, t, b)
  BY <1>1, <1>2 DEF LostBuried
<1>4. Reaches(index, d, t)
  <2>1. AncestorsOrSelf[t] \subseteq Blocks /\ Genesis \in AncestorsOrSelf[d]
    BY TreeFacts, GenesisBelow
  <2>2. ASSUME NEW a \in AncestorsOrSelf[t] \ AncestorsOrSelf[d] PROVE index[a].pos # NoPos
    <3>1. CASE a \in AncestorsOrSelf[c]
      <4>1. ~Lost(index, a) /\ a # Genesis
        BY <2>1, <2>2, <3>1 DEF AgreeOnLost
      <4> QED BY <2>1, <4>1 DEF Lost, WithData
    <3>2. CASE a \notin AncestorsOrSelf[c]
      BY <1>3, <2>2, <3>2 DEF Buries, Reaches
    <3> QED BY <3>1, <3>2
  <2> QED BY <1>3, <2>2 DEF Buries, Reaches
<1>5. QED
  BY <1>3, <1>4 DEF Buries

\* The relation is one of equivalence, and a block that can be undone does not disturb it.
LEMMA AgreeFacts ==
  ASSUME NEW index
  PROVE  /\ \A c : AgreeOnLost(index, c, c)
         /\ \A c, d : AgreeOnLost(index, c, d) => AgreeOnLost(index, d, c)
         /\ \A c, d, e : AgreeOnLost(index, c, d) /\ AgreeOnLost(index, d, e) => AgreeOnLost(index, c, e)
         /\ \A u \in Blocks \ {Genesis} : index[u].undo # NoPos => AgreeOnLost(index, u, Parent[u])
<1>1. ASSUME NEW u \in Blocks \ {Genesis}, index[u].undo # NoPos PROVE AgreeOnLost(index, u, Parent[u])
  <2>1. AncestorsOrSelf[u] = {u} \cup AncestorsOrSelf[Parent[u]]
    BY AncestryAssumption
  <2> QED BY <1>1, <2>1 DEF AgreeOnLost, Lost
<1>2. \A c, d, e : AgreeOnLost(index, c, d) /\ AgreeOnLost(index, d, e) => AgreeOnLost(index, c, e)
  BY Zenon DEF AgreeOnLost
<1>3. QED
  BY <1>1, <1>2 DEF AgreeOnLost

\* Chains that agree have all their undo data together, or neither has.
LEMMA LaterAgree ==
  ASSUME NEW index, NEW c \in Blocks, NEW d \in Blocks, AgreeOnLost(index, c, d), LostLater(index, c)
  PROVE  LostLater(index, d)
<1>1. ASSUME NothingLost(index, c) PROVE NothingLost(index, d)
  BY <1>1, TreeFacts DEF NothingLost, AgreeOnLost
<1>2. QED
  BY <1>1 DEF LostLater

\* An index that has every stored block of another, which it may add to.
KeepsStored(index, new) ==
    \A x \in Blocks : index[x].nTx =>
        /\ new[x].nTx
        /\ index[x].pos # NoPos => new[x].pos # NoPos
        /\ index[x].undo # NoPos => new[x].undo # NoPos

\* What was buried stays buried when nothing that was stored is lost.
LEMMA BuriedKept ==
  ASSUME NEW index, NEW new, NEW c \in Blocks, Received(index, c), KeepsStored(index, new), LostBuried(index, c)
  PROVE  LostBuried(new, c)
<1>1. SUFFICES ASSUME NEW b \in AncestorsOrSelf[c], Lost(new, b)
               PROVE  \E t \in Blocks : Buries(new, c, t, b)
  BY DEF LostBuried
<1>2. b \in Blocks /\ index[b].nTx
  BY TreeFacts DEF Received
<1>3. Lost(index, b)
  BY <1>1, <1>2 DEF KeepsStored, Lost
<1>4. PICK t \in Blocks : Buries(index, c, t, b)
  BY <1>3 DEF LostBuried
<1>5. AncestorsOrSelf[t] \subseteq Blocks /\ \A a \in AncestorsOrSelf[t] : index[a].nTx
  BY <1>4, TreeFacts DEF Buries, Reaches, HaveChainTx
<1>6. Reaches(new, c, t)
  BY <1>4, <1>5 DEF Buries, Reaches, HaveChainTx, KeepsStored
<1>7. QED
  BY <1>4, <1>6 DEF Buries

\* Nothing is lost then, either.
LEMMA LaterKept ==
  ASSUME NEW index, NEW new, NEW c \in Blocks, Received(index, c), KeepsStored(index, new),
         Witnessed(index) => Witnessed(new), LostLater(index, c)
  PROVE  LostLater(new, c)
<1>1. ASSUME NothingLost(index, c) PROVE NothingLost(new, c)
  <2>1. \A b \in AncestorsOrSelf[c] : b \in Blocks /\ index[b].nTx
    BY TreeFacts DEF Received
  <2> QED BY <1>1, <2>1 DEF NothingLost, Lost, KeepsStored
<1>2. QED
  BY <1>1 DEF LostLater

\* When neither window is open.
LEMMA WindowMeans ==
  /\ Window = {} <=> /\ ~(pc \in {"unlink", "flushCoins"} /\ flush.prune # {})
                     /\ ~(pc = "flushCoins" /\ flush.then = "verify")
  /\ Window' = {} <=> /\ ~(pc' \in {"unlink", "flushCoins"} /\ flush'.prune # {})
                      /\ ~(pc' = "flushCoins" /\ flush'.then = "verify")
<1>1. /\ Window = {} <=> /\ ~(pc \in {"unlink", "flushCoins"} /\ flush.prune # {})
                         /\ ~(pc = "flushCoins" /\ flush.then = "verify")
  BY DEF Window
<1>2. /\ Window' = {} <=> /\ ~(pc' \in {"unlink", "flushCoins"} /\ flush'.prune # {})
                          /\ ~(pc' = "flushCoins" /\ flush'.then = "verify")
  BY DEF Window
<1>3. QED
  BY <1>1, <1>2

\* What the invariant takes after a step.
LEMMA KeptNext ==
  ASSUME HeightsCovered(mapBlockIndex', vinfoBlockFile'),
         HeightsCovered(blockTree'.index, blockTree'.files),
         KnownFirst(mapBlockIndex'), KnownFirst(blockTree'.index),
         pc' # "down" => LostLater(mapBlockIndex', tip'), LostLater(blockTree'.index, coinsDB'),
         pc' = "down" => home' = "rewind",
         home' = "idle" \/ pc' = "verify" \/ flush'.then = "verify" \/ flush'.prune # {} =>
            Witnessed(mapBlockIndex'),
         pc' # "down" => LostBuried(mapBlockIndex', tip'),
         Window' = {} => LostBuried(blockTree'.index, coinsDB'),
         pc' # "down" /\ flush'.prune = {} /\ flush'.then # "verify" =>
            AgreeOnLost(mapBlockIndex', coinsTip', coinsDB'),
         TipMoves'
  PROVE  KeptInv'
BY DEF KeptInv, LostStored, CoinsUndoable

\* The same of a state.
LEMMA KeptMeans ==
  ASSUME KeptInv
  PROVE  /\ HeightsCovered(mapBlockIndex, vinfoBlockFile)
         /\ HeightsCovered(blockTree.index, blockTree.files)
         /\ KnownFirst(mapBlockIndex) /\ KnownFirst(blockTree.index)
         /\ pc # "down" => LostLater(mapBlockIndex, tip)
         /\ LostLater(blockTree.index, coinsDB)
         /\ pc = "down" => home = "rewind"
         /\ home = "idle" \/ pc = "verify" \/ flush.then = "verify" \/ flush.prune # {} =>
               Witnessed(mapBlockIndex)
         /\ pc # "down" => LostBuried(mapBlockIndex, tip)
         /\ Window = {} => LostBuried(blockTree.index, coinsDB)
         /\ pc # "down" /\ flush.prune = {} /\ flush.then # "verify" =>
               AgreeOnLost(mapBlockIndex, coinsTip, coinsDB)
         /\ TipMoves
BY DEF KeptInv, LostStored, CoinsUndoable

\* While no flush is under way, nothing is exempt.
LEMMA QuietKept ==
  ASSUME PlaceInv, CoinsInv, KeptInv, pc \notin {"down", "writeIndex", "unlink", "flushCoins"}
  PROVE  /\ flush = NoFlush /\ flush.then = "idle" /\ flush.prune = {}
         /\ LostBuried(mapBlockIndex, tip) /\ LostBuried(blockTree.index, coinsDB)
         /\ AgreeOnLost(mapBlockIndex, coinsTip, coinsDB)
<1>1. flush = NoFlush /\ flush.then = "idle" /\ flush.prune = {}
  BY QuietCoins
<1>2. Window = {}
  BY <1>1, WindowMeans
<1>3. QED
  BY <1>1, <1>2, KeptMeans

\* The chains of chainActive and pcoinsTip have the same blocks that cannot be undone.
LEMMA TipsAgree ==
  ASSUME PlaceInv, CoinsInv, KeptInv, pc \notin {"down", "exit", "refused"}
  PROVE  AgreeOnLost(mapBlockIndex, tip, coinsTip)
<1>1. tip \in Blocks /\ coinsTip \in Blocks
  BY DEF PlaceInv, TipSet
<1>2. tip = coinsTip \/ Moving(tip, coinsTip) \/ Moving(coinsTip, tip)
  <2>1. CASE pc \in {"updateTip", "flushed"} \/ flush.then = "flushed"
    BY <2>1, KeptMeans DEF TipMoves
  <2>2. CASE ~(pc \in {"updateTip", "flushed"} \/ flush.then = "flushed")
    <3>1. flush.then \in {"idle", "verify", "exit"}
      BY <2>2 DEF PlaceInv, TypeOK
    <3>2. pc \in {"rewind", "verify", "idle", "writeIndex", "unlink", "flushCoins", "abort"}
      BY <2>2 DEF PlaceInv, TypeOK
    <3> QED BY <3>1, <3>2 DEF CoinsInv
  <2> QED BY <2>1, <2>2
<1>3. CASE tip = coinsTip
  BY <1>3, AgreeFacts
<1>4. CASE Moving(tip, coinsTip)
  BY <1>1, <1>4, AgreeFacts DEF Moving
<1>5. CASE Moving(coinsTip, tip)
  <2>1. AgreeOnLost(mapBlockIndex, coinsTip, tip)
    BY <1>1, <1>5, AgreeFacts DEF Moving
  <2> QED BY <2>1, AgreeFacts
<1>6. QED
  BY <1>2, <1>3, <1>4, <1>5

\* An index whose entries differ in undo data that was added, if at all.
AddsUndo(index, new) ==
    \A x \in Blocks : /\ new[x].pos = index[x].pos /\ new[x].nTx = index[x].nTx
                      /\ new[x].known = index[x].known /\ new[x].witness = index[x].witness
                      /\ index[x].undo # NoPos => new[x].undo # NoPos

\* That disturbs nothing here.
LEMMA UndoApart ==
  ASSUME NEW index, NEW new, AddsUndo(index, new)
  PROVE  /\ KeepsStored(index, new)
         /\ KnownFirst(index) => KnownFirst(new)
         /\ Witnessed(index) => Witnessed(new)
         /\ \A c, d : AgreeOnLost(index, c, d) => AgreeOnLost(new, c, d)
         /\ \A infos : HeightsCovered(index, infos) => HeightsCovered(new, infos)
<1>1. KeepsStored(index, new)
  BY DEF AddsUndo, KeepsStored
<1>2. Witnessed(index) => Witnessed(new)
  BY DEF AddsUndo, Witnessed
<1>3. KnownFirst(index) => KnownFirst(new)
  BY DEF AddsUndo, KnownFirst
<1>4. \A c, d : AgreeOnLost(index, c, d) => AgreeOnLost(new, c, d)
  BY DEF AddsUndo, AgreeOnLost, Lost
<1>5. \A infos : HeightsCovered(index, infos) => HeightsCovered(new, infos)
  BY DEF AddsUndo, HeightsCovered
<1>6. QED
  BY <1>1, <1>2, <1>3, <1>4, <1>5

\* A block is stored: it adds to what the node can reach.
LEMMA AcceptKeepsKept ==
  ASSUME PlaceInv, CoinsInv, KeptInv, PlaceInv', NEW b \in Blocks \ {Genesis}, AcceptBlock(b)
  PROVE  KeptInv'
<1> DEFINE f == FindBlockPos
           pos == <<f, vinfoBlockFile[f].nSize + 1>>
           e == [mapBlockIndex[b] EXCEPT !.known = TRUE, !.nTx = TRUE, !.pos = pos,
                                         !.witness = @ \/ b \in WitnessBlocks]
           h == Max({vinfoBlockFile[f].nHeightLast, Height(b)})
<1>1. /\ pc = "idle" /\ f \in Files /\ mapBlockIndex' = [mapBlockIndex EXCEPT ![b] = e]
      /\ vinfoBlockFile' = [vinfoBlockFile EXCEPT
              ![f].nSize = @ + 1, ![f].nHeightLast = Max({@, Height(b)})]
      /\ unsynced' = LeaveBlockFile(f, unsynced) \cup {<<"blk", pos>>}
      /\ UNCHANGED <<tip, coinsTip, pc, home, flush, blockTree, coinsDB>>
  BY DEF AcceptBlock, control
<1>2. /\ mapBlockIndex \in [Blocks -> Entries] /\ vinfoBlockFile \in [Files -> FileInfos]
      /\ mapBlockIndex' \in [Blocks -> Entries]
      /\ tip \in Blocks /\ coinsTip \in Blocks /\ coinsDB \in Blocks
  BY <1>1 DEF PlaceInv, TypeOK, TipSet
<1>3. pos # NoPos /\ pos[1] = f
  <2>1. unsynced' \subseteq {"blk", "rev"} \X Places /\ <<"blk", pos>> \in unsynced'
    BY <1>1 DEF PlaceInv, TypeOK
  <2>2. pos \in Places
    BY <2>1
  <2> QED BY <2>2, StoreAssumption
<1> HIDE DEF f, pos
<1>4. /\ e.known /\ e.nTx /\ e.pos = pos /\ e.undo = mapBlockIndex[b].undo
      /\ e.witness = (mapBlockIndex[b].witness \/ b \in WitnessBlocks)
  BY <1>2 DEF Entries
<1> HIDE DEF e
<1>5. /\ mapBlockIndex'[b].known /\ mapBlockIndex'[b].nTx /\ mapBlockIndex'[b].pos = pos
      /\ mapBlockIndex'[b].undo = mapBlockIndex[b].undo
      /\ (b \in WitnessBlocks => mapBlockIndex'[b].witness)
      /\ \A x \in Blocks \ {b} : mapBlockIndex'[x] = mapBlockIndex[x]
  BY <1>1, <1>2, <1>4
<1>6. /\ vinfoBlockFile'[f].nHeightLast = h /\ h \in Nat
      /\ h >= vinfoBlockFile[f].nHeightLast /\ h >= Height(b)
      /\ \A x \in Files \ {f} : vinfoBlockFile'[x] = vinfoBlockFile[x]
  <2>1. vinfoBlockFile[f] \in FileInfos /\ vinfoBlockFile[f].nHeightLast \in Nat
    BY <1>1, <1>2 DEF FileInfos
  <2>2. vinfoBlockFile'[f].nHeightLast = h /\ \A x \in Files \ {f} : vinfoBlockFile'[x] = vinfoBlockFile[x]
    BY <1>1, <1>2, <2>1 DEF FileInfos
  <2>3. h \in Nat /\ h >= vinfoBlockFile[f].nHeightLast /\ h >= Height(b)
    BY <2>1, TreeFacts, MaxOfTwo
  <2> HIDE DEF h
  <2> QED BY <2>2, <2>3
<1> HIDE DEF h
<1>7. /\ flush.then = "idle" /\ flush.prune = {}
      /\ LostBuried(mapBlockIndex, tip) /\ LostBuried(blockTree.index, coinsDB)
      /\ AgreeOnLost(mapBlockIndex, coinsTip, coinsDB) /\ Received(mapBlockIndex, tip)
  BY <1>1, QuietKept, QuietCoins
<1>8. HeightsCovered(mapBlockIndex', vinfoBlockFile')
  <2>1. ASSUME NEW x \in Blocks, mapBlockIndex'[x].pos # NoPos
        PROVE  Height(x) <= vinfoBlockFile'[mapBlockIndex'[x].pos[1]].nHeightLast
    <3>1. CASE x = b
      BY <1>3, <1>5, <1>6, <3>1
    <3>2. CASE x # b
      <4> DEFINE k == mapBlockIndex[x].pos[1]
      <4>1. mapBlockIndex'[x].pos = mapBlockIndex[x].pos /\ mapBlockIndex[x].pos # NoPos
        BY <1>5, <2>1, <3>2
      <4>2. k \in Files
        BY <1>2, <4>1, EntryFacts
      <4>3. Height(x) <= vinfoBlockFile[k].nHeightLast
        BY <4>1, KeptMeans DEF HeightsCovered
      <4>4. Height(x) \in Nat /\ vinfoBlockFile[k].nHeightLast \in Nat
        <5>1. vinfoBlockFile[k] \in FileInfos
          BY <1>2, <4>2
        <5> QED BY <5>1, TreeFacts DEF FileInfos
      <4> HIDE DEF k
      <4>5. vinfoBlockFile[k].nHeightLast <= vinfoBlockFile'[k].nHeightLast
            /\ vinfoBlockFile'[k].nHeightLast \in Nat
        BY <1>6, <4>2, <4>4
      <4>6. Height(x) <= vinfoBlockFile'[k].nHeightLast
        BY <4>3, <4>4, <4>5
      <4> QED BY <4>1, <4>6 DEF k
    <3> QED BY <3>1, <3>2
  <2> QED BY <2>1 DEF HeightsCovered
<1>9. KeepsStored(mapBlockIndex, mapBlockIndex')
  BY <1>3, <1>5 DEF KeepsStored
<1>10. LostBuried(mapBlockIndex', tip)
  BY <1>2, <1>7, <1>9, BuriedKept
<1>11. Witnessed(mapBlockIndex) => Witnessed(mapBlockIndex')
  BY <1>5 DEF Witnessed
<1>12. KnownFirst(mapBlockIndex') /\ LostLater(mapBlockIndex', tip)
  <2>1. KnownFirst(mapBlockIndex) /\ LostLater(mapBlockIndex, tip)
    BY <1>1, KeptMeans
  <2>2. KnownFirst(mapBlockIndex')
    BY <1>5, <2>1 DEF KnownFirst
  <2> QED BY <1>2, <1>7, <1>9, <1>11, <2>1, <2>2, LaterKept
<1>13. AgreeOnLost(mapBlockIndex', coinsTip, coinsDB)
  BY <1>5, <1>7 DEF AgreeOnLost, Lost
<1>14. TipMoves'
  BY <1>1, <1>7 DEF TipMoves
<1>15. /\ HeightsCovered(blockTree.index, blockTree.files) /\ KnownFirst(blockTree.index)
       /\ LostLater(blockTree.index, coinsDB)
       /\ home = "idle" \/ pc = "verify" \/ flush.then = "verify" \/ flush.prune # {} =>
            Witnessed(mapBlockIndex)
  BY KeptMeans
<1>16. QED
  BY <1>1, <1>7, <1>8, <1>10, <1>11, <1>12, <1>13, <1>14, <1>15, KeptNext

\* A block is connected: it has its data, and keeps it.
LEMMA ConnectKeepsKept ==
  ASSUME PlaceInv, CoinsInv, KeptInv, PlaceInv', NEW b \in Blocks \ {Genesis}, ConnectTip(b)
  PROVE  KeptInv'
<1>1. /\ pc = "idle" /\ pc' = "updateTip" /\ coinsTip' = b /\ Parent[b] = tip
      /\ WriteUndo(b) /\ mapBlockIndex[b].pos # NoPos
      /\ UNCHANGED <<tip, home, flush, blockTree, coinsDB>>
  BY ConnectReads DEF ConnectTip, ReadBlockFromDisk
<1>2. /\ mapBlockIndex \in [Blocks -> Entries] /\ vinfoBlockFile \in [Files -> FileInfos]
      /\ tip \in Blocks /\ coinsTip \in Blocks /\ coinsDB \in Blocks /\ tip = coinsTip
      /\ mapBlockIndex[b].pos[1] \in Files
  BY <1>1, EntryFacts DEF PlaceInv, TypeOK, TipSet, CoinsInv
<1>3. /\ flush.then = "idle" /\ flush.prune = {}
      /\ LostBuried(mapBlockIndex, tip) /\ LostBuried(blockTree.index, coinsDB)
      /\ AgreeOnLost(mapBlockIndex, coinsTip, coinsDB) /\ Received(mapBlockIndex, tip)
  BY <1>1, QuietKept, QuietCoins
<1>4. /\ AddsUndo(mapBlockIndex, mapBlockIndex') /\ mapBlockIndex'[b].undo # NoPos
      /\ \A f \in Files : vinfoBlockFile'[f].nHeightLast = vinfoBlockFile[f].nHeightLast
  <2>1. CASE mapBlockIndex[b].undo # NoPos
    BY <1>1, <2>1 DEF WriteUndo, AddsUndo
  <2>2. CASE mapBlockIndex[b].undo = NoPos
    <3> DEFINE k == mapBlockIndex[b].pos[1]
               pos == FindUndoPos(k)
    <3>1. /\ mapBlockIndex' = [mapBlockIndex EXCEPT ![b].undo = pos]
          /\ vinfoBlockFile' = [vinfoBlockFile EXCEPT ![k].nUndoSize = @ + 1]
      BY <1>1, <2>2 DEF WriteUndo
    <3>2. k \in Files
      BY <1>2
    <3>3. pos # NoPos
      <4>1. unsynced' = unsynced \cup {<<"rev", pos>>} /\ unsynced' \subseteq {"blk", "rev"} \X Places
        BY <1>1, <2>2 DEF WriteUndo, PlaceInv, TypeOK
      <4> HIDE DEF pos, k
      <4>2. pos \in Places
        BY <4>1
      <4> QED BY <4>2, StoreAssumption
    <3> HIDE DEF pos, k
    <3>4. mapBlockIndex[b] \in Entries /\ mapBlockIndex'[b] = [mapBlockIndex[b] EXCEPT !.undo = pos]
          /\ \A x \in Blocks \ {b} : mapBlockIndex'[x] = mapBlockIndex[x]
      BY <1>2, <3>1
    <3>5. /\ mapBlockIndex'[b].pos = mapBlockIndex[b].pos /\ mapBlockIndex'[b].nTx = mapBlockIndex[b].nTx
          /\ mapBlockIndex'[b].known = mapBlockIndex[b].known
          /\ mapBlockIndex'[b].witness = mapBlockIndex[b].witness /\ mapBlockIndex'[b].undo = pos
      BY <3>4 DEF Entries
    <3>6. AddsUndo(mapBlockIndex, mapBlockIndex')
      BY <2>2, <3>4, <3>5 DEF AddsUndo
    <3>7. vinfoBlockFile[k] \in FileInfos
          /\ vinfoBlockFile'[k] = [vinfoBlockFile[k] EXCEPT !.nUndoSize = @ + 1]
          /\ \A x \in Files \ {k} : vinfoBlockFile'[x] = vinfoBlockFile[x]
      BY <1>2, <3>1, <3>2
    <3>8. vinfoBlockFile'[k].nHeightLast = vinfoBlockFile[k].nHeightLast
      BY <3>7 DEF FileInfos
    <3> QED BY <3>3, <3>5, <3>6, <3>7, <3>8
  <2> QED BY <2>1, <2>2
<1>5. /\ HeightsCovered(mapBlockIndex', vinfoBlockFile) /\ KnownFirst(mapBlockIndex')
      /\ KeepsStored(mapBlockIndex, mapBlockIndex')
      /\ AgreeOnLost(mapBlockIndex', tip, coinsDB)
      /\ Witnessed(mapBlockIndex) => Witnessed(mapBlockIndex')
  BY <1>2, <1>3, <1>4, KeptMeans, UndoApart
<1>6. HeightsCovered(mapBlockIndex', vinfoBlockFile')
  <2>1. \A x \in Blocks : mapBlockIndex'[x].pos # NoPos => mapBlockIndex'[x].pos[1] \in Files
    BY EntryFacts DEF PlaceInv, TypeOK
  <2> QED BY <1>4, <1>5, <2>1 DEF HeightsCovered
<1>7. LostBuried(mapBlockIndex', tip)
  BY <1>2, <1>3, <1>5, BuriedKept
<1>8. LostLater(mapBlockIndex', tip)
  BY <1>1, <1>2, <1>3, <1>5, KeptMeans, LaterKept
<1>9. AgreeOnLost(mapBlockIndex', b, coinsDB)
  <2>1. AgreeOnLost(mapBlockIndex', b, tip)
    BY <1>1, <1>4, AgreeFacts
  <2> QED BY <1>5, <2>1, AgreeFacts
<1>10. TipMoves'
  BY <1>1, <1>4 DEF TipMoves, Moving
<1>11. /\ HeightsCovered(blockTree.index, blockTree.files) /\ KnownFirst(blockTree.index)
       /\ LostLater(blockTree.index, coinsDB)
       /\ home = "idle" \/ flush.then = "verify" \/ flush.prune # {} => Witnessed(mapBlockIndex)
  BY KeptMeans
<1>12. QED
  BY <1>1, <1>3, <1>5, <1>6, <1>7, <1>8, <1>9, <1>10, <1>11, KeptNext

\* A tip that is left for a chain with more work can be undone: the chain that buried
\* it would be a second branch longer than what pruning keeps.
LEMMA TipNotLost ==
  ASSUME ShallowForks, PlaceInv, CoinsInv, KeptInv, DisconnectTip
  PROVE  mapBlockIndex[tip].undo # NoPos
<1>1. pc = "idle" /\ \E target \in MostWork : tip \notin AncestorsOrSelf[target]
  BY DEF DisconnectTip
<1>2. PICK target \in MostWork : tip \notin AncestorsOrSelf[target]
  BY <1>1
<1>3. target \in Blocks /\ tip \in Blocks /\ \A c \in Candidates : Height(c) <= Height(target)
  BY <1>1 DEF MostWork, Candidates, PlaceInv, TipSet
<1>4. tip # Genesis
  BY <1>2, <1>3, GenesisBelow
<1>5. ASSUME mapBlockIndex[tip].undo = NoPos PROVE FALSE
  <2>1. LostBuried(mapBlockIndex, tip) /\ tip \in AncestorsOrSelf[tip]
    BY <1>1, <1>3, QuietKept, TreeFacts
  <2>2. PICK t \in Blocks : Buries(mapBlockIndex, tip, t, tip)
    BY <1>4, <1>5, <2>1 DEF LostBuried, Lost
  <2>3. t \in Candidates
    <3>1. ~MissingData(t)
      BY <1>3, <2>2, StoreAssumption DEF Buries, Reaches, MissingData, InActiveChain
    <3> QED BY <2>2, <3>1 DEF Buries, Reaches, Candidates
  <2>4. Height(t) <= Height(target) /\ Height(t) >= Height(tip) + MinBlocksToKeep
        /\ tip \in AncestorsOrSelf[t]
    BY <1>3, <2>2, <2>3 DEF Buries
  <2> DEFINE m == Cardinality(AncestorsOrSelf[t] \ AncestorsOrSelf[target])
             n == Cardinality(AncestorsOrSelf[target] \ AncestorsOrSelf[t])
  <2>5. m > Height(t) - Height(tip) /\ n > Height(target) - Height(tip)
    BY <1>2, <1>3, <2>4, BranchesPart
  <2>6. m <= MinBlocksToKeep \/ n <= MinBlocksToKeep
    BY <1>3 DEF ShallowForks
  <2>7. m \in Nat /\ n \in Nat
    <3>1. IsFiniteSet(AncestorsOrSelf[t] \ AncestorsOrSelf[target])
          /\ IsFiniteSet(AncestorsOrSelf[target] \ AncestorsOrSelf[t])
      <4>1. AncestorsOrSelf[t] \subseteq Blocks /\ AncestorsOrSelf[target] \subseteq Blocks
        BY <1>3, TreeFacts
      <4>2. AncestorsOrSelf[t] \ AncestorsOrSelf[target] \in SUBSET Blocks
            /\ AncestorsOrSelf[target] \ AncestorsOrSelf[t] \in SUBSET Blocks
        BY <4>1
      <4> QED BY <4>2, AncestryAssumption, FS_Subset
    <3> QED BY <3>1, FS_CardinalityType
  <2>8. Height(t) \in Nat /\ Height(tip) \in Nat /\ Height(target) \in Nat /\ MinBlocksToKeep \in Nat
    BY <1>3, TreeFacts, BoundAssumption
  <2> HIDE DEF m, n
  <2> QED BY <2>4, <2>5, <2>6, <2>7, <2>8
<1>6. QED
  BY <1>4, <1>5

\* A tip that can be disconnected leaves a chain with the same blocks that cannot be.
LEMMA DisconnectKeepsKept ==
  ASSUME PlaceInv, CoinsInv, KeptInv, PlaceInv', pc \in {"idle", "rewind"}, DisconnectBlock(tip)
  PROVE  KeptInv'
<1> DEFINE ok == ReadBlockFromDisk(mapBlockIndex, tip) /\ UndoReadFromDisk(mapBlockIndex, tip)
<1>1. tip \in Blocks /\ tip = coinsTip /\ coinsDB \in Blocks
  BY DEF PlaceInv, TipSet, CoinsInv, TypeOK
<1>2. /\ flush.then = "idle" /\ flush.prune = {}
      /\ LostBuried(mapBlockIndex, tip) /\ LostBuried(blockTree.index, coinsDB)
      /\ AgreeOnLost(mapBlockIndex, coinsTip, coinsDB)
  BY QuietKept
<1>3. /\ coinsTip' = IF ok THEN Parent[tip] ELSE coinsTip
      /\ pc' = IF ok THEN "updateTip" ELSE "abort"
      /\ UNCHANGED <<mapBlockIndex, vinfoBlockFile, tip, home, flush, blockTree, coinsDB>>
  BY DEF DisconnectBlock
<1>4. ok => mapBlockIndex[tip].undo # NoPos /\ tip # Genesis
  BY DEF UndoReadFromDisk, PlaceInv, Placed
<1> HIDE DEF ok
<1>5. AgreeOnLost(mapBlockIndex, coinsTip', coinsDB) /\ TipMoves'
  <2>1. CASE ok
    <3>1. AgreeOnLost(mapBlockIndex, tip, Parent[tip])
      BY <1>1, <1>4, <2>1, AgreeFacts
    <3>2. AgreeOnLost(mapBlockIndex, Parent[tip], tip)
      BY <3>1, AgreeFacts
    <3>3. AgreeOnLost(mapBlockIndex, Parent[tip], coinsDB)
      BY <1>1, <1>2, <3>2, AgreeFacts
    <3>4. TipMoves'
      BY <1>1, <1>3, <1>4, <2>1 DEF TipMoves, Moving
    <3> QED BY <1>3, <2>1, <3>3, <3>4
  <2>2. CASE ~ok
    BY <1>2, <1>3, <2>2 DEF TipMoves
  <2> QED BY <2>1, <2>2
<1>6. pc' # "down" /\ pc' # "verify"
  BY <1>3
<1>7. /\ HeightsCovered(mapBlockIndex, vinfoBlockFile) /\ KnownFirst(mapBlockIndex)
      /\ LostLater(mapBlockIndex, tip)
      /\ HeightsCovered(blockTree.index, blockTree.files) /\ KnownFirst(blockTree.index)
      /\ LostLater(blockTree.index, coinsDB)
      /\ home = "idle" \/ pc = "verify" \/ flush.then = "verify" \/ flush.prune # {} =>
            Witnessed(mapBlockIndex)
  BY KeptMeans
<1>8. QED
  BY <1>2, <1>3, <1>5, <1>6, <1>7, KeptNext

\* chainActive follows, or VerifyDB ends the start-up.
LEMMA TipKeepsKept ==
  ASSUME PlaceInv, CoinsInv, KeptInv, PlaceInv', UpdateTip \/ VerifyDB
  PROVE  KeptInv'
<1>1. /\ pc \in {"updateTip", "flushed", "verify"}
      /\ UNCHANGED <<mapBlockIndex, vinfoBlockFile, coinsTip, flush, blockTree, coinsDB>>
  BY DEF UpdateTip, VerifyDB, memory
<1>2. tip \in Blocks /\ coinsTip \in Blocks
  BY <1>1 DEF PlaceInv, TipSet
<1>3. tip' = coinsTip /\ pc' \in {"idle", "rewind", "refused"}
      /\ (home' = "idle" => home = "idle" \/ pc = "verify")
  BY DEF UpdateTip, VerifyDB, PlaceInv, TypeOK, CoinsInv, memory
<1>4. /\ flush = NoFlush /\ flush.then = "idle" /\ flush.prune = {}
      /\ LostBuried(mapBlockIndex, tip) /\ LostBuried(blockTree.index, coinsDB)
      /\ AgreeOnLost(mapBlockIndex, coinsTip, coinsDB)
  BY <1>1, QuietKept
<1>5. LostBuried(mapBlockIndex, coinsTip) /\ LostLater(mapBlockIndex, coinsTip)
  <2>1. AgreeOnLost(mapBlockIndex, tip, coinsTip) /\ LostLater(mapBlockIndex, tip)
    BY <1>1, TipsAgree, KeptMeans
  <2> QED BY <1>2, <1>4, <2>1, UndoHasData, BuriedAgree, LaterAgree
<1>6. TipMoves'
  BY <1>1, <1>3, <1>4 DEF TipMoves
<1>7. /\ HeightsCovered(mapBlockIndex, vinfoBlockFile) /\ KnownFirst(mapBlockIndex)
      /\ LostLater(mapBlockIndex, tip)
      /\ HeightsCovered(blockTree.index, blockTree.files) /\ KnownFirst(blockTree.index)
      /\ LostLater(blockTree.index, coinsDB)
      /\ home = "idle" \/ pc = "verify" \/ flush.then = "verify" \/ flush.prune # {} =>
            Witnessed(mapBlockIndex)
  BY <1>1, KeptMeans
<1>8. QED
  BY <1>1, <1>3, <1>4, <1>5, <1>6, <1>7, KeptNext

\* The coins in memory go to disk, where the index is that in memory.
LEMMA FlushCoinsKeepsKept ==
  ASSUME PlaceInv, CoinsInv, KeptInv, PlaceInv', FlushCoins
  PROVE  KeptInv'
<1>1. /\ pc = "flushCoins" /\ coinsDB' = coinsTip /\ pc' = flush.then /\ flush' = NoFlush
      /\ UNCHANGED <<mapBlockIndex, vinfoBlockFile, tip, coinsTip, home, blockTree>>
  BY DEF FlushCoins, memory
<1>2. /\ flush.then \in {"idle", "flushed", "verify", "exit"}
      /\ tip \in Blocks /\ coinsTip \in Blocks
      /\ \A b \in Blocks : blockTree.index[b] = mapBlockIndex[b]
  BY <1>1 DEF PlaceInv, CleanAgree, TypeOK, TipSet
<1>3. /\ HeightsCovered(mapBlockIndex, vinfoBlockFile) /\ KnownFirst(mapBlockIndex)
      /\ LostLater(mapBlockIndex, tip)
      /\ HeightsCovered(blockTree.index, blockTree.files) /\ KnownFirst(blockTree.index)
      /\ LostLater(blockTree.index, coinsDB)
      /\ home = "idle" \/ pc = "verify" \/ flush.then = "verify" \/ flush.prune # {} =>
            Witnessed(mapBlockIndex)
      /\ LostBuried(mapBlockIndex, tip)
  BY <1>1, KeptMeans
<1>4. /\ LostBuried(mapBlockIndex, coinsTip) /\ LostLater(mapBlockIndex, coinsTip)
      /\ Received(mapBlockIndex, coinsTip)
  <2>1. AgreeOnLost(mapBlockIndex, tip, coinsTip)
    BY <1>1, TipsAgree
  <2>2. Received(mapBlockIndex, coinsTip)
    BY <1>1 DEF CoinsInv
  <2> QED BY <1>2, <1>3, <2>1, <2>2, UndoHasData, BuriedAgree, LaterAgree
<1>5. LostBuried(blockTree.index, coinsTip) /\ LostLater(blockTree.index, coinsTip)
  <2>1. AddsUndo(mapBlockIndex, blockTree.index)
    BY <1>2 DEF AddsUndo
  <2> QED BY <1>2, <1>4, <2>1, UndoApart, BuriedKept, LaterKept
<1>6. AgreeOnLost(mapBlockIndex, coinsTip, coinsTip)
  BY AgreeFacts
<1>7. TipMoves'
  BY <1>1, <1>2, NoFlushMeans, KeptMeans DEF TipMoves, Moving
<1>8. QED
  BY <1>1, <1>2, <1>3, <1>5, <1>6, <1>7, NoFlushMeans, KeptNext

\* The process ends outside the two windows.
LEMMA ForgetKeepsKept ==
  ASSUME KeptInv, Forget, UNCHANGED <<blockTree, coinsDB>>, Window = {}
  PROVE  KeptInv'
<1>1. /\ pc' = "down" /\ flush' = NoFlush /\ home' = "rewind"
      /\ mapBlockIndex' = [b \in Blocks |-> UnknownEntry]
  BY DEF Forget
<1>2. \A b \in Blocks : mapBlockIndex'[b].pos = NoPos /\ ~mapBlockIndex'[b].nTx
  BY <1>1 DEF UnknownEntry
<1>3. /\ HeightsCovered(mapBlockIndex', vinfoBlockFile') /\ KnownFirst(mapBlockIndex')
      /\ Witnessed(mapBlockIndex')
  BY <1>2 DEF HeightsCovered, KnownFirst, Witnessed
<1>4. /\ HeightsCovered(blockTree.index, blockTree.files) /\ KnownFirst(blockTree.index)
      /\ LostLater(blockTree.index, coinsDB)
      /\ LostBuried(blockTree.index, coinsDB)
  BY KeptMeans
<1>5. TipMoves'
  BY <1>1, NoFlushMeans DEF TipMoves
<1>6. QED
  BY <1>1, <1>3, <1>4, <1>5, KeptNext

\* The process starts with what is on disk.
LEMMA LoadKeepsKept ==
  ASSUME PlaceInv, CoinsInv, KeptInv, PlaceInv', LoadBlockIndexDB
  PROVE  KeptInv'
<1>1. /\ pc = "down" /\ pc' \in {"rewind", "refused"} /\ tip' = coinsDB /\ coinsTip' = coinsDB
      /\ mapBlockIndex' = blockTree.index /\ vinfoBlockFile' = blockTree.files
      /\ UNCHANGED <<home, flush, blockTree, coinsDB>>
  BY DEF LoadBlockIndexDB
<1>2. flush = NoFlush /\ flush.then = "idle" /\ flush.prune = {} /\ home = "rewind"
  BY <1>1, NoFlushMeans, KeptMeans DEF PlaceInv, FlushShape
<1>3. Window = {}
  BY <1>1, WindowMeans
<1>4. /\ HeightsCovered(blockTree.index, blockTree.files) /\ KnownFirst(blockTree.index)
      /\ LostLater(blockTree.index, coinsDB)
      /\ LostBuried(blockTree.index, coinsDB)
  BY <1>3, KeptMeans
<1>5. AgreeOnLost(blockTree.index, coinsDB, coinsDB)
  BY AgreeFacts
<1>6. TipMoves'
  BY <1>1, <1>2 DEF TipMoves
<1>7. QED
  BY <1>1, <1>2, <1>4, <1>5, <1>6, KeptNext

\* The index is written, files are unlinked: what cannot be undone is the same in the
\* coins on disk and in pcoinsTip, unless blocks were just pruned or rewound.
LEMMA WriteKeepsKept ==
  ASSUME PlaceInv, CoinsInv, KeptInv, PlaceInv', WriteBatchSync \/ UnlinkPrunedFiles
  PROVE  KeptInv'
<1>1. /\ pc \in {"writeIndex", "unlink"}
      /\ UNCHANGED <<mapBlockIndex, vinfoBlockFile, tip, coinsTip, home, coinsDB>>
  BY DEF WriteBatchSync, UnlinkPrunedFiles, memory
<1>2. /\ TypeOK /\ FlushShape /\ FlushShape' /\ CleanAgree
      /\ tip \in Blocks /\ coinsTip \in Blocks /\ coinsDB \in Blocks
  BY <1>1 DEF PlaceInv, TypeOK, TipSet
<1>3. \/ pc' = "unlink" /\ flush' = flush /\ flush.prune # {}
      \/ pc' = "flushCoins" /\ flush' = flush /\ flush.full
      \/ /\ pc' = flush.then /\ flush' = NoFlush /\ ~flush.full /\ flush.prune = {} /\ pc = "writeIndex"
         /\ flush.then \in {"idle", "flushed", "exit"}
  <2>1. CASE AfterIndex
    <3>1. CASE flush.full
      BY <2>1, <3>1 DEF AfterIndex
    <3>2. CASE ~flush.full
      <4>1. flush.prune = {} /\ pc = "writeIndex" /\ flush.then # "verify"
        BY <1>1, <1>2, <3>2 DEF FlushShape
      <4> QED BY <1>2, <2>1, <3>2, <4>1 DEF AfterIndex, TypeOK
    <3> QED BY <3>1, <3>2
  <2>2. CASE ~AfterIndex
    BY <2>2 DEF WriteBatchSync, UnlinkPrunedFiles
  <2> QED BY <2>1, <2>2
<1>4. /\ HeightsCovered(mapBlockIndex, vinfoBlockFile) /\ KnownFirst(mapBlockIndex)
      /\ LostLater(mapBlockIndex, tip)
      /\ HeightsCovered(blockTree.index, blockTree.files) /\ KnownFirst(blockTree.index)
      /\ LostLater(blockTree.index, coinsDB)
      /\ home = "idle" \/ pc = "verify" \/ flush.then = "verify" \/ flush.prune # {} =>
            Witnessed(mapBlockIndex)
      /\ LostBuried(mapBlockIndex, tip)
      /\ flush.prune = {} /\ flush.then # "verify" => AgreeOnLost(mapBlockIndex, coinsTip, coinsDB)
  BY <1>1, KeptMeans
<1>5. WriteBatchSync =>
         /\ \A b \in Blocks : blockTree'.index[b] = mapBlockIndex[b]
         /\ \A f \in Files : blockTree'.files[f] = vinfoBlockFile[f]
  <2>1. SUFFICES ASSUME WriteBatchSync
                 PROVE  /\ \A b \in Blocks : blockTree'.index[b] = mapBlockIndex[b]
                        /\ \A f \in Files : blockTree'.files[f] = vinfoBlockFile[f]
    OBVIOUS
  <2>2. /\ blockTree'.index = [b \in Blocks |-> IF b \in setDirtyBlockIndex THEN mapBlockIndex[b]
                                                ELSE blockTree.index[b]]
        /\ blockTree'.files = [f \in Files |-> IF f \in setDirtyFileInfo THEN vinfoBlockFile[f]
                                               ELSE blockTree.files[f]]
    BY <2>1 DEF WriteBatchSync
  <2>3. \A b \in Blocks : blockTree'.index[b] = mapBlockIndex[b]
    BY <1>1, <1>2, <2>2 DEF CleanAgree
  <2>4. \A f \in Files : blockTree'.files[f] = vinfoBlockFile[f]
    BY <1>1, <1>2, <2>2 DEF CleanAgree
  <2> QED BY <2>3, <2>4
<1>6. HeightsCovered(blockTree'.index, blockTree'.files) /\ KnownFirst(blockTree'.index)
  <2>1. CASE WriteBatchSync
    <3>1. AddsUndo(mapBlockIndex, blockTree'.index)
      BY <1>5, <2>1 DEF AddsUndo
    <3>2. HeightsCovered(blockTree'.index, vinfoBlockFile) /\ KnownFirst(blockTree'.index)
      BY <1>4, <3>1, UndoApart
    <3>3. \A x \in Blocks : blockTree'.index[x].pos # NoPos => blockTree'.index[x].pos[1] \in Files
      BY EntryFacts DEF PlaceInv, TypeOK
    <3>4. HeightsCovered(blockTree'.index, blockTree'.files)
      BY <1>5, <2>1, <3>2, <3>3 DEF HeightsCovered
    <3> QED BY <3>2, <3>4
  <2>2. CASE UnlinkPrunedFiles
    <3>1. UNCHANGED blockTree
      BY <2>2 DEF UnlinkPrunedFiles
    <3> QED BY <1>4, <3>1
  <2> QED BY <2>1, <2>2
<1>7. ASSUME WriteBatchSync, flush.prune = {}, flush.then # "verify"
       PROVE  LostBuried(blockTree'.index, coinsDB) /\ LostLater(blockTree'.index, coinsDB)
  <2>1. AgreeOnLost(mapBlockIndex, tip, coinsDB)
    BY <1>1, <1>4, <1>7, TipsAgree, AgreeFacts
  <2>2. Received(mapBlockIndex, coinsDB)
    BY <1>1, <1>7 DEF CoinsInv
  <2>3. LostBuried(mapBlockIndex, coinsDB) /\ LostLater(mapBlockIndex, coinsDB)
    BY <1>2, <1>4, <2>1, UndoHasData, BuriedAgree, LaterAgree
  <2>4. AddsUndo(mapBlockIndex, blockTree'.index)
    BY <1>5, <1>7 DEF AddsUndo
  <2> QED BY <1>2, <2>2, <2>3, <2>4, UndoApart, BuriedKept, LaterKept
<1>8. LostLater(blockTree'.index, coinsDB)
  <2>1. CASE UnlinkPrunedFiles
    <3>1. UNCHANGED blockTree
      BY <2>1 DEF UnlinkPrunedFiles
    <3> QED BY <1>4, <3>1
  <2>2. CASE WriteBatchSync /\ flush.prune = {} /\ flush.then # "verify"
    BY <1>7, <2>2
  <2>3. CASE WriteBatchSync /\ ~(flush.prune = {} /\ flush.then # "verify")
    <3>1. AddsUndo(mapBlockIndex, blockTree'.index)
      BY <1>5, <2>3 DEF AddsUndo
    <3>2. Witnessed(blockTree'.index)
      BY <1>4, <2>3, <3>1, UndoApart
    <3> QED BY <3>2 DEF LostLater
  <2> QED BY <2>1, <2>2, <2>3
<1>9. ASSUME Window' = {} PROVE LostBuried(blockTree'.index, coinsDB)
  <2>1. flush.prune = {} /\ flush.then # "verify"
    BY <1>3, <1>9, WindowMeans
  <2>2. WriteBatchSync
    BY <2>1 DEF UnlinkPrunedFiles, PlaceInv, FlushShape
  <2> QED BY <1>7, <2>1, <2>2
<1>10. TipMoves'
  <2>1. TipMoves
    BY KeptMeans
  <2> QED BY <1>1, <1>3, <2>1, NoFlushMeans DEF TipMoves, Moving
<1>11. pc' # "down" /\ pc' # "verify"
      /\ (flush'.then = "verify" => flush.then = "verify")
      /\ (flush'.prune # {} => flush.prune # {})
      /\ (flush'.prune = {} /\ flush'.then # "verify" => flush.prune = {} /\ flush.then # "verify")
  BY <1>3, NoFlushMeans
<1>12. QED
  BY <1>1, <1>4, <1>6, <1>9, <1>10, <1>11, <1>8, KeptNext

\* Pruning leaves the blocks within MinBlocksToKeep of the tip, and so everything that
\* was buried under another chain is buried under that of the tip if that one goes.
LEMMA PruneKeepsBuried ==
  ASSUME NEW index \in [Blocks -> Entries], NEW infos \in [Files -> FileInfos],
         NEW prune \in SUBSET Files, NEW c \in Blocks,
         WithData(index), Received(index, c), HeightsCovered(index, infos), LostBuried(index, c),
         \A f \in prune : infos[f].nHeightLast <= Height(c) - MinBlocksToKeep
  PROVE  /\ LostBuried(PruneOneBlockFile(index, prune), c)
         /\ \A x \in Blocks : index[x].undo # NoPos /\ Height(c) <= Height(x) =>
               PruneOneBlockFile(index, prune)[x].undo # NoPos
<1> DEFINE new == PruneOneBlockFile(index, prune)
<1>1. \A x \in Blocks : /\ new[x].nTx = index[x].nTx
                        /\ index[x].pos = NoPos => new[x].pos = NoPos
                        /\ new[x].pos = NoPos => index[x].pos = NoPos \/ index[x].pos[1] \in prune
                        /\ new[x].pos # NoPos => new[x].undo = index[x].undo
  BY PrunedEntries
<1> HIDE DEF new
<1>2. MinBlocksToKeep \in Nat /\ MinBlocksToKeep > 0 /\ Height(c) \in Nat
  BY BoundAssumption, TreeFacts
<1>3. ASSUME NEW x \in Blocks, index[x].pos # NoPos, new[x].pos = NoPos
      PROVE  Height(x) \in Nat /\ Height(c) >= Height(x) + MinBlocksToKeep
  <2> DEFINE f == index[x].pos[1]
  <2>1. f \in prune /\ f \in Files
    BY <1>1, <1>3
  <2>2. Height(x) <= infos[f].nHeightLast /\ infos[f].nHeightLast <= Height(c) - MinBlocksToKeep
    BY <1>3, <2>1 DEF HeightsCovered
  <2>3. infos[f].nHeightLast \in Nat
    <3>1. infos[f] \in FileInfos
      BY <2>1
    <3> QED BY <3>1 DEF FileInfos
  <2>4. Height(x) \in Nat
    BY TreeFacts
  <2> HIDE DEF f
  <2> QED BY <1>2, <2>2, <2>3, <2>4
<1>4. ASSUME NEW b \in AncestorsOrSelf[c], Height(c) >= Height(b) + MinBlocksToKeep
      PROVE  Buries(new, c, c, b)
  <2>1. HaveChainTx(new, c)
    BY <1>1, TreeFacts DEF HaveChainTx, Received
  <2> QED BY <1>4, <2>1 DEF Buries, Reaches
<1>5. ASSUME NEW b \in AncestorsOrSelf[c], Lost(new, b)
      PROVE  \E t \in Blocks : Buries(new, c, t, b)
  <2>1. b \in Blocks /\ Height(b) \in Nat
    BY TreeFacts
  <2>2. CASE ~Lost(index, b)
    <3>1. index[b].pos # NoPos /\ new[b].pos = NoPos
      BY <1>1, <1>5, <2>1, <2>2 DEF Lost, WithData
    <3> QED BY <1>3, <1>4, <2>1, <3>1
  <2>3. CASE Lost(index, b)
    <3>1. PICK t \in Blocks : Buries(index, c, t, b)
      BY <2>3 DEF LostBuried
    <3>2. AncestorsOrSelf[t] \subseteq Blocks
      BY TreeFacts
    <3>3. CASE \A a \in AncestorsOrSelf[t] \ AncestorsOrSelf[c] : new[a].pos # NoPos
      <4>1. HaveChainTx(new, t)
        BY <1>1, <3>1, <3>2 DEF Buries, Reaches, HaveChainTx
      <4> QED BY <3>1, <3>3, <4>1 DEF Buries, Reaches
    <3>4. CASE \E a \in AncestorsOrSelf[t] \ AncestorsOrSelf[c] : new[a].pos = NoPos
      <4>1. PICK a \in AncestorsOrSelf[t] \ AncestorsOrSelf[c] : new[a].pos = NoPos
        BY <3>4
      <4>2. a \in Blocks /\ index[a].pos # NoPos /\ b \in AncestorsOrSelf[t]
        BY <3>1, <3>2, <4>1 DEF Buries, Reaches
      <4>3. Height(c) >= Height(a) + MinBlocksToKeep /\ Height(a) \in Nat
        BY <1>3, <4>1, <4>2
      <4>4. a \in AncestorsOrSelf[b] \/ b \in AncestorsOrSelf[a]
        BY <4>1, <4>2, AncestryAssumption
      <4>5. AncestorsOrSelf[b] \subseteq AncestorsOrSelf[c]
        BY AncestryAssumption
      <4>6. b \in AncestorsOrSelf[a]
        BY <4>1, <4>4, <4>5
      <4>7. Height(b) <= Height(a)
        BY <4>2, <4>6, HeightUp
      <4>8. Height(c) >= Height(b) + MinBlocksToKeep
        BY <1>2, <2>1, <4>3, <4>7
      <4> QED BY <1>4, <4>8
    <3> QED BY <3>3, <3>4
  <2> QED BY <2>2, <2>3
<1>6. LostBuried(new, c)
  BY <1>5 DEF LostBuried
<1>7. ASSUME NEW x \in Blocks, index[x].undo # NoPos, Height(c) <= Height(x) PROVE new[x].undo # NoPos
  <2>1. index[x].pos # NoPos
    BY <1>7 DEF WithData
  <2>2. ASSUME new[x].pos = NoPos PROVE FALSE
    BY <1>2, <1>3, <1>7, <2>1, <2>2
  <2> QED BY <1>1, <1>7, <2>2
<1>8. QED
  BY <1>6, <1>7 DEF new

\* The other facts about an index that is pruned.
LEMMA PruneKeepsRest ==
  ASSUME NEW index \in [Blocks -> Entries], NEW infos \in [Files -> FileInfos],
         NEW prune \in SUBSET Files, NEW c \in Blocks,
         HeightsCovered(index, infos), KnownFirst(index), LostLater(index, c),
         prune # {} => Witnessed(index)
  PROVE  LET new == PruneOneBlockFile(index, prune)
         IN  /\ HeightsCovered(new, [f \in Files |-> IF f \in prune THEN EmptyFile ELSE infos[f]])
             /\ KnownFirst(new) /\ LostLater(new, c)
             /\ Witnessed(index) => Witnessed(new)
             /\ prune = {} => \A x \in Blocks : new[x].undo = index[x].undo
<1> DEFINE new == PruneOneBlockFile(index, prune)
           left == [f \in Files |-> IF f \in prune THEN EmptyFile ELSE infos[f]]
<1>1. \A x \in Blocks : /\ new[x].nTx = index[x].nTx /\ new[x].known = index[x].known
                        /\ new[x].witness = index[x].witness
                        /\ new[x].pos = NoPos => index[x].pos = NoPos \/ index[x].pos[1] \in prune
                        /\ new[x].pos # NoPos => new[x].pos = index[x].pos /\ new[x].pos[1] \notin prune
                        /\ new[x].pos # NoPos => new[x].undo = index[x].undo
                        /\ index[x].pos = NoPos => new[x].undo = index[x].undo
  BY PrunedEntries
<1>2. \A f \in Files \ prune : left[f] = infos[f]
  OBVIOUS
<1> HIDE DEF new, left
<1>3. HeightsCovered(new, left)
  <2>1. ASSUME NEW x \in Blocks, new[x].pos # NoPos
        PROVE  Height(x) <= left[new[x].pos[1]].nHeightLast
    <3>1. new[x].pos = index[x].pos /\ index[x].pos # NoPos /\ index[x].pos[1] \in Files \ prune
      BY <1>1, <2>1, EntryFacts
    <3> QED BY <1>2, <3>1 DEF HeightsCovered
  <2> QED BY <2>1 DEF HeightsCovered
<1>4. Witnessed(index) => Witnessed(new)
  BY <1>1 DEF Witnessed
<1>5. prune = {} => \A x \in Blocks : new[x].undo = index[x].undo
  BY <1>1
<1>6. KnownFirst(new) /\ LostLater(new, c)
  <2>1. KnownFirst(new)
    BY <1>1 DEF KnownFirst
  <2>2. CASE prune = {}
    <3>1. NothingLost(index, c) => NothingLost(new, c)
      BY <1>5, <2>2, TreeFacts DEF NothingLost, Lost
    <3> QED BY <1>4, <2>1, <3>1 DEF LostLater
  <2>3. CASE prune # {}
    BY <1>4, <2>1, <2>3 DEF LostLater
  <2> QED BY <2>2, <2>3
<1>7. QED
  BY <1>3, <1>4, <1>5, <1>6 DEF new, left

\* A flush begins with an index that tip is buried in as far as it was pruned.
LEMMA FlushStartKeepsKept ==
  ASSUME PlaceInv, CoinsInv, KeptInv, PlaceInv', pc \in {"idle", "updateTip", "rewind", "abort"},
         NEW index \in [Blocks -> Entries], NEW dirty, NEW full, NEW prune \in SUBSET Files,
         NEW then \in {"idle", "flushed", "verify", "exit"},
         FlushStart(index, dirty, full, prune, then),
         WithData(index), HeightsCovered(index, vinfoBlockFile), KnownFirst(index),
         Received(index, tip), LostLater(index, tip), LostBuried(index, tip),
         prune # {} \/ home = "idle" \/ then = "verify" => Witnessed(index),
         \A f \in prune : vinfoBlockFile[f].nHeightLast <= Height(tip) - MinBlocksToKeep,
         then # "verify" => index = mapBlockIndex,
         then = "flushed" => pc = "updateTip"
  PROVE  KeptInv'
<1> DEFINE new == PruneOneBlockFile(index, prune)
           left == [f \in Files |-> IF f \in prune THEN EmptyFile ELSE vinfoBlockFile[f]]
<1>1. /\ mapBlockIndex' = new /\ vinfoBlockFile' = left /\ pc' = "writeIndex"
      /\ flush'.prune = prune /\ flush'.then = then
      /\ UNCHANGED <<tip, coinsTip, home, blockTree, coinsDB>>
  BY DEF FlushStart
<1>2. /\ vinfoBlockFile \in [Files -> FileInfos]
      /\ tip \in Blocks /\ coinsTip \in Blocks /\ coinsDB \in Blocks
  BY DEF PlaceInv, TypeOK, TipSet
<1>3. /\ LostBuried(blockTree.index, coinsDB)
      /\ AgreeOnLost(mapBlockIndex, coinsTip, coinsDB)
  BY QuietKept
<1>4. /\ LostBuried(new, tip)
      /\ \A x \in Blocks : index[x].undo # NoPos /\ Height(tip) <= Height(x) => new[x].undo # NoPos
  BY <1>2, PruneKeepsBuried
<1>5. /\ HeightsCovered(new, left) /\ KnownFirst(new) /\ LostLater(new, tip)
      /\ Witnessed(index) => Witnessed(new)
      /\ prune = {} => \A x \in Blocks : new[x].undo = index[x].undo
  BY <1>2, PruneKeepsRest
<1> HIDE DEF new, left
<1>6. ASSUME prune = {}, then # "verify" PROVE AgreeOnLost(new, coinsTip, coinsDB)
  BY <1>3, <1>5, <1>6 DEF AgreeOnLost, Lost
<1>7. TipMoves'
  <2>1. SUFFICES ASSUME then = "flushed"
                 PROVE  \/ tip # Genesis /\ coinsTip = Parent[tip] /\ new[tip].undo # NoPos
                        \/ coinsTip # Genesis /\ tip = Parent[coinsTip] /\ new[coinsTip].undo # NoPos
    BY <1>1 DEF TipMoves, Moving
  <2>2. index = mapBlockIndex /\ pc = "updateTip"
    BY <2>1
  <2>3. \/ tip # Genesis /\ coinsTip = Parent[tip] /\ index[tip].undo # NoPos
        \/ coinsTip # Genesis /\ tip = Parent[coinsTip] /\ index[coinsTip].undo # NoPos
    BY <2>2, KeptMeans DEF TipMoves, Moving
  <2>4. Height(tip) <= Height(tip)
    BY <1>2, TreeFacts
  <2>5. ASSUME coinsTip # Genesis, tip = Parent[coinsTip] PROVE Height(tip) <= Height(coinsTip)
    <3>1. tip \in AncestorsOrSelf[coinsTip]
      BY <1>2, <2>5, TreeFacts, AncestryAssumption
    <3> QED BY <1>2, <3>1, HeightUp
  <2> QED BY <1>2, <1>4, <2>3, <2>4, <2>5
<1>8. HeightsCovered(blockTree.index, blockTree.files) /\ KnownFirst(blockTree.index)
      /\ LostLater(blockTree.index, coinsDB)
  BY KeptMeans
<1>9. QED
  BY <1>1, <1>3, <1>4, <1>5, <1>6, <1>7, <1>8, KeptNext

\* RewindBlockIndex takes from the index what has no witness and is not in the active
\* chain.  When undo data has been lost there is no such block any more.
LEMMA RewindKeepsKept ==
  ASSUME PlaceInv, CoinsInv, KeptInv, PlaceInv', RewindBlockIndex
  PROVE  KeptInv'
<1>1. /\ pc = "rewind" /\ ~CanRewind
      /\ FlushStart(ReducedIndex,
                    setDirtyBlockIndex \cup {b \in Blocks : ReducedIndex[b] # mapBlockIndex[b]},
                    TRUE, {}, "verify")
  BY DEF RewindBlockIndex
<1>2. /\ mapBlockIndex \in [Blocks -> Entries] /\ tip \in Blocks
      /\ Received(mapBlockIndex, tip) /\ LostBuried(mapBlockIndex, tip)
      /\ HeightsCovered(mapBlockIndex, vinfoBlockFile) /\ KnownFirst(mapBlockIndex)
      /\ LostLater(mapBlockIndex, tip)
  BY <1>1, QuietKept, QuietCoins, KeptMeans DEF PlaceInv, TypeOK, TipSet
<1>3. HeaderEntry \in Entries /\ HeaderEntry.pos = NoPos /\ ~HeaderEntry.nTx
  BY DEF HeaderEntry, UnknownEntry, Entries
<1> DEFINE new == ReducedIndex
<1>4. /\ new \in [Blocks -> Entries]
      /\ \A x \in Blocks : new[x] = IF mapBlockIndex[x].known /\ Unwitnessed(x) /\ ~InActiveChain(x)
                                    THEN HeaderEntry ELSE mapBlockIndex[x]
  BY <1>2, <1>3 DEF ReducedIndex
<1> HIDE DEF new
<1>5. \A x \in Blocks : InActiveChain(x) <=> x \in AncestorsOrSelf[tip]
  BY <1>2, StoreAssumption DEF InActiveChain
<1>6. AncestorsOrSelf[tip] \subseteq Blocks /\ tip \in AncestorsOrSelf[tip]
      /\ \A x \in AncestorsOrSelf[tip] : new[x] = mapBlockIndex[x] /\ mapBlockIndex[x].nTx
  BY <1>2, <1>4, <1>5, TreeFacts DEF Received
<1>7. WithData(mapBlockIndex) /\ WithData(new)
  <2>1. HeaderEntry.undo = NoPos
    BY DEF HeaderEntry, UnknownEntry
  <2> QED BY <1>4, <2>1, UndoHasData DEF WithData
<1>8. ~RewindNeeded
  <2>1. SUFFICES ASSUME RewindNeeded PROVE FALSE
    OBVIOUS
  <2>2. mapBlockIndex[tip].pos = NoPos
    BY <1>1, <2>1 DEF CanRewind
  <2>3. tip # Genesis
    <3>1. ASSUME tip = Genesis PROVE FALSE
      BY <2>1, <3>1, AncestryAssumption, StoreAssumption DEF RewindNeeded, Unwitnessed
    <3> QED BY <3>1
  <2>4. ~NothingLost(mapBlockIndex, tip)
    BY <1>2, <1>6, <1>7, <2>2, <2>3 DEF NothingLost, Lost, WithData
  <2>5. Witnessed(mapBlockIndex)
    BY <1>2, <2>4 DEF LostLater
  <2> QED BY <1>6, <2>1, <2>5 DEF RewindNeeded, Unwitnessed, Witnessed
<1>9. Witnessed(new)
  <2>1. ASSUME NEW x \in Blocks, new[x].nTx, x \in WitnessBlocks PROVE new[x].witness
    <3>1. new[x] = mapBlockIndex[x]
      BY <1>3, <1>4, <2>1
    <3>2. mapBlockIndex[x].known
      BY <1>2, <2>1, <3>1 DEF KnownFirst
    <3>3. CASE x \in AncestorsOrSelf[tip]
      BY <1>8, <2>1, <3>1, <3>3 DEF RewindNeeded, Unwitnessed
    <3>4. CASE x \notin AncestorsOrSelf[tip]
      <4>1. ~Unwitnessed(x)
        BY <1>3, <1>4, <1>5, <2>1, <3>2, <3>4
      <4> QED BY <2>1, <3>1, <4>1 DEF Unwitnessed
    <3> QED BY <3>3, <3>4
  <2> QED BY <2>1 DEF Witnessed
<1>10. HeightsCovered(new, vinfoBlockFile)
  BY <1>2, <1>3, <1>4 DEF HeightsCovered
<1>11. KnownFirst(new) /\ LostLater(new, tip)
  <2>1. KnownFirst(new)
    BY <1>2, <1>3, <1>4 DEF KnownFirst
  <2> QED BY <1>9, <2>1 DEF LostLater
<1>12. Received(new, tip)
  BY <1>2, <1>6 DEF Received
<1>13. LostBuried(new, tip)
  <2>1. CASE NothingLost(mapBlockIndex, tip)
    <3>1. \A x \in AncestorsOrSelf[tip] : ~Lost(new, x)
      BY <1>6, <2>1 DEF NothingLost, Lost
    <3> QED BY <3>1 DEF LostBuried
  <2>2. CASE Witnessed(mapBlockIndex)
    <3>1. \A x \in Blocks : mapBlockIndex[x].nTx => new[x] = mapBlockIndex[x]
      BY <1>4, <2>2 DEF Witnessed, Unwitnessed
    <3>2. KeepsStored(mapBlockIndex, new)
      BY <3>1 DEF KeepsStored
    <3> QED BY <1>2, <3>2, BuriedKept
  <2> QED BY <1>2, <2>1, <2>2 DEF LostLater
<1>14. PICK none \in SUBSET Files : none = {}
  OBVIOUS
<1>15. PICK dirty : dirty = setDirtyBlockIndex \cup {b \in Blocks : ReducedIndex[b] # mapBlockIndex[b]}
  OBVIOUS
<1>16. /\ FlushStart(new, dirty, TRUE, none, "verify")
       /\ \A f \in none : vinfoBlockFile[f].nHeightLast <= Height(tip) - MinBlocksToKeep
       /\ "verify" \in {"idle", "flushed", "verify", "exit"}
  <2>1. FlushStart(new, dirty, TRUE, none, "verify")
    BY <1>1, <1>14, <1>15, Zenon DEF new
  <2> QED BY <1>14, <2>1
<1>17. QED
  BY <1>1, <1>4, <1>9, <1>10, <1>11, <1>12, <1>13, <1>14, <1>16, <1>7, FlushStartKeepsKept

\* A flush while the node runs, and the last one.
LEMMA FlushesKeepKept ==
  ASSUME PlaceInv, CoinsInv, KeptInv, PlaceInv',
         \/ \E full \in BOOLEAN, prune \in SUBSET Files : FlushStateToDisk(full, prune)
         \/ Shutdown
  PROVE  KeptInv'
<1>1. pc \in {"idle", "updateTip", "abort"} /\ WithData(mapBlockIndex)
  BY UndoHasData DEF FlushStateToDisk, Shutdown
<1>2. /\ mapBlockIndex \in [Blocks -> Entries]
      /\ Received(mapBlockIndex, tip) /\ LostBuried(mapBlockIndex, tip)
      /\ HeightsCovered(mapBlockIndex, vinfoBlockFile) /\ KnownFirst(mapBlockIndex)
      /\ LostLater(mapBlockIndex, tip)
      /\ home = "idle" => Witnessed(mapBlockIndex)
  BY <1>1, QuietKept, QuietCoins, KeptMeans DEF PlaceInv, TypeOK
<1>3. CASE Shutdown
  <2>1. FlushStart(mapBlockIndex, setDirtyBlockIndex, TRUE, {}, "exit")
    BY <1>3 DEF Shutdown
  <2>2. PICK none \in SUBSET Files : none = {}
    OBVIOUS
  <2>3. /\ FlushStart(mapBlockIndex, setDirtyBlockIndex, TRUE, none, "exit")
        /\ none # {} => Witnessed(mapBlockIndex)
        /\ \A f \in none : vinfoBlockFile[f].nHeightLast <= Height(tip) - MinBlocksToKeep
    BY <2>1, <2>2
  <2>4. "exit" \in {"idle", "flushed", "verify", "exit"} /\ "exit" # "verify" /\ "exit" # "flushed"
    OBVIOUS
  <2> QED BY <1>1, <1>2, <2>3, <2>4, FlushStartKeepsKept
<1>4. CASE \E full \in BOOLEAN, prune \in SUBSET Files : FlushStateToDisk(full, prune)
  <2>1. PICK full \in BOOLEAN, prune \in SUBSET Files : FlushStateToDisk(full, prune)
    BY <1>4
  <2> DEFINE then == IF pc = "idle" THEN "idle" ELSE "flushed"
  <2>2. /\ FlushStart(mapBlockIndex, setDirtyBlockIndex, full, prune, then)
        /\ prune \in IF home = "idle" THEN FilesToPrune ELSE {{}}
    BY <2>1 DEF FlushStateToDisk
  <2>3. then \in {"idle", "flushed", "verify", "exit"} /\ then # "verify"
        /\ (then = "flushed" => pc = "updateTip")
    BY <2>1 DEF FlushStateToDisk
  <2>4. prune # {} => home = "idle" /\ prune \in FilesToPrune
    BY <2>2
  <2>5. \A f \in prune : vinfoBlockFile[f].nHeightLast <= Height(tip) - MinBlocksToKeep
    <3>1. prune \subseteq Prunable
      BY <2>4 DEF FilesToPrune
    <3> QED BY <3>1 DEF Prunable
  <2> HIDE DEF then
  <2> QED BY <1>1, <1>2, <2>2, <2>3, <2>4, <2>5, FlushStartKeepsKept
<1>5. QED
  BY <1>3, <1>4

\* The old client has pruned nothing.
LEMMA InitKept ==
  ASSUME Init, PlaceInv, CoinsInv
  PROVE  KeptInv
<1>1. /\ pc = "down" /\ home = "rewind" /\ flush = NoFlush /\ coinsDB = Last(Stored)
      /\ mapBlockIndex = [b \in Blocks |-> UnknownEntry]
      /\ blockTree.index = [b \in Blocks |-> IF b \in ToSet(Stored) THEN OldEntry(b) ELSE UnknownEntry]
      /\ blockTree.files = [f \in Files |-> IF f > 0 THEN EmptyFile ELSE
                              [nSize |-> Len(Stored), nUndoSize |-> Len(OldChain),
                               nHeightLast |-> Max({Height(b) : b \in ToSet(Stored)})]]
  BY DEF Init
<1>2. \A b \in Blocks : mapBlockIndex[b].pos = NoPos /\ ~mapBlockIndex[b].nTx
  BY <1>1 DEF UnknownEntry
<1>3. /\ HeightsCovered(mapBlockIndex, vinfoBlockFile) /\ KnownFirst(mapBlockIndex)
      /\ Witnessed(mapBlockIndex)
  BY <1>2 DEF HeightsCovered, KnownFirst, Witnessed
<1>4. ASSUME NEW b \in Blocks
      PROVE  /\ b \in ToSet(Stored) => blockTree.index[b].nTx /\ blockTree.index[b].known
                                       /\ blockTree.index[b].pos # NoPos /\ blockTree.index[b].pos[1] = 0
             /\ b \notin ToSet(Stored) => ~blockTree.index[b].nTx /\ blockTree.index[b].pos = NoPos
  <2>1. CASE b \in ToSet(Stored)
    <3>1. blockTree.index[b] = OldEntry(b)
      BY <1>1, <2>1
    <3>2. OldEntry(b).nTx /\ OldEntry(b).known /\ OldEntry(b).pos # NoPos /\ OldEntry(b).pos[1] = 0
      <4>1. PICK i \in DOMAIN Stored :
                /\ OldEntry(b).known /\ OldEntry(b).nTx
                /\ OldEntry(b).pos = <<0, i>> /\ <<0, i>> # NoPos
        BY <2>1, OldEntryFacts, Zenon
      <4>2. <<0, i>>[1] = 0
        OBVIOUS
      <4> QED BY <4>1, <4>2
    <3> QED BY <2>1, <3>1, <3>2
  <2>2. CASE b \notin ToSet(Stored)
    BY <1>1, <2>2 DEF UnknownEntry
  <2> QED BY <2>1, <2>2
<1>5. KnownFirst(blockTree.index)
  BY <1>4 DEF KnownFirst
<1>6. LostLater(blockTree.index, coinsDB) /\ LostBuried(blockTree.index, coinsDB)
  <2>1. coinsDB \in ToSet(Stored) /\ ToSet(Stored) \subseteq Blocks
    BY <1>1, StoredFacts
  <2>2. ASSUME NEW b \in AncestorsOrSelf[coinsDB] PROVE ~Lost(blockTree.index, b)
    <3>1. b \in ToSet(Stored) /\ blockTree.index[b] = OldEntry(b)
      BY <1>1, <2>1, OldChainClosed
    <3>2. b # Genesis => OldEntry(b).undo # NoPos
      BY <3>1, OldEntryFacts
    <3> QED BY <3>1, <3>2, Zenon DEF Lost
  <2> QED BY <2>2 DEF LostLater, NothingLost, LostBuried
<1>7. HeightsCovered(blockTree.index, blockTree.files)
  <2> DEFINE S == {Height(b) : b \in ToSet(Stored)}
  <2>1. 0 \in Files /\ blockTree.files[0].nHeightLast = Max(S)
    BY <1>1, StoreAssumption DEF Files
  <2>2. S \in SUBSET Nat /\ ToSet(Stored) \subseteq Blocks
    <3>1. ToSet(Stored) \subseteq Blocks
      BY StoredFacts
    <3> QED BY <3>1, TreeFacts
  <2>3. PICK n \in Nat : \A x \in S : x <= n
    <3>1. IsFiniteSet(Blocks) /\ Cardinality(Blocks) \in Nat
      BY AncestryAssumption, FS_CardinalityType
    <3>2. ASSUME NEW b \in Blocks PROVE Height(b) <= Cardinality(Blocks)
      <4>1. AncestorsOrSelf[b] \subseteq Blocks
        BY TreeFacts
      <4>2. Cardinality(AncestorsOrSelf[b]) <= Cardinality(Blocks) /\ IsFiniteSet(AncestorsOrSelf[b])
        BY <3>1, <4>1, FS_Subset
      <4>3. Cardinality(AncestorsOrSelf[b]) \in Nat
        BY <4>2, FS_CardinalityType
      <4> QED BY <3>1, <4>2, <4>3 DEF Height
    <3> QED BY <2>2, <3>1, <3>2
  <2>4. ASSUME NEW b \in ToSet(Stored) PROVE Height(b) <= Max(S)
    <3>1. Height(b) \in S /\ S # {}
      OBVIOUS
    <3> HIDE DEF S
    <3>2. Max(S) \in S /\ Max(S) >= Height(b)
      BY <2>2, <2>3, <3>1, MaxOfBounded
    <3>3. Max(S) \in Nat /\ Height(b) \in Nat
      BY <2>2, <3>1, <3>2
    <3> QED BY <3>2, <3>3
  <2> HIDE DEF S
  <2>5. ASSUME NEW b \in Blocks, blockTree.index[b].pos # NoPos
        PROVE  Height(b) <= blockTree.files[blockTree.index[b].pos[1]].nHeightLast
    BY <1>4, <2>1, <2>4, <2>5
  <2> QED BY <2>5 DEF HeightsCovered
<1>8. TipMoves /\ LostStored /\ CoinsUndoable
  BY <1>1, <1>6, NoFlushMeans DEF TipMoves, LostStored, CoinsUndoable
<1>9. QED
  BY <1>1, <1>3, <1>5, <1>6, <1>7, <1>8 DEF KeptInv

\* Every step keeps KeptInv when no process is killed in the windows.
LEMMA NextKeepsKept ==
  ASSUME KillWindows = {}, PlaceInv, CoinsInv, KeptInv, [Next]_vars
  PROVE  KeptInv'
<1> PlaceInv'
  BY NextKeepsPlaces
<1>1. ASSUME NEW b \in Blocks \ {Genesis}, AcceptBlock(b) PROVE KeptInv'
  BY <1>1, AcceptKeepsKept
<1>2. ASSUME NEW b \in Blocks \ {Genesis}, ConnectTip(b) PROVE KeptInv'
  BY <1>2, ConnectKeepsKept
<1>3. CASE DisconnectTip
  BY <1>3, DisconnectKeepsKept DEF DisconnectTip
<1>4. CASE \/ \E full \in BOOLEAN, prune \in SUBSET Files : FlushStateToDisk(full, prune)
           \/ Shutdown
  BY <1>4, FlushesKeepKept
<1>5. CASE RewindBlockIndex
  BY <1>5, RewindKeepsKept
<1>6. CASE WriteBatchSync \/ UnlinkPrunedFiles
  BY <1>6, WriteKeepsKept
<1>7. CASE FlushCoins
  BY <1>7, FlushCoinsKeepsKept
<1>8. CASE LoadBlockIndexDB
  BY <1>8, LoadKeepsKept
<1>9. CASE RewindDisconnect
  BY <1>9, DisconnectKeepsKept DEF RewindDisconnect
<1>10. CASE UpdateTip \/ VerifyDB
  BY <1>10, TipKeepsKept
<1>11. CASE Exit
  <2>1. Forget /\ UNCHANGED <<blockTree, coinsDB>> /\ pc \in {"exit", "refused"}
    BY <1>11 DEF Exit
  <2>2. Window = {}
    BY <2>1, WindowMeans
  <2> QED BY <2>1, <2>2, ForgetKeepsKept
<1>12. CASE Kill
  <2>1. Forget /\ UNCHANGED <<blockTree, coinsDB>> /\ Window = {}
    BY <1>12 DEF Kill
  <2> QED BY <2>1, ForgetKeepsKept
<1>13. CASE UNCHANGED vars
  <2>1. UNCHANGED <<mapBlockIndex, vinfoBlockFile, tip, coinsTip, pc, home, flush, blockTree, coinsDB>>
    BY <1>13 DEF vars, memory, control
  <2>2. TipMoves'
    BY <2>1, KeptMeans DEF TipMoves, Moving
  <2>3. Window' = {} => Window = {}
    BY <2>1, WindowMeans
  <2> QED BY <2>1, <2>2, <2>3, KeptMeans, KeptNext
<1>14. QED
  BY <1>1, <1>2, <1>3, <1>4, <1>5, <1>6, <1>7, <1>8, <1>9, <1>10, <1>11, <1>12, <1>13
     DEF Next, FlushStep, StartStep

\* Wherever the node is killed outside the two windows, what is on disk is consistent:
\* the index database tells the truth about committed data, covers the coins, and what
\* cannot be undone of them, because it was pruned and perhaps stored again, is buried
\* under a chain the node has, as long as MIN_BLOCKS_TO_KEEP.
THEOREM StoreAlwaysConsistent ==
  ASSUME KillWindows = {}
  PROVE  Spec => []StoreConsistent
<1>1. Init => PlaceInv /\ CoinsInv /\ KeptInv
  BY InitPlaces, InitCoins, InitKept
<1>2. (PlaceInv /\ CoinsInv /\ KeptInv) /\ [Next]_vars => (PlaceInv /\ CoinsInv /\ KeptInv)'
  BY NextKeepsPlaces, NextKeepsCoins, NextKeepsKept
<1>3. PlaceInv /\ CoinsInv /\ KeptInv => StoreConsistent
  BY DEF PlaceInv, CoinsInv, KeptInv, StoreConsistent
<1>4. QED
  BY <1>1, <1>2, <1>3, PTL DEF Spec

\* No step stops the node for want of data.
LEMMA NextNeverAborts ==
  ASSUME ShallowForks, PlaceInv, CoinsInv, KeptInv, NeverAborts, [Next]_vars
  PROVE  NeverAborts'
<1>1. ASSUME pc = "idle" \/ pc = "rewind", DisconnectBlock(tip), mapBlockIndex[tip].undo # NoPos
      PROVE  pc' # "abort"
  <2>1. tip \in Blocks
    BY <1>1 DEF PlaceInv, TipSet
  <2>2. mapBlockIndex[tip].pos # NoPos
    BY <1>1, <2>1, UndoHasData DEF WithData
  <2>3. ReadBlockFromDisk(mapBlockIndex, tip) /\ UndoReadFromDisk(mapBlockIndex, tip)
    BY <1>1, <2>1, <2>2 DEF ReadBlockFromDisk, UndoReadFromDisk, PlaceInv, IndexPointsAtData, Points
  <2> QED BY <1>1, <2>3 DEF DisconnectBlock
<1>2. CASE DisconnectTip
  BY <1>1, <1>2, TipNotLost DEF DisconnectTip, NeverAborts
<1>3. CASE RewindDisconnect
  <2>1. pc = "rewind" /\ DisconnectBlock(tip) /\ RewindNeeded /\ tip \in Blocks
    BY <1>3 DEF RewindDisconnect, CanRewind, PlaceInv, TipSet
  <2>2. /\ LostLater(mapBlockIndex, tip) /\ Received(mapBlockIndex, tip)
        /\ AncestorsOrSelf[tip] \subseteq Blocks /\ tip \in AncestorsOrSelf[tip]
    BY <2>1, KeptMeans, QuietCoins, TreeFacts
  <2>3. ~Witnessed(mapBlockIndex)
    BY <2>1, <2>2 DEF RewindNeeded, Unwitnessed, Witnessed, Received
  <2>4. tip # Genesis
    <3>1. ASSUME tip = Genesis PROVE FALSE
      BY <2>1, <3>1, AncestryAssumption, StoreAssumption DEF RewindNeeded, Unwitnessed
    <3> QED BY <3>1
  <2>5. mapBlockIndex[tip].undo # NoPos
    BY <2>2, <2>3, <2>4 DEF LostLater, NothingLost, Lost
  <2> QED BY <1>1, <2>1, <2>5 DEF NeverAborts
<1>4. ASSUME NEW b \in Blocks \ {Genesis}, AcceptBlock(b) \/ ConnectTip(b) PROVE pc' # "abort"
  <2>1. CASE ConnectTip(b)
    BY <2>1, ConnectReads DEF ConnectTip
  <2>2. CASE AcceptBlock(b)
    BY <2>2 DEF AcceptBlock, control
  <2> QED BY <1>4, <2>1, <2>2
<1>5. CASE \/ \E full \in BOOLEAN, prune \in SUBSET Files : FlushStateToDisk(full, prune)
           \/ Shutdown
           \/ RewindBlockIndex
  BY <1>5 DEF FlushStateToDisk, Shutdown, RewindBlockIndex, FlushStart, NeverAborts
<1>6. CASE FlushStep
  <2>1. flush.then \in {"idle", "flushed", "verify", "exit"}
    BY DEF PlaceInv, TypeOK
  <2> QED BY <1>6, <2>1 DEF FlushStep, WriteBatchSync, UnlinkPrunedFiles, FlushCoins, AfterIndex, NeverAborts
<1>7. CASE LoadBlockIndexDB \/ VerifyDB \/ UpdateTip
  <2>1. home \in {"rewind", "idle"}
    BY DEF PlaceInv, TypeOK
  <2> QED BY <1>7, <2>1 DEF LoadBlockIndexDB, VerifyDB, UpdateTip, NeverAborts
<1>8. CASE Exit \/ Kill
  BY <1>8 DEF Exit, Kill, Forget, NeverAborts
<1>9. CASE UNCHANGED vars
  BY <1>9 DEF vars, control, NeverAborts
<1>10. QED
  BY <1>2, <1>3, <1>4, <1>5, <1>6, <1>7, <1>8, <1>9 DEF Next, StartStep, NeverAborts

\* A node that prunes can always reorganise, after any number of restarts and of kills
\* outside the two windows, if of two branches at most one is longer than
\* MIN_BLOCKS_TO_KEEP: DisconnectTip and RewindBlockIndex find the block and its undo
\* data, even if pruned blocks were stored again without it, ConnectTip finds the block,
\* and AbortNode is never called.
THEOREM NodeNeverAborts ==
  ASSUME ShallowForks, KillWindows = {}
  PROVE  Spec => []NeverAborts
<1>1. Init => PlaceInv /\ CoinsInv /\ KeptInv /\ NeverAborts
  BY InitPlaces, InitCoins, InitKept DEF Init, NeverAborts
<1>2. (PlaceInv /\ CoinsInv /\ KeptInv /\ NeverAborts) /\ [Next]_vars
        => (PlaceInv /\ CoinsInv /\ KeptInv /\ NeverAborts)'
  BY NextKeepsPlaces, NextKeepsCoins, NextKeepsKept, NextNeverAborts
<1>3. QED
  BY <1>1, <1>2, PTL DEF Spec
=============================================================================
