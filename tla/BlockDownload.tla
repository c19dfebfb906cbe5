--------------------------- MODULE BlockDownload ----------------------------
(***************************************************************************)
(* Which peer is asked for which block (main.cpp): the CNodeState of every *)
(* peer, mapBlocksInFlight and its counters, the handlers of INV, HEADERS, *)
(* BLOCK, CMPCTBLOCK and BLOCKTXN, the part of SendMessages that requests  *)
(* blocks and disconnects slow peers, and the arrival and departure of     *)
(* peers.                                                                  *)
(*                                                                         *)
(* One thread handles the messages of all peers, holding cs_main for a     *)
(* whole handler; peers are finalized by the socket thread, and blocks are *)
(* also submitted by RPC and staking threads.  A handler is one step, the  *)
(* call of ActivateBestChain that ends it included: how chainActive changes*)
(* while other threads run is the subject of ChainState, here the tip      *)
(* moves to the best linked block.                                         *)
(*                                                                         *)
(* A peer sends what it likes when it likes, asked or not: a message it    *)
(* delays, loses or repeats is one it sends later, never or again.  Time   *)
(* is not counted: a deadline may pass in any state, and CanDirectFetch and*)
(* the age of the best header, which compare a block's time with the clock,*)
(* may go either way.  Penalties below the ban score may or may not add up *)
(* to it.  Messages that do not touch this state (getheaders, getdata, the *)
(* announcements to the peer) and one-shot connections are left out.       *)
(***************************************************************************)
EXTENDS Integers, FiniteSets

CONSTANTS
    Blocks, Genesis,  \* the blocks with a valid header, and the first
    Parent,           \* hashPrevBlock of every block but Genesis
    Anc,              \* Anc[b]: b and everything it descends from
    Work,             \* nChainWork
    Bad,              \* blocks that CheckBlock or ContextualCheckBlock refuses
    WitnessEnabled,   \* blocks whose successors IsWitnessEnabled
    LocalBlocks,      \* blocks that submitblock or the staker may bring
    Peers,            \* connections, one NodeId each
    Has,              \* Has[p]: the blocks p announces and sends
    Outbound,         \* peers that are not inbound, or are whitelisted
    Clients,          \* peers that offer no NODE_NETWORK, fClient
    HaveWitness,      \* peers that offer NODE_WITNESS
    Whitelisted,      \* fWhitelisted
    Compact,          \* peers that send compact blocks
    Prompt,           \* peers that stay, answer in time and send no rubbish
    MaxInTransit,     \* MAX_BLOCKS_IN_TRANSIT_PER_PEER
    Window,           \* BLOCK_DOWNLOAD_WINDOW
    MinBlocksToKeep,  \* MIN_BLOCKS_TO_KEEP, the limit of fTooFarAhead
    NULL

ASSUME BlocksAssumption ==
    /\ IsFiniteSet(Blocks) /\ Genesis \in Blocks /\ NULL \notin Blocks
    /\ Parent \in [Blocks \ {Genesis} -> Blocks]
    /\ Anc \in [Blocks -> SUBSET Blocks]
    /\ Anc[Genesis] = {Genesis}
    /\ \A b \in Blocks \ {Genesis} :
          b \notin Anc[Parent[b]] /\ Anc[b] = Anc[Parent[b]] \cup {b}
    /\ \A b \in Blocks : b \in Anc[b] /\ Genesis \in Anc[b]
    /\ \A b \in Blocks : \A a \in Anc[b] : Anc[a] \subseteq Anc[b]
    /\ \A b \in Blocks : \A x, y \in Anc[b] : x \in Anc[y] \/ y \in Anc[x]
    /\ Work \in [Blocks -> Nat]
    /\ \A b \in Blocks \ {Genesis} : Work[Parent[b]] < Work[b]
    /\ Bad \subseteq Blocks \ {Genesis}
    /\ WitnessEnabled \subseteq Blocks
    /\ LocalBlocks \subseteq Blocks \ {Genesis}

ASSUME PeersAssumption ==
    /\ IsFiniteSet(Peers) /\ NULL \notin Peers
    /\ Has \in [Peers -> SUBSET (Blocks \ {Genesis})]
    /\ Outbound \subseteq Peers /\ Clients \subseteq Peers /\ HaveWitness \subseteq Peers
    /\ Whitelisted \subseteq Outbound /\ Compact \subseteq Peers
    /\ Prompt \subseteq Peers
    /\ \A p \in Prompt : Has[p] \cap Bad = {}

ASSUME LimitsAssumption ==
    MaxInTransit \in Nat \ {0} /\ Window \in Nat \ {0} /\ MinBlocksToKeep \in Nat

VARIABLES
    \* the block index, protected by cs_main
    known,               \* keys of mapBlockIndex
    haveData,            \* BLOCK_HAVE_DATA
    failed,              \* BLOCK_FAILED_VALID
    tip,                 \* chainActive.Tip()
    ibd,                 \* IsInitialBlockDownload(), a latch
    \* peers
    status,              \* "new", "connected" (no version yet), "ready"; with
                         \* fDisconnect "refused" if it was set before the
                         \* version, else "closing"; then "gone"
    node,                \* mapNodeState without the download queue
    nPreferredDownload,
    nSyncStarted,
    \* requested blocks
    dl                   \* mapBlocksInFlight, the queues of the peers, counters

chain == <<known, haveData, failed, tip, ibd>>
peers == <<status, node, nPreferredDownload, nSyncStarted>>
vars  == <<chain, peers, dl>>

Statuses == {"new", "connected", "ready", "refused", "closing", "gone"}

\* CNodeState: pindexBestKnownBlock, hashLastUnknownBlock,
\* pindexLastCommonBlock, fSyncStarted, fShouldBan, fPreferredDownload
NodeStates ==
    [best : Blocks \cup {NULL}, unknown : Blocks \cup {NULL},
     common : Blocks \cup {NULL},
     sync : BOOLEAN, ban : BOOLEAN, preferred : BOOLEAN]

NewNode == [best |-> NULL, unknown |-> NULL, common |-> NULL,
            sync |-> FALSE, ban |-> FALSE, preferred |-> FALSE]

\* by: the peer mapBlocksInFlight names for a block;  queue: the hashes in
\* vBlocksInFlight, whose order only matters for the clock;  valid and
\* partial: the entries with fValidatedHeaders and with a partialBlock;
\* nBlocks, nValid, nPeers: nBlocksInFlight, nBlocksInFlightValidHeaders and
\* nPeersWithValidatedDownloads;  stalling: the peers with nStallingSince # 0;
\* nullPit: the blocks for which MarkBlockAsInFlight wrote through the null
\* pointer of a caller that passes no pit, which ends the program
Downloads ==
    [by : [Blocks -> Peers \cup {NULL}], queue : [Peers -> SUBSET Blocks],
     valid : SUBSET Blocks, partial : SUBSET Blocks,
     nBlocks : [Peers -> Int], nValid : [Peers -> Int], nPeers : Int,
     stalling : SUBSET Peers, nullPit : SUBSET Blocks]

Idle == [by |-> [b \in Blocks |-> NULL], queue |-> [p \in Peers |-> {}],
         valid |-> {}, partial |-> {},
         nBlocks |-> [p \in Peers |-> 0], nValid |-> [p \in Peers |-> 0], nPeers |-> 0,
         stalling |-> {}, nullPit |-> {}]

TypeOK ==
    /\ known \subseteq Blocks /\ haveData \subseteq known
    /\ failed \subseteq known \ haveData
    /\ Anc[tip] \subseteq haveData /\ tip \in Blocks
    /\ ibd \in BOOLEAN
    /\ status \in [Peers -> Statuses]
    /\ node \in [Peers -> NodeStates]
    /\ nPreferredDownload \in Int /\ nSyncStarted \in Int
    /\ dl \in Downloads

Init ==
    /\ known = {Genesis} /\ haveData = {Genesis} /\ failed = {} /\ tip = Genesis
    /\ ibd = TRUE
    /\ status = [p \in Peers |-> "new"]
    /\ node = [p \in Peers |-> NewNode]
    /\ nPreferredDownload = 0 /\ nSyncStarted = 0
    /\ dl = Idle

-----------------------------------------------------------------------------
(* The block tree                                                          *)

Height == [b \in Blocks |-> Cardinality(Anc[b]) - 1]

\* The highest block of a set of blocks of one chain, and the lowest
Highest(S) == CHOOSE b \in S : S \subseteq Anc[b]
Lowest(S)  == CHOOSE b \in S : \A a \in S : b \in Anc[a]

\* The n lowest blocks of a set of blocks of one chain
FirstOf(S, n) == {b \in S : Cardinality(S \cap Anc[b]) <= n}

\* Blocks with nChainTx # 0 when the blocks of H have data
Linked(H) == {b \in Blocks : Anc[b] \subseteq H}

LastCommonAncestor(a, b) == Highest(Anc[a] \cap Anc[b])

One(condition) == IF condition THEN 1 ELSE 0

-----------------------------------------------------------------------------
(* Blocks in flight                                                        *)

InFlight(d, b) == d.by[b] # NULL

\* MarkBlockAsReceived: the block's entry, if it has one, is forgotten.
MarkBlockAsReceived(d, b) ==
    LET p == d.by[b]
        v == b \in d.valid
        n == d.nValid[p] - One(v)
    IN  IF p = NULL THEN d
        ELSE [by       |-> [d.by EXCEPT ![b] = NULL],
              queue    |-> [d.queue EXCEPT ![p] = @ \ {b}],
              valid    |-> d.valid \ {b},
              partial  |-> d.partial \ {b},
              nBlocks  |-> [d.nBlocks EXCEPT ![p] = @ - 1],
              nValid   |-> [d.nValid EXCEPT ![p] = n],
              nPeers   |-> d.nPeers - One(n = 0 /\ v),
              stalling |-> d.stalling \ {p},
              nullPit  |-> d.nullPit]

\* MarkBlockAsReceived for each block of S
MarkBlocksAsReceived(d, S) ==
    LET entries(q) == {b \in S : d.by[b] = q}
        v(q)       == entries(q) \cap d.valid
        none(q)    == v(q) # {} /\ d.nValid[q] = Cardinality(v(q))
        gone       == UNION {entries(q) : q \in Peers}
    IN  IF \A b \in S : ~InFlight(d, b) THEN d
        ELSE [by       |-> [b \in Blocks |-> IF b \in S THEN NULL ELSE d.by[b]],
              queue    |-> [q \in Peers |-> d.queue[q] \ entries(q)],
              valid    |-> d.valid \ gone,
              partial  |-> d.partial \ gone,
              nBlocks  |-> [q \in Peers |-> d.nBlocks[q] - Cardinality(entries(q))],
              nValid   |-> [q \in Peers |-> d.nValid[q] - Cardinality(v(q))],
              nPeers   |-> d.nPeers - Cardinality({q \in Peers : none(q)}),
              stalling |-> {q \in d.stalling : entries(q) = {}},
              nullPit  |-> d.nullPit]

\* The end of MarkBlockAsInFlight for each block of S in turn: the test of
\* nBlocksInFlightValidHeaders for 1 holds at most for the first of them.
Inserted(d, p, S, validated, withPartial) ==
    LET n == Cardinality(S)
        v == IF validated THEN n ELSE 0
    IN  [by       |-> [b \in Blocks |-> IF b \in S THEN p ELSE d.by[b]],
         queue    |-> [d.queue EXCEPT ![p] = @ \cup S],
         valid    |-> IF validated THEN d.valid \cup S ELSE d.valid,
         partial  |-> IF withPartial THEN d.partial \cup S ELSE d.partial,
         nBlocks  |-> [d.nBlocks EXCEPT ![p] = @ + n],
         nValid   |-> [d.nValid EXCEPT ![p] = @ + v],
         nPeers   |-> d.nPeers + One(d.nValid[p] = 0 /\ v > 0),
         stalling |-> d.stalling,
         nullPit  |-> d.nullPit]

\* MarkBlockAsInFlight for each block of S in turn: an entry of the same peer
\* stays as it is, with a write through pit, which is null for the callers
\* that want no partialBlock; an entry of another peer is given up first.
MarkBlocksAsInFlight(d, p, S, validated, withPartial) ==
    LET same == {b \in S : d.by[b] = p}
        new  == S \ same
        e    == Inserted(MarkBlocksAsReceived(d, new), p, new, validated, withPartial)
    IN  IF withPartial THEN e ELSE [e EXCEPT !.nullPit = @ \cup same]

\* Mutant of Finalized: the entries of mapBlocksInFlight stay.
FinalizedKeepsMap(d, p) ==
    [by       |-> d.by,
     queue    |-> [d.queue EXCEPT ![p] = {}],
     valid    |-> d.valid \ d.queue[p],
     partial  |-> d.partial \ d.queue[p],
     nBlocks  |-> [d.nBlocks EXCEPT ![p] = 0],
     nValid   |-> [d.nValid EXCEPT ![p] = 0],
     nPeers   |-> d.nPeers - One(d.nValid[p] # 0),
     stalling |-> d.stalling \ {p},
     nullPit  |-> d.nullPit]

\* What FinalizeNode does to the requests of p
Finalized(d, p) ==
    [by       |-> [b \in Blocks |-> IF b \in d.queue[p] THEN NULL ELSE d.by[b]],
     queue    |-> [d.queue EXCEPT ![p] = {}],
     valid    |-> d.valid \ d.queue[p],
     partial  |-> d.partial \ d.queue[p],
     nBlocks  |-> [d.nBlocks EXCEPT ![p] = 0],
     nValid   |-> [d.nValid EXCEPT ![p] = 0],
     nPeers   |-> d.nPeers - One(d.nValid[p] # 0),
     stalling |-> d.stalling \ {p},
     nullPit  |-> d.nullPit]

-----------------------------------------------------------------------------
(* What a peer is known to have                                            *)

BetterOf(best, b) == IF best = NULL \/ Work[b] >= Work[best] THEN b ELSE best

\* n is the state of a peer, K the block index
ProcessBlockAvailability(n, K) ==
    IF n.unknown \in K
    THEN [n EXCEPT !.best = BetterOf(n.best, n.unknown), !.unknown = NULL]
    ELSE n

UpdateBlockAvailability(n, b, K) ==
    LET m == ProcessBlockAvailability(n, K)
    IN  IF b \in K THEN [m EXCEPT !.best = BetterOf(m.best, b)]
                   ELSE [m EXCEPT !.unknown = b]

\* The peer can send the successor of prev in the form it is needed.
CanServe(p, prev) == p \in HaveWitness \/ prev \notin WitnessEnabled

\* Mutant of LastLinked: nChainTx is not asked for.
LastStored(common, walk) ==
    LET stored == walk \cap haveData
    IN  IF stored = {} THEN common
        ELSE CHOOSE b \in stored : \A a \in stored : Height[a] <= Height[b]

\* pindexLastCommonBlock after the walk
LastLinked(common, walk) ==
    LET linked == walk \cap Linked(haveData)
    IN  IF linked = {} THEN common ELSE Highest(linked)

\* FindNextBlocksToDownload for a peer whose state is n: its new state, the
\* blocks to request (vBlocks) and the peer that holds up the window
FindNextBlocksToDownload(p, count) ==
    LET n      == ProcessBlockAvailability(node[p], known)
        guess  == IF n.common # NULL THEN n.common
                  ELSE Highest({a \in Anc[tip] : Height[a] <= Height[n.best]})
        common == LastCommonAncestor(guess, n.best)
        end    == Height[common] + Window
        \* vToFetch up to the first block marked invalid
        walk   == {b \in Anc[n.best] \ Anc[common] :
                      Height[b] <= end + 1 /\ Anc[b] \cap failed \subseteq Anc[common]}
        wanted == walk \ haveData
        free   == {b \in wanted : ~InFlight(dl, b)}
        inside == {b \in free : Height[b] <= end}
        held   == wanted \ free
        waits  == IF held = {} THEN NULL ELSE dl.by[Lowest(held)]
    IN  IF n.best = NULL \/ Work[n.best] < Work[tip]
        THEN [node |-> n, fetch |-> {}, staller |-> NULL]
        ELSE [node    |-> [n EXCEPT !.common = LastLinked(common, walk)],
              fetch   |-> FirstOf(inside, count),
              staller |-> IF inside = {} /\ free # {} /\ waits # p THEN waits ELSE NULL]

-----------------------------------------------------------------------------
(* Accepting headers and blocks                                            *)

\* AcceptBlockHeader of a header that passes its own checks
AcceptBlockHeader(b) ==
    CASE b \in failed              -> "duplicate"
      [] b \in known \ failed      -> "ok"
      [] b \notin known /\ Parent[b] \notin known -> "orphan"
      [] b \notin known /\ Parent[b] \in failed   -> "badparent"
      [] OTHER                     -> "ok"

\* AcceptBlock goes on to check and store the block.
Processes(b, requested) ==
    /\ AcceptBlockHeader(b) = "ok"
    /\ b \notin haveData
    /\ \/ requested
       \/ Work[b] > Work[tip] /\ Height[b] <= Height[tip] + MinBlocksToKeep

\* The result of AcceptBlock, as a penalty for the peer; corrupt: the
\* transactions are not the ones the header commits to
BlockPenalty(b, requested, corrupt) ==
    CASE AcceptBlockHeader(b) = "orphan"    -> "some"
      [] AcceptBlockHeader(b) = "badparent" -> "ban"
      [] OTHER -> IF Processes(b, requested) /\ (corrupt \/ b \in Bad) THEN "ban" ELSE "none"

HeaderPenalty(b) == IF AcceptBlockHeader(b) = "badparent" THEN "ban" ELSE "none"

\* Misbehaving: n after a penalty of the given size
Misbehaving(n, p, penalty) ==
    CASE penalty = "ban"  -> {[n EXCEPT !.ban = TRUE]}
      [] penalty = "some" -> {n} \cup IF p \in Prompt THEN {} ELSE {[n EXCEPT !.ban = TRUE]}
      [] OTHER -> {n}

\* The tips ActivateBestChain may choose when the blocks of H have data
ActivateBestChain(H) ==
    LET best == {b \in Linked(H) : \A c \in Linked(H) : Work[c] <= Work[b]}
    IN  IF \E b \in best : Work[b] > Work[tip] THEN best ELSE {tip}

\* ProcessNewBlock without its first line, MarkBlockAsReceived
ProcessNewBlock(b, requested, corrupt) ==
    LET checks == Processes(b, requested) /\ ~corrupt
    IN  /\ known' = IF AcceptBlockHeader(b) = "ok" THEN known \cup {b} ELSE known
        /\ haveData' = IF checks /\ b \notin Bad THEN haveData \cup {b} ELSE haveData
        /\ failed' = IF checks /\ b \in Bad THEN failed \cup {b} ELSE failed
        /\ tip' \in ActivateBestChain(haveData')
        /\ UNCHANGED ibd

-----------------------------------------------------------------------------
(* Peers come and go                                                       *)

\* The constructor of CNode
InitializeNode(p) ==
    /\ status[p] = "new"
    /\ status' = [status EXCEPT ![p] = "connected"]
    /\ node' = [node EXCEPT ![p] = NewNode]
    /\ UNCHANGED <<chain, nPreferredDownload, nSyncStarted, dl>>

\* VERSION, with UpdatePreferredDownload
Version(p) ==
    /\ status[p] = "connected"
    /\ status' = [status EXCEPT ![p] = "ready"]
    /\ node' = [node EXCEPT ![p].preferred = p \in Outbound \ Clients]
    /\ nPreferredDownload' = nPreferredDownload - One(node[p].preferred)
                                + One(p \in Outbound \ Clients)
    /\ UNCHANGED <<chain, nSyncStarted, dl>>

\* The socket thread, an unacceptable version or the operator sets fDisconnect.
Disconnect(p) ==
    /\ status[p] \in {"connected", "ready"} /\ p \notin Prompt
    /\ status' = [status EXCEPT ![p] = IF @ = "ready" THEN "closing" ELSE "refused"]
    /\ UNCHANGED <<chain, node, nPreferredDownload, nSyncStarted, dl>>

\* Mutant of FinalizeNode: nSyncStarted is not decremented.
FinalizeNodeSyncing(p) ==
    /\ status[p] \in {"refused", "closing"}
    /\ status' = [status EXCEPT ![p] = "gone"]
    /\ node' = [node EXCEPT ![p] = NewNode]
    /\ nPreferredDownload' = nPreferredDownload - One(node[p].preferred)
    /\ dl' = Finalized(dl, p)
    /\ UNCHANGED <<chain, nSyncStarted>>

\* The destructor of CNode
FinalizeNode(p) ==
    /\ status[p] \in {"refused", "closing"}
    /\ status' = [status EXCEPT ![p] = "gone"]
    /\ node' = [node EXCEPT ![p] = NewNode]
    /\ nSyncStarted' = nSyncStarted - One(node[p].sync)
    /\ nPreferredDownload' = nPreferredDownload - One(node[p].preferred)
    /\ dl' = Finalized(dl, p)
    /\ UNCHANGED chain

-----------------------------------------------------------------------------
(* Messages from a peer                                                    *)

\* Mutant of Inv: mapBlocksInFlight is not consulted.
InvAgain(p, b, direct) ==
    LET fetches == b \notin known /\ direct /\ dl.nBlocks[p] < MaxInTransit /\ CanServe(p, tip)
    IN  /\ status[p] = "ready"
        /\ node' = [node EXCEPT ![p] = UpdateBlockAvailability(@, b, known)]
        /\ dl' = IF fetches THEN MarkBlocksAsInFlight(dl, p, {b}, FALSE, FALSE) ELSE dl
        /\ UNCHANGED <<chain, status, nPreferredDownload, nSyncStarted>>

\* INV of a block; direct is the outcome of CanDirectFetch
Inv(p, b, direct) ==
    LET fetches == /\ b \notin known /\ ~InFlight(dl, b)
                   /\ direct
                   /\ dl.nBlocks[p] < MaxInTransit
                   /\ CanServe(p, tip)
    IN  /\ status[p] = "ready"
        /\ node' = [node EXCEPT ![p] = UpdateBlockAvailability(@, b, known)]
        /\ dl' = IF fetches THEN MarkBlocksAsInFlight(dl, p, {b}, FALSE, FALSE) ELSE dl
        /\ UNCHANGED <<chain, status, nPreferredDownload, nSyncStarted>>

\* The blocks HEADERS fetches to switch to last: the walk back from last gives
\* up when it has found more than MAX_BLOCKS_IN_TRANSIT_PER_PEER of them
\* before it reaches the active chain.
DirectFetch(p, last) ==
    LET wanted == {b \in Anc[last] \ Anc[tip] :
                      b \notin haveData /\ ~InFlight(dl, b) /\ CanServe(p, Parent[b])}
        n == Cardinality(wanted)
        reached == \/ n <= MaxInTransit
                   \/ n = MaxInTransit + 1 /\ Parent[Lowest(wanted)] \in Anc[tip]
    IN  IF reached THEN FirstOf(wanted, MaxInTransit - dl.nBlocks[p]) ELSE {}

\* HEADERS once its headers are in the index K
HeadersAccepted(p, last, K, direct) ==
    LET fetches == direct /\ last \notin failed /\ Work[tip] <= Work[last]
    IN  /\ node' = [node EXCEPT ![p] = UpdateBlockAvailability(@, last, K)]
        /\ dl' = IF fetches THEN MarkBlocksAsInFlight(dl, p, DirectFetch(p, last), TRUE, FALSE)
                            ELSE dl

\* HEADERS with the headers from first to last
Headers(p, first, last, direct) ==
    LET headers  == {b \in Anc[last] : first \in Anc[b]}
        refused  == {b \in headers : AcceptBlockHeader(b) \in {"duplicate", "badparent"}}
        accepted == {b \in headers : Anc[b] \cap refused = {}}
    IN  /\ status[p] = "ready"
        /\ first \in Anc[last]
        /\ \/ \* the first header does not connect
              /\ AcceptBlockHeader(first) = "orphan"
              /\ \E n \in Misbehaving(UpdateBlockAvailability(node[p], last, known), p, "some") :
                    node' = [node EXCEPT ![p] = n]
              /\ UNCHANGED <<known, dl>>
           \/ \* a header is refused
              /\ AcceptBlockHeader(first) # "orphan" /\ refused # {}
              /\ known' = known \cup accepted
              /\ \E n \in Misbehaving(node[p], p, HeaderPenalty(first)) :
                    node' = [node EXCEPT ![p] = n]
              /\ UNCHANGED dl
           \/ /\ AcceptBlockHeader(first) # "orphan" /\ refused = {}
              /\ known' = known \cup headers
              /\ HeadersAccepted(p, last, known', direct)
        /\ UNCHANGED <<haveData, failed, tip, ibd, status, nPreferredDownload, nSyncStarted>>

\* BLOCK; its transactions may not belong to its header
Block(p, b, corrupt) ==
    LET requested == InFlight(dl, b) \/ (p \in Whitelisted /\ ~ibd)
    IN  /\ status[p] = "ready"
        /\ ProcessNewBlock(b, requested, corrupt)
        /\ dl' = MarkBlockAsReceived(dl, b)
        /\ \E n \in Misbehaving(node[p], p, BlockPenalty(b, requested, corrupt)) :
              node' = [node EXCEPT ![p] = n]
        /\ UNCHANGED <<status, nPreferredDownload, nSyncStarted>>

\* BLOCKTXN for an entry of d that has a partialBlock, m being the state of
\* the sender and outcome the status of FillBlock.  The header is in the index
\* since CMPCTBLOCK.  An invalid answer is not punished.
FillBlock(d, m, p, b, outcome) ==
    \/ /\ outcome = "invalid"
       /\ dl' = MarkBlockAsReceived(d, b)
       /\ node' = [node EXCEPT ![p] = m]
       /\ known' = known \cup {b} /\ UNCHANGED <<haveData, failed, tip, ibd>>
    \/ /\ outcome = "failed"
       /\ dl' = d
       /\ node' = [node EXCEPT ![p] = m]
       /\ known' = known \cup {b} /\ UNCHANGED <<haveData, failed, tip, ibd>>
    \/ /\ outcome = "ok"
       /\ ProcessNewBlock(b, TRUE, FALSE)
       /\ dl' = MarkBlockAsReceived(d, b)
       /\ \E n \in Misbehaving(m, p, BlockPenalty(b, TRUE, FALSE)) :
             node' = [node EXCEPT ![p] = n]

BlockTxn(p, b, outcome) ==
    /\ status[p] = "ready"
    /\ dl.by[b] = p /\ b \in dl.partial
    /\ FillBlock(dl, node[p], p, b, outcome)
    /\ UNCHANGED <<status, nPreferredDownload, nSyncStarted>>

\* CMPCTBLOCK.  init: InitData finds the message invalid, asks for more (for
\* the whole block after READ_STATUS_FAILED, else for the transactions that
\* are not in the mempool), or misses nothing, and the handler jumps to
\* BLOCKTXN, with the given outcome.
CmpctBlock(p, b, direct, init, outcome) ==
    LET K == known \cup {b}
        m == UpdateBlockAvailability(node[p], b, K)
        by == dl.by[b]
        ignored == \/ b \in haveData \/ Work[b] <= Work[tip]
                   \/ by = NULL /\ ~direct
        near == Height[b] <= Height[tip] + 2
        takes == \/ by = NULL /\ dl.nBlocks[p] < MaxInTransit
                 \/ by = p /\ b \notin dl.partial
        e == MarkBlocksAsInFlight(dl, p, {b}, TRUE, TRUE)
        d == IF by = p THEN [e EXCEPT !.partial = @ \cup {b}] ELSE e
    IN  /\ status[p] = "ready"
        /\ UNCHANGED <<status, nPreferredDownload, nSyncStarted>>
        /\ \/ \* does not connect: deeper headers are asked for
              /\ AcceptBlockHeader(b) = "orphan"
              /\ UNCHANGED <<chain, node, dl>>
           \/ /\ AcceptBlockHeader(b) \in {"duplicate", "badparent"}
              /\ \E n \in Misbehaving(node[p], p, HeaderPenalty(b)) :
                    node' = [node EXCEPT ![p] = n]
              /\ UNCHANGED <<chain, dl>>
           \/ \* nothing to do, or the whole block is asked for
              /\ AcceptBlockHeader(b) = "ok"
              /\ ignored \/ (near /\ ~takes) \/ (~near /\ by # NULL)
              /\ known' = K /\ node' = [node EXCEPT ![p] = m]
              /\ UNCHANGED <<haveData, failed, tip, ibd, dl>>
           \/ \* too far ahead: handled as HEADERS
              /\ AcceptBlockHeader(b) = "ok"
              /\ ~ignored /\ ~near /\ by = NULL
              /\ known' = K /\ HeadersAccepted(p, b, K, direct)
              /\ UNCHANGED <<haveData, failed, tip, ibd>>
           \/ /\ AcceptBlockHeader(b) = "ok"
              /\ ~ignored /\ near /\ takes
              /\ \/ \* punished, the in-flight state is reset
                    /\ init = "invalid"
                    /\ dl' = MarkBlockAsReceived(d, b)
                    /\ node' = [node EXCEPT ![p] = [m EXCEPT !.ban = TRUE]]
                    /\ known' = K /\ UNCHANGED <<haveData, failed, tip, ibd>>
                 \/ /\ init = "asks"
                    /\ dl' = d
                    /\ known' = K /\ node' = [node EXCEPT ![p] = m]
                    /\ UNCHANGED <<haveData, failed, tip, ibd>>
                 \/ init = "complete" /\ FillBlock(d, m, p, b, outcome)

\* ProcessNewBlock called by submitblock or by the staker
LocalBlock(b) ==
    /\ ProcessNewBlock(b, TRUE, FALSE)
    /\ dl' = MarkBlockAsReceived(dl, b)
    /\ UNCHANGED peers

-----------------------------------------------------------------------------
(* What the node does by itself                                            *)

\* The tip or the best header is recent: IsInitialBlockDownload, called from
\* many places, sets its latch.
LeaveInitialBlockDownload ==
    /\ ibd
    /\ ibd' = FALSE
    /\ UNCHANGED <<known, haveData, failed, tip, peers, dl>>

\* Mutant of Blamed: the peer that waits is blamed.
BlamesWaiting(p, d, staller) ==
    IF d.nBlocks[p] = 0 /\ staller # NULL /\ p \in HaveWitness
    THEN [d EXCEPT !.stalling = @ \cup {p}]
    ELSE d

\* SendMessages notes since when staller holds up p, which waits for nothing
\* else.
Blamed(p, d, staller) ==
    IF d.nBlocks[p] = 0 /\ staller # NULL /\ p \in HaveWitness
    THEN [d EXCEPT !.stalling = @ \cup {staller}]
    ELSE d

\* fShouldBan has consequences for a peer that is not whitelisted.
Punished(p) == node[p].ban /\ p \notin Whitelisted

\* A nice peer, or there are no nice peers and this one might do
FetchesFrom(p) == node[p].preferred \/ (nPreferredDownload = 0 /\ p \notin Clients)

\* Headers are requested from a single peer, unless the best one is of today.
StartsSync(p, today) ==
    /\ ~node[p].sync /\ p \notin Clients
    /\ (nSyncStarted = 0 /\ FetchesFrom(p)) \/ today

\* SendMessages; stalled, late: nStallingSince or nDownloadingSince are too
\* long ago;  today: pindexBestHeader is less than a day old.  ThreadMessage-
\* Handler does not look at fDisconnect between a peer's message and this.
SendMessages(p, stalled, late, today) ==
    LET fDisconnect == status[p] = "closing" \/ Punished(p) \/ stalled \/ late
        asks == /\ ~fDisconnect /\ p \notin Clients
                /\ FetchesFrom(p) \/ ~ibd
                /\ dl.nBlocks[p] < MaxInTransit
        found == IF asks THEN FindNextBlocksToDownload(p, MaxInTransit - dl.nBlocks[p])
                 ELSE [node |-> node[p], fetch |-> {}, staller |-> NULL]
    IN  /\ status[p] \in {"ready", "closing"}
        /\ stalled => p \in dl.stalling
        /\ late => dl.queue[p] # {}
        /\ nSyncStarted' = nSyncStarted + One(StartsSync(p, today))
        /\ status' = IF fDisconnect THEN [status EXCEPT ![p] = "closing"] ELSE status
        /\ \E f \in {found} :
              /\ node' = [node EXCEPT ![p] = [f.node EXCEPT !.sync = @ \/ StartsSync(p, today),
                                                            !.ban = FALSE]]
              /\ dl' = Blamed(p, MarkBlocksAsInFlight(dl, p,
                                    {b \in f.fetch : CanServe(p, Parent[b])}, TRUE, FALSE),
                              f.staller)
        /\ UNCHANGED <<chain, nPreferredDownload>>

-----------------------------------------------------------------------------

\* A prompt peer misses no deadline and sends what it should.
Message(p) ==
    \/ \E b \in Has[p], direct \in BOOLEAN : Inv(p, b, direct)
    \/ \E first, last \in Has[p], direct \in BOOLEAN : Headers(p, first, last, direct)
    \/ \E b \in Has[p], corrupt \in BOOLEAN : (p \in Prompt => ~corrupt) /\ Block(p, b, corrupt)
    \/ /\ p \in Compact
       /\ \E b \in Has[p], direct \in BOOLEAN :
             \/ \E init \in {"invalid", "asks"} :
                   /\ p \in Prompt => init # "invalid"
                   /\ CmpctBlock(p, b, direct, init, "ok")
             \/ \E outcome \in {"invalid", "failed", "ok"} :
                   /\ p \in Prompt => outcome # "invalid"
                   /\ CmpctBlock(p, b, direct, "complete", outcome)
    \/ /\ p \in Compact
       /\ \E b \in Has[p], outcome \in {"invalid", "failed", "ok"} :
             (p \in Prompt => outcome # "invalid") /\ BlockTxn(p, b, outcome)

Send(p) ==
    \E stalled, late, today \in BOOLEAN :
        (p \in Prompt => ~stalled /\ ~late) /\ SendMessages(p, stalled, late, today)

Next ==
    \/ \E p \in Peers :
          \/ InitializeNode(p) \/ Version(p) \/ Disconnect(p) \/ FinalizeNode(p)
          \/ Message(p)
          \/ Send(p)
    \/ \E b \in LocalBlocks : LocalBlock(b)
    \/ LeaveInitialBlockDownload

Spec == Init /\ [][Next]_vars

\* Scheduling.  The message handler visits every peer again and again; a
\* deadline passes unless the peer does something; the socket thread deletes
\* a disconnected peer; a prompt peer sends the blocks it was asked for.
Fairness ==
    /\ \A p \in Peers : WF_vars(SendMessages(p, FALSE, FALSE, FALSE))
    /\ \A p \in Peers \ Prompt : /\ WF_vars(SendMessages(p, FALSE, TRUE, FALSE))
                                 /\ WF_vars(FinalizeNode(p))
    /\ \A p \in Prompt : WF_vars(\E b \in Has[p] : dl.by[b] = p /\ Block(p, b, FALSE))

FairSpec == Spec /\ Fairness

-----------------------------------------------------------------------------
(* Safety                                                                  *)

\* mapBlocksInFlight and the queues of the peers tell the same story: each
\* entry is in the queue of the one peer the map names, that peer is in
\* mapNodeState, and a block that has arrived is no longer waited for.  The
\* iterators the map holds, and State() of its peers, are used unchecked
\* (MarkBlockAsReceived, main.cpp:419).
InFlightAgrees ==
    /\ \A b \in Blocks, p \in Peers : dl.by[b] = p <=> b \in dl.queue[p]
    /\ \A b \in dl.valid \cup dl.partial : InFlight(dl, b)
    /\ \A b \in Blocks : InFlight(dl, b) =>
          b \notin haveData /\ status[dl.by[b]] \in {"ready", "closing"}

\* The counters are what they count.  nPeersWithValidatedDownloads stretches
\* the download timeout of every peer and nPreferredDownload and nSyncStarted
\* decide who is asked at all, so a lost update never heals; FinalizeNode
\* asserts that they are zero after the last peer (main.cpp:406).
CountersAgree ==
    /\ \A p \in Peers : /\ dl.nBlocks[p] = Cardinality(dl.queue[p])
                        /\ dl.nValid[p] = Cardinality(dl.queue[p] \cap dl.valid)
    /\ dl.nPeers = Cardinality({p \in Peers : dl.queue[p] \cap dl.valid # {}})
    /\ nPreferredDownload = Cardinality({p \in Peers : node[p].preferred})
    /\ nSyncStarted = Cardinality({p \in Peers : node[p].sync})

\* No peer is ever asked for more than MAX_BLOCKS_IN_TRANSIT_PER_PEER blocks
\* at a time, although five handlers with four different tests ask for them.
InTransitBounded == \A p \in Peers : Cardinality(dl.queue[p]) <= MaxInTransit

\* The bookkeeping of requests holds together after every message, timeout and
\* disconnection: the map, the queues and the counters agree and no peer is asked
\* for more than the limit.
RequestsConsistent == TypeOK /\ InFlightAgrees /\ CountersAgree /\ InTransitBounded

\* A peer is only on its way to being disconnected for stalling while it
\* still owes a block (nStallingSince, main.cpp:430 and 7402).
StallersOweBlocks == \A p \in dl.stalling : dl.queue[p] # {}

\* pindexLastCommonBlock and all before it are stored, so that nothing below
\* it is skipped by the search that starts there (main.cpp:595).
NothingSkipped ==
    \A p \in Peers : node[p].common # NULL => Anc[node[p].common] \subseteq haveData

\* A block is requested only when it is neither here nor in flight, from
\* anyone: no request takes a block over from another peer, and none repeats
\* one to the same peer, where MarkBlockAsInFlight would write through the
\* null pointer of three of its four callers (main.cpp:447).
RequestedOnce ==
    [][/\ dl'.nullPit = {}
       /\ \A b \in Blocks : (InFlight(dl, b)' /\ dl.by[b]' # dl.by[b]) =>
             ~InFlight(dl, b) /\ b \notin haveData]_vars

-----------------------------------------------------------------------------
(* Liveness                                                                *)

\* Whatever the other peers do, a prompt preferred peer with a better chain
\* brings the node to at least the work of that chain: the requests that
\* other peers never answer are taken back in the end (main.cpp:7369).
CatchesUp ==
    \A p \in Prompt \cap (Outbound \ Clients) \cap HaveWitness, c \in Blocks :
        (status[p] = "ready" /\ node[p].best = c) ~> (Work[tip] >= Work[c])

=============================================================================
