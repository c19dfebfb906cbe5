-------------------------- MODULE MCBlockDownload ---------------------------
(***************************************************************************)
(* Instances of BlockDownload with two peers and four blocks.              *)
(*                                                                         *)
(*      g --- a1 --- a2               g --- a1 --- a2                      *)
(*       \--- b1                                                           *)
(***************************************************************************)
EXTENDS BlockDownload

CONSTANTS g, a1, a2, b1, p1, p2

ForkBlocks == {g, a1, a2, b1}
ForkParent == [b \in ForkBlocks \ {g} |-> IF b = a2 THEN a1 ELSE g]
ForkAnc == LET A[b \in ForkBlocks] == IF b = g THEN {g} ELSE A[ForkParent[b]] \cup {b}
           IN  [b \in ForkBlocks |-> A[b]]
ForkWork == [b \in ForkBlocks |-> Cardinality(ForkAnc[b])]

\* p1 offers a2 through a1, p2 the rival b1 as well
ForkHas == [p \in {p1, p2} |-> IF p = p1 THEN {a1, a2} ELSE {a1, b1}]

ChainBlocks == {g, a1, a2}
ChainParent == [b \in ChainBlocks \ {g} |-> IF b = a2 THEN a1 ELSE g]
ChainAnc == LET A[b \in ChainBlocks] == IF b = g THEN {g} ELSE A[ChainParent[b]] \cup {b}
            IN  [b \in ChainBlocks |-> A[b]]
ChainWork == [b \in ChainBlocks |-> Cardinality(ChainAnc[b])]

\* Both peers offer a1, without which p1's a2 is of no use.
ChainHas == [p \in {p1, p2} |-> IF p = p1 THEN {a1, a2} ELSE {a1}]

=============================================================================
