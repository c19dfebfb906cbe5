---------------------------- MODULE MCBlockStore ----------------------------
(***************************************************************************)
(* An instance of BlockStore: a block b1 on the genesis block g, stored by *)
(* an old client and to be fetched again, and a longer fork c1, c2, c3.    *)
(***************************************************************************)
EXTENDS BlockStore

CONSTANTS g, b1, c1, c2, c3

MCBlocks == {g, b1, c1, c2, c3}
MCParent == (g :> NoBlock) @@ (b1 :> g) @@ (c1 :> g) @@ (c2 :> c1) @@ (c3 :> c2)
MCOldChain == <<b1>>

=============================================================================
