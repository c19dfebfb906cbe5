------------------------------ MODULE MCTxPool ------------------------------
(***************************************************************************)
(* An instance of TxPool: a coinbase c in the genesis block, which may be  *)
(* spent from the third block on; a spends it, b and d spend a (d spends b *)
(* too), x replaces a, e, whose script is bad, spends what d spends, and y *)
(* spends the coinbase beside them.                                        *)
(***************************************************************************)
EXTENDS TxPool

CONSTANTS c, a, b, d, x, e, y

MCTxs == {c, a, b, d, x, e, y}
MCIns == (c :> {}) @@ (a :> {<<c, 1>>}) @@ (b :> {<<a, 1>>})
         @@ (d :> {<<a, 2>>, <<b, 1>>}) @@ (x :> {<<c, 1>>}) @@ (e :> {<<b, 1>>})
         @@ (y :> {<<c, 2>>})
MCOuts == (c :> 2) @@ (a :> 2) @@ (b :> 1) @@ (d :> 1) @@ (x :> 1) @@ (e :> 1)
          @@ (y :> 1)
MCFee == (c :> 0) @@ (a :> 1) @@ (b :> 2) @@ (d :> 1) @@ (x :> 5) @@ (e :> 1)
         @@ (y :> 1)
MCGenesis == <<c>>

=============================================================================
