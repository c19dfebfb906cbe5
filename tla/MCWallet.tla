------------------------------ MODULE MCWallet ------------------------------
(***************************************************************************)
(* An instance of Wallet.  p pays the wallet three coins; w is a payment   *)
(* with change and v spends the change; t, made by another copy of the     *)
(* wallet, spends the same coin as w; s stakes a coin.  On the block base  *)
(* stand b1, with s and t, and a fork c1, c2 with w and v.                 *)
(***************************************************************************)
EXTENDS Wallet, TLC

CONSTANTS p, w, v, t, s, base, b1, c1, c2

MCTxs == {p, w, v, t, s}
MCTxOrder == <<p, s, t, v, w>>
MCOuts == (p :> {0, 1, 2}) @@ (w :> {0}) @@ (v :> {0}) @@ (t :> {0}) @@ (s :> {0})
MCInputs == (p :> {}) @@ (w :> {<<p, 0>>}) @@ (v :> {<<w, 0>>, <<p, 2>>})
            @@ (t :> {<<p, 0>>}) @@ (s :> {<<p, 1>>})
MCOurs == {<<p, 0>>, <<p, 1>>, <<p, 2>>, <<w, 0>>, <<s, 0>>}
MCBlocks == {base, b1, c1, c2}
MCChain == (base :> <<base>>) @@ (b1 :> <<base, b1>>) @@ (c1 :> <<base, c1>>) @@ (c2 :> <<base, c1, c2>>)
MCVtx == (base :> <<p>>) @@ (b1 :> <<s, t>>) @@ (c1 :> <<w>>) @@ (c2 :> <<v>>)

=============================================================================
