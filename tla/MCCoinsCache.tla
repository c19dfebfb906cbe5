---------------------------- MODULE MCCoinsCache ----------------------------
(* Instances of CoinsCache for TLC.                                        *)
EXTENDS CoinsCache, TLC

CONSTANTS base,         \* a coinbase
          stake         \* a coinstake

\* Two outputs, so that a transaction can be spent in part.
MCVout == (base :> {1}) @@ (stake :> {1, 2})

\* The blocks other than the first one are interchangeable.
Symmetry == Permutations(Blocks \ {Genesis})
=============================================================================
