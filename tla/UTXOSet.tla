------------------------------ MODULE UTXOSet ------------------------------
(***************************************************************************)
(* What the stack of coin views promises, whatever it caches: one unspent  *)
(* output set that is durable, one that is committed and one being worked  *)
(* on. A block changes the working set, committing it is atomic, a crash   *)
(* falls back to the durable set, and each set travels with the hash of    *)
(* the block whose state it is.                                            *)
(*                                                                         *)
(* Code: the contract in the comments of src/src/coins.h (CCoinsView,      *)
(* CCoinsViewCache::Flush).                                                *)
(***************************************************************************)
CONSTANTS Txs,          \* the transactions
          Outputs,      \* the positions an output can have
          Vout,         \* the outputs of each transaction
          Blocks,       \* the blocks a set can be the state of
          Genesis       \* the block of the initial state

VARIABLES durable,      \* the set on disk and its block
          committed,    \* the set of the chain's tip and its block
          working,      \* the set a block is being applied to
          broken        \* a write has failed, after which nothing is promised

vars == <<durable, committed, working, broken>>

State(outs, best) == [outs |-> outs, best |-> best]

\* An empty set of outputs stands for a transaction that is absent or pruned.
Init == /\ durable = State([t \in Txs |-> {}], Genesis)
        /\ committed = durable
        /\ working = durable
        /\ broken = FALSE

\* Only the working set changes: transaction t now has exactly outs unspent.
Change(t, outs) ==
    /\ working' = State([working.outs EXCEPT ![t] = outs], working.best)
    /\ UNCHANGED <<durable, committed, broken>>

Create(t) == Change(t, Vout[t])

Spend(t, n) == n \in working.outs[t] /\ Change(t, working.outs[t] \ {n})

Restore(t, n) == n \in Vout[t] \ working.outs[t] /\ Change(t, working.outs[t] \cup {n})

Remove(t) == working.outs[t] = Vout[t] /\ Change(t, {})

\* The view is abandoned: a block was refused, or was only tested.
Drop == /\ working' = committed
        /\ UNCHANGED <<durable, committed, broken>>

Commit(b) == /\ committed' = State(working.outs, b)
             /\ working' = committed'
             /\ UNCHANGED <<durable, broken>>

Persist == /\ working = committed
           /\ durable' = committed
           /\ UNCHANGED <<committed, working, broken>>

Crash == /\ committed' = durable
         /\ working' = durable
         /\ UNCHANGED <<durable, broken>>

\* "If false is returned, the state of this cache (and its backing view) will
\* be undefined": the other variables are left free on purpose.
Fail == broken' = TRUE

Next == \/ \E t \in Txs : Create(t) \/ Remove(t)
        \/ \E t \in Txs, n \in Outputs : Spend(t, n) \/ Restore(t, n)
        \/ \E b \in Blocks : Commit(b)
        \/ Drop \/ Persist \/ Crash \/ Fail

Spec == Init /\ [][Next]_vars
=============================================================================
