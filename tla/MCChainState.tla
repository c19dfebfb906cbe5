---------------------------- MODULE MCChainState ----------------------------
(***************************************************************************)
(* Instances of ChainState: a tree of two branches from Genesis, the       *)
(* shorter one forked again, so that reorganisations in both directions,   *)
(* ties of work, and out-of-order arrival all happen.                      *)
(*                                                                         *)
(*      g --- a1 --- a2 --- a3        b1 --- c2: a second child of b1      *)
(*       \--- b1 --- b2                                                    *)
(***************************************************************************)
EXTENDS ChainState

CONSTANTS g, a1, a2, a3, b1, b2, c2

TreeBlocks == {g, a1, a2, a3, b1, b2, c2}

TreeParent ==
    [b \in TreeBlocks \ {g} |->
        CASE b = a1 -> g [] b = a2 -> a1 [] b = a3 -> a2
          [] b = b1 -> g [] b = b2 -> b1 [] b = c2 -> b1]

TreeAnc[b \in TreeBlocks] == IF b = g THEN {g} ELSE TreeAnc[TreeParent[b]] \cup {b}

\* Every block carries one unit of work, so work is height.
TreeWork == [b \in TreeBlocks |-> Cardinality(TreeAnc[b]) - 1]

With(b, v) == [x \in TreeBlocks |-> IF x = b THEN v ELSE "ok"]

\* All blocks valid, or one of them refused by ConnectBlock or AcceptBlock
AllValid  == {[x \in TreeBlocks |-> "ok"]}
OneBad    == AllValid \cup {With(b, v) : b \in {a2, a3}, v \in {"invalid"}}
                      \cup {With(a1, "badblock")}
OneInvalid == {With(a2, "invalid")}
OneError  == {With(a2, "error")}

=============================================================================
