-------------------------- MODULE CoinsCacheProofs --------------------------
(***************************************************************************)
(* Proofs about CoinsCache, for every set of transactions, outputs and     *)
(* blocks.                                                                 *)
(*                                                                         *)
(* The inductive invariant is the meaning of the two flags. FRESH lets an  *)
(* entry be dropped when it is pruned, and a clean entry is skipped by a   *)
(* flush; both are invisible only because FRESH implies that the view      *)
(* below has nothing and clean implies that it has the same. From them     *)
(* each action's effect on the three output sets follows, and with it the  *)
(* refinement.                                                             *)
(***************************************************************************)
EXTENDS CoinsCache, TLAPS

\* The blocks that pcoinsTip and the database name have been committed.
BestKnown == /\ stateOf[dbBest] # NoState
             /\ stateOf[TipGetBestBlock] # NoState

IInv == /\ TypeOK
        /\ FreshMeansAbsentBelow
        /\ CleanMatchesBelow
        /\ BestKnown
        /\ StateToldUntilFailure

(***************************************************************************)
(* An entry is a triple of coins and two flags; the actions make dirty and *)
(* clean ones.                                                             *)
(***************************************************************************)
LEMMA DirtyEntry ==
    ASSUME NEW c \in Coins, NEW f \in BOOLEAN
    PROVE  /\ Entry(c, TRUE, f) \in Entries /\ Entry(c, TRUE, f) # NoEntry
           /\ Entry(c, TRUE, f).coins = c /\ Entry(c, TRUE, f).fresh = f
           /\ Entry(c, TRUE, f).dirty
<1>1. Entry(c, TRUE, f) \in Entries BY DEF Entry, Entries
<1> QED BY <1>1, ConstantsAssumption DEF Entry

\* The same for a clean entry
LEMMA CleanEntry ==
    ASSUME NEW c \in Coins, NEW f \in BOOLEAN
    PROVE  /\ Entry(c, FALSE, f) \in Entries /\ Entry(c, FALSE, f) # NoEntry
           /\ Entry(c, FALSE, f).coins = c /\ Entry(c, FALSE, f).fresh = f
           /\ ~Entry(c, FALSE, f).dirty
<1>1. Entry(c, FALSE, f) \in Entries BY DEF Entry, Entries
<1> QED BY <1>1, ConstantsAssumption DEF Entry

(***************************************************************************)
(* The coins seen through either cache are coins.                          *)
(***************************************************************************)
LEMMA CoinsTyped ==
    ASSUME TypeOK, NEW t \in Txs
    PROVE  TipCoins(t) \in Coins /\ ViewCoins(t) \in Coins
<1>1. tip[t] # NoEntry => tip[t].coins \in Coins BY DEF TypeOK, Entries
<1>2. view[t] # NoEntry => view[t].coins \in Coins BY DEF TypeOK, Entries
<1>3. db[t] \in Coins BY DEF TypeOK
<1> QED BY <1>1, <1>2, <1>3 DEF TipCoins, ViewCoins

(***************************************************************************)
(* What a miss copies into pcoinsTip is what the database has: filling the *)
(* cache does not change what is read through it.                          *)
(***************************************************************************)
LEMMA TipFetchedSame ==
    ASSUME TypeOK, NEW t \in Txs
    PROVE  /\ TipFetched(t) \in Entries \cup {NoEntry}
           /\ TipFetched(t) # NoEntry => TipFetched(t).coins = TipCoins(t)
           /\ TipFetched(t) = NoEntry => tip[t] = NoEntry /\ Pruned(db[t])
           /\ tip[t] # NoEntry => TipFetched(t) = tip[t]
           /\ tip[t] = NoEntry /\ TipFetched(t) # NoEntry =>
                ~TipFetched(t).dirty /\ ~TipFetched(t).fresh
<1>1. tip[t] \in Entries \cup {NoEntry} /\ db[t] \in Coins BY DEF TypeOK
<1>2. CASE tip[t] = NoEntry /\ ~Pruned(db[t])
  <2>1. TipFetched(t) = Entry(db[t], FALSE, FALSE) BY <1>2 DEF TipFetched
  <2>2. /\ TipFetched(t) \in Entries
        /\ TipFetched(t) # NoEntry
        /\ TipFetched(t).coins = db[t]
    BY <1>1, <2>1, CleanEntry
  <2>3. ~TipFetched(t).dirty /\ ~TipFetched(t).fresh BY <2>1 DEF Entry
  <2> QED BY <1>2, <2>2, <2>3 DEF TipCoins
<1>3. CASE ~(tip[t] = NoEntry /\ ~Pruned(db[t]))
  BY <1>1, <1>3 DEF TipFetched, TipCoins
<1> QED BY <1>2, <1>3

(***************************************************************************)
(* ModifyCoins hands out a fresh entry only if the base has nothing.       *)
(***************************************************************************)
LEMMA OpenedFreshRight ==
    ASSUME TypeOK, FreshMeansAbsentBelow, NEW t \in Txs
    PROVE  /\ OpenedFresh(t) \in BOOLEAN
           /\ OpenedFresh(t) => Pruned(TipCoins(t))
<1>1. CASE view[t] # NoEntry
  <2>1. view[t].fresh \in BOOLEAN BY <1>1 DEF TypeOK, Entries
  <2> QED BY <1>1, <2>1 DEF FreshMeansAbsentBelow, OpenedFresh
<1>2. CASE view[t] = NoEntry
  <2>1. TipFetched(t) = NoEntry => Pruned(TipCoins(t)) BY TipFetchedSame DEF TipCoins
  <2>2. TipFetched(t) # NoEntry => TipFetched(t).coins = TipCoins(t) BY TipFetchedSame
  <2> QED BY <1>2, <2>1, <2>2 DEF OpenedFresh, Pruned
<1> QED BY <1>1, <1>2

(***************************************************************************)
(* The two flags of one transaction's entries mean what they should; the   *)
(* conjunction over all transactions is FreshMeansAbsentBelow and          *)
(* CleanMatchesBelow.                                                      *)
(***************************************************************************)
TipRight(u) == tip[u] # NoEntry =>
                 /\ tip[u].fresh => Pruned(db[u])
                 /\ ~tip[u].dirty => tip[u].coins.outs = db[u].outs

ViewRight(u) == view[u] # NoEntry =>
                 /\ view[u].fresh => Pruned(TipCoins(u))
                 /\ ~view[u].dirty => view[u].coins.outs = TipCoins(u).outs

FlagsRight == \A u \in Txs : TipRight(u) /\ ViewRight(u)

\* The two properties of the flags, transaction by transaction
LEMMA FlagsAreBoth == FlagsRight <=> FreshMeansAbsentBelow /\ CleanMatchesBelow
BY DEF FlagsRight, TipRight, ViewRight, FreshMeansAbsentBelow, CleanMatchesBelow

(***************************************************************************)
(* Reading a transaction through pcoinsTip changes nothing that is read    *)
(* through it, and the new entry's flags are right.                        *)
(***************************************************************************)
LEMMA TipFill ==
    ASSUME TypeOK, FlagsRight, NEW t \in Txs, db' = db,
           tip' = tip \/ tip' = [tip EXCEPT ![t] = TipFetched(t)]
    PROVE  /\ tip' \in [Txs -> Entries \cup {NoEntry}]
           /\ \A u \in Txs : TipCoins(u)' = TipCoins(u) /\ TipRight(u)'
<1>1. tip \in [Txs -> Entries \cup {NoEntry}] BY DEF TypeOK
<1>2. TipFetched(t) \in Entries \cup {NoEntry} BY TipFetchedSame
<1>3. ASSUME NEW u \in Txs, tip'[u] = tip[u]
      PROVE  TipCoins(u)' = TipCoins(u) /\ TipRight(u)'
  BY <1>3 DEF FlagsRight, TipRight, TipCoins
<1>4. CASE tip' = [tip EXCEPT ![t] = TipFetched(t)]
  <2>1. \A u \in Txs : u # t => tip'[u] = tip[u] BY <1>1, <1>4
  <2>2. tip'[t] = TipFetched(t) BY <1>1, <1>4
  <2>3. CASE tip[t] # NoEntry \/ TipFetched(t) = NoEntry
    <3>1. tip'[t] = tip[t] BY <2>2, <2>3, TipFetchedSame
    <3> QED BY <1>1, <1>2, <1>3, <1>4, <2>1, <3>1
  <2>4. CASE tip[t] = NoEntry /\ TipFetched(t) # NoEntry
    <3>1. tip'[t].coins = db[t] /\ ~tip'[t].dirty /\ ~tip'[t].fresh
      BY <2>2, <2>4, TipFetchedSame DEF TipCoins
    <3>2. TipCoins(t)' = TipCoins(t) BY <2>2, <2>4, <3>1 DEF TipCoins
    <3>3. TipRight(t)' BY <3>1 DEF TipRight
    <3> QED BY <1>1, <1>2, <1>3, <1>4, <2>1, <3>2, <3>3
  <2> QED BY <2>3, <2>4
<1>5. CASE tip' = tip BY <1>1, <1>3, <1>5
<1> QED BY <1>4, <1>5

(***************************************************************************)
(* ModifyCoins, a change of the coins to c and the destructor: the view    *)
(* has c for the transaction, nothing else that can be read has changed,   *)
(* and the flags are right.                                                *)
(***************************************************************************)
LEMMA ModifyEffect ==
    ASSUME TypeOK, FlagsRight, NEW t \in Txs, NEW c \in Coins, Modify(t, c)
    PROVE  /\ tip' \in [Txs -> Entries \cup {NoEntry}]
           /\ view' \in [Txs -> Entries \cup {NoEntry}]
           /\ FlagsRight'
           /\ \A u \in Txs : TipCoins(u)' = TipCoins(u)
           /\ \A u \in Txs : u # t => ViewCoins(u)' = ViewCoins(u)
           /\ ViewCoins(t)'.outs = c.outs
<1>1. view \in [Txs -> Entries \cup {NoEntry}] BY DEF TypeOK
<1>2. /\ tip' \in [Txs -> Entries \cup {NoEntry}]
      /\ \A u \in Txs : TipCoins(u)' = TipCoins(u) /\ TipRight(u)'
  <2>1. db' = db BY DEF Modify
  <2>2. tip' = tip \/ tip' = [tip EXCEPT ![t] = TipFetched(t)] BY DEF Modify
  <2> QED BY <2>1, <2>2, TipFill
<1>3. OpenedFresh(t) \in BOOLEAN /\ (OpenedFresh(t) => Pruned(TipCoins(t)))
  BY OpenedFreshRight, FlagsAreBoth
<1>4. view' = [view EXCEPT ![t] = Closed(Opened(t, c))] BY DEF Modify
<1>5. view'[t] = Closed(Opened(t, c)) /\ \A u \in Txs : u # t => view'[u] = view[u]
  BY <1>1, <1>4
<1>6. /\ Opened(t, c) \in Entries /\ Opened(t, c) # NoEntry
      /\ Opened(t, c).coins = c /\ Opened(t, c).dirty
      /\ Opened(t, c).fresh = OpenedFresh(t)
  BY <1>3, DirtyEntry DEF Opened
<1>7. \A u \in Txs : u # t => ViewRight(u)' /\ ViewCoins(u)' = ViewCoins(u)
  BY <1>2, <1>5 DEF FlagsRight, ViewRight, ViewCoins
<1>8. CASE OpenedFresh(t) /\ Pruned(c)
  <2>1. view'[t] = NoEntry BY <1>5, <1>6, <1>8 DEF Closed
  <2>2. ViewRight(t)' BY <2>1 DEF ViewRight
  <2>3. ViewCoins(t)' = TipCoins(t) BY <1>2, <2>1 DEF ViewCoins
  <2>4. TipCoins(t).outs = c.outs BY <1>3, <1>8 DEF Pruned
  <2>5. view' \in [Txs -> Entries \cup {NoEntry}] BY <1>1, <1>4, <1>5, <2>1
  <2> QED BY <1>2, <1>7, <2>2, <2>3, <2>4, <2>5 DEF FlagsRight
<1>9. CASE ~(OpenedFresh(t) /\ Pruned(c))
  <2>1. view'[t] = Opened(t, c) BY <1>5, <1>6, <1>9 DEF Closed
  <2>2. ViewRight(t)' BY <1>2, <1>3, <1>6, <2>1 DEF ViewRight
  <2>3. ViewCoins(t)' = c BY <1>6, <2>1 DEF ViewCoins
  <2>4. view' \in [Txs -> Entries \cup {NoEntry}] BY <1>1, <1>4, <1>5, <1>6, <2>1
  <2> QED BY <1>2, <1>7, <2>2, <2>3, <2>4 DEF FlagsRight
<1> QED BY <1>8, <1>9

(***************************************************************************)
(* The same in terms of the three output sets, for a view that has changed *)
(* at one transaction.                                                     *)
(***************************************************************************)
LEMMA ChangedOuts ==
    ASSUME NEW t \in Txs, NEW S, db' = db,
           \A u \in Txs : TipCoins(u)' = TipCoins(u),
           \A u \in Txs : u # t => ViewCoins(u)' = ViewCoins(u),
           ViewCoins(t)'.outs = S
    PROVE  /\ DbOuts' = DbOuts
           /\ TipOuts' = TipOuts
           /\ ViewOuts' = [ViewOuts EXCEPT ![t] = S]
BY DEF DbOuts, TipOuts, ViewOuts

(***************************************************************************)
(* ModifyNewCoins: the view has all outputs of the transaction, nothing    *)
(* else that can be read has changed, and the flags are right. A coinbase  *)
(* is fresh only if its entry was; any other new transaction has nothing   *)
(* unspent in the base.                                                    *)
(***************************************************************************)
LEMMA CreateEffect ==
    ASSUME TypeOK, FlagsRight, NEW t \in Txs, Create(t)
    PROVE  /\ view' \in [Txs -> Entries \cup {NoEntry}]
           /\ FlagsRight'
           /\ \A u \in Txs : TipCoins(u)' = TipCoins(u)
           /\ \A u \in Txs : u # t => ViewCoins(u)' = ViewCoins(u)
           /\ ViewCoins(t)'.outs = Vout[t]
<1> DEFINE e == Entry(FromTx(t), TRUE, NewFresh(t))
<1>1. view \in [Txs -> Entries \cup {NoEntry}] BY DEF TypeOK
<1>2. FromTx(t) \in Coins /\ FromTx(t).outs = Vout[t]
  BY ConstantsAssumption DEF FromTx, Coins
<1>3. NewFresh(t) \in BOOLEAN /\ (NewFresh(t) => Pruned(TipCoins(t)))
  <2>1. CASE t \in Coinbases
    <3>1. view[t] # NoEntry => view[t].fresh \in BOOLEAN BY DEF TypeOK, Entries
    <3> QED BY <2>1, <3>1 DEF NewFresh, FlagsRight, ViewRight
  <2>2. CASE t \notin Coinbases BY <2>2 DEF NewFresh, Create, MayBeNew
  <2> QED BY <2>1, <2>2
<1>4. /\ e \in Entries /\ e # NoEntry
      /\ e.coins = FromTx(t) /\ e.dirty
      /\ e.fresh = NewFresh(t)
  BY <1>2, <1>3, DirtyEntry
<1>5. view' = [view EXCEPT ![t] = Closed(e)] BY DEF Create
<1> HIDE DEF e
<1>6. view'[t] = Closed(e) /\ \A u \in Txs : u # t => view'[u] = view[u]
  BY <1>1, <1>5
<1>7. \A u \in Txs : TipCoins(u)' = TipCoins(u) /\ TipRight(u)'
  BY DEF Create, FlagsRight, TipRight, TipCoins
<1>8. \A u \in Txs : u # t => ViewRight(u)' /\ ViewCoins(u)' = ViewCoins(u)
  BY <1>6, <1>7 DEF FlagsRight, ViewRight, ViewCoins
<1>9. CASE NewFresh(t) /\ Pruned(FromTx(t))
  <2>1. view'[t] = NoEntry BY <1>4, <1>6, <1>9 DEF Closed
  <2>2. ViewRight(t)' BY <2>1 DEF ViewRight
  <2>3. ViewCoins(t)' = TipCoins(t) BY <1>7, <2>1 DEF ViewCoins
  <2>4. TipCoins(t).outs = Vout[t] BY <1>2, <1>3, <1>9 DEF Pruned
  <2>5. view' \in [Txs -> Entries \cup {NoEntry}] BY <1>1, <1>5, <1>6, <2>1
  <2> QED BY <1>7, <1>8, <2>2, <2>3, <2>4, <2>5 DEF FlagsRight
<1>10. CASE ~(NewFresh(t) /\ Pruned(FromTx(t)))
  <2>1. view'[t] = e BY <1>4, <1>6, <1>10 DEF Closed
  <2>2. ViewRight(t)' BY <1>3, <1>4, <1>7, <2>1 DEF ViewRight
  <2>3. ViewCoins(t)' = FromTx(t) BY <1>4, <2>1 DEF ViewCoins
  <2>4. view' \in [Txs -> Entries \cup {NoEntry}] BY <1>1, <1>4, <1>5, <1>6, <2>1
  <2> QED BY <1>2, <1>7, <1>8, <2>2, <2>3, <2>4 DEF FlagsRight
<1> QED BY <1>9, <1>10

(***************************************************************************)
(* Reading through the view fills both caches and changes nothing that can *)
(* be read.                                                                *)
(***************************************************************************)
LEMMA ViewFetchEffect ==
    ASSUME TypeOK, FlagsRight, NEW t \in Txs, ViewFetch(t)
    PROVE  /\ tip' \in [Txs -> Entries \cup {NoEntry}]
           /\ view' \in [Txs -> Entries \cup {NoEntry}]
           /\ FlagsRight'
           /\ DbOuts' = DbOuts /\ TipOuts' = TipOuts /\ ViewOuts' = ViewOuts
<1>1. view \in [Txs -> Entries \cup {NoEntry}] BY DEF TypeOK
<1>2. /\ tip' \in [Txs -> Entries \cup {NoEntry}]
      /\ \A u \in Txs : TipCoins(u)' = TipCoins(u) /\ TipRight(u)'
  <2>1. db' = db BY DEF ViewFetch
  <2>2. tip' = tip \/ tip' = [tip EXCEPT ![t] = TipFetched(t)] BY DEF ViewFetch
  <2> QED BY <2>1, <2>2, TipFill
<1>3. view' = [view EXCEPT ![t] = ViewFetched(t)] BY DEF ViewFetch
<1>4. view'[t] = ViewFetched(t) /\ \A u \in Txs : u # t => view'[u] = view[u]
  BY <1>1, <1>3
<1>5. \A u \in Txs : view'[u] = view[u] => ViewRight(u)' /\ ViewCoins(u)' = ViewCoins(u)
  BY <1>2 DEF FlagsRight, ViewRight, ViewCoins
<1>6. CASE view[t] = NoEntry /\ TipFetched(t) # NoEntry
  <2> DEFINE f == Pruned(TipCoins(t))
  <2>1. TipFetched(t).coins = TipCoins(t) BY <1>6, TipFetchedSame
  <2>2. view'[t] = Entry(TipCoins(t), FALSE, f)
    BY <1>4, <1>6, <2>1 DEF ViewFetched
  <2>3. TipCoins(t) \in Coins BY CoinsTyped
  <2>4. f \in BOOLEAN BY DEF Pruned
  <2>5. /\ view'[t] \in Entries /\ view'[t] # NoEntry
        /\ view'[t].coins = TipCoins(t) /\ (view'[t].fresh => Pruned(TipCoins(t)))
    <3> HIDE DEF f
    <3> DEFINE e == Entry(TipCoins(t), FALSE, f)
    <3>1. e \in Entries /\ e # NoEntry /\ e.coins = TipCoins(t) /\ e.fresh = f
      BY <2>3, <2>4, CleanEntry, Zenon
    <3> HIDE DEF e
    <3>2. view'[t] = e BY <2>2 DEF e
    <3>3. f => Pruned(TipCoins(t)) BY Zenon DEF f
    <3> QED BY <3>1, <3>2, <3>3, Zenon
  <2>6. ViewRight(t)' BY <1>2, <2>5 DEF ViewRight
  <2>7. ViewCoins(t)' = ViewCoins(t) BY <1>6, <2>5 DEF ViewCoins
  <2>8. \A u \in Txs : ViewRight(u)' /\ ViewCoins(u)' = ViewCoins(u)
    BY <1>4, <1>5, <2>6, <2>7
  <2>9. view' \in [Txs -> Entries \cup {NoEntry}] BY <1>1, <1>3, <1>4, <2>5
  <2> QED BY <1>2, <2>8, <2>9 DEF FlagsRight, DbOuts, TipOuts, ViewOuts, ViewFetch
<1>7. CASE ~(view[t] = NoEntry /\ TipFetched(t) # NoEntry)
  <2>1. view' = view BY <1>1, <1>3, <1>7 DEF ViewFetched
  <2> QED BY <1>1, <1>2, <1>5, <2>1 DEF FlagsRight, DbOuts, TipOuts, ViewOuts, ViewFetch
<1> QED BY <1>6, <1>7

(***************************************************************************)
(* An empty view shows what pcoinsTip has, an empty pcoinsTip what the     *)
(* database has; neither has an entry whose flags could be wrong.          *)
(***************************************************************************)
LEMMA EmptyShowsBelow ==
    /\ view = Empty => ViewOuts = TipOuts /\ \A u \in Txs : ViewRight(u)
    /\ tip = Empty => TipOuts = DbOuts /\ \A u \in Txs : TipRight(u)
    /\ Empty \in [Txs -> Entries \cup {NoEntry}]
BY DEF Empty, ViewOuts, TipOuts, DbOuts, ViewCoins, TipCoins, ViewRight, TipRight

(***************************************************************************)
(* CCoinsViewCache::BatchWrite: for each transaction pcoinsTip then shows  *)
(* what the view showed, with right flags.                                 *)
(***************************************************************************)
LEMMA MergedRight ==
    ASSUME TypeOK, FlagsRight, NEW t \in Txs
    PROVE  /\ Merged(t) \in Entries \cup {NoEntry}
           /\ Merged(t) = NoEntry => db[t].outs = ViewCoins(t).outs
           /\ Merged(t) # NoEntry =>
                /\ Merged(t).coins.outs = ViewCoins(t).outs
                /\ Merged(t).fresh => Pruned(db[t])
                /\ ~Merged(t).dirty => Merged(t).coins.outs = db[t].outs
<1>1. /\ tip[t] \in Entries \cup {NoEntry} /\ view[t] \in Entries \cup {NoEntry}
      /\ TipRight(t) /\ ViewRight(t)
  BY DEF TypeOK, FlagsRight
<1>2. CASE view[t] = NoEntry \/ ~view[t].dirty
  <2>1. Merged(t) = tip[t] BY <1>2 DEF Merged
  <2>2. ViewCoins(t).outs = TipCoins(t).outs BY <1>1, <1>2 DEF ViewCoins, ViewRight
  <2> QED BY <1>1, <2>1, <2>2 DEF TipCoins, TipRight
<1>3. CASE view[t] # NoEntry /\ view[t].dirty
  <2> DEFINE c == view[t].coins
             f == IF tip[t] = NoEntry THEN view[t].fresh ELSE tip[t].fresh
  <2>1. c \in Coins /\ f \in BOOLEAN BY <1>1, <1>3 DEF Entries
  <2>2. f => Pruned(db[t]) BY <1>1, <1>3 DEF TipRight, ViewRight, TipCoins
  <2>3. ViewCoins(t) = c BY <1>3 DEF ViewCoins
  <2>4. Merged(t) = IF f /\ Pruned(c) THEN NoEntry ELSE Entry(c, TRUE, f)
    BY <1>3 DEF Merged
  <2> HIDE DEF c, f
  <2>5. CASE f /\ Pruned(c) BY <2>2, <2>3, <2>4, <2>5 DEF Pruned
  <2>6. CASE ~(f /\ Pruned(c))
    <3>1. Merged(t) = Entry(c, TRUE, f) BY <2>4, <2>6, Zenon
    <3>2. /\ Merged(t) \in Entries /\ Merged(t) # NoEntry /\ Merged(t).dirty
          /\ Merged(t).coins = c /\ Merged(t).fresh = f
      BY <2>1, <3>1, DirtyEntry, Zenon
    <3> QED BY <2>2, <2>3, <3>2
  <2> QED BY <2>5, <2>6
<1> QED BY <1>2, <1>3

\* Flushing the view into pcoinsTip shows in pcoinsTip what the view showed.
LEMMA CommitEffect ==
    ASSUME TypeOK, FlagsRight, NEW b \in Blocks, CommitView(b)
    PROVE  /\ tip' \in [Txs -> Entries \cup {NoEntry}]
           /\ view' \in [Txs -> Entries \cup {NoEntry}]
           /\ FlagsRight'
           /\ DbOuts' = DbOuts /\ TipOuts' = ViewOuts /\ ViewOuts' = ViewOuts
<1>1. tip' = [t \in Txs |-> Merged(t)] /\ view' = Empty /\ db' = db BY DEF CommitView
<1>2. ASSUME NEW t \in Txs
      PROVE  /\ tip'[t] \in Entries \cup {NoEntry}
             /\ TipCoins(t)'.outs = ViewCoins(t).outs
             /\ TipRight(t)'
  <2>1. tip'[t] = Merged(t) BY <1>1
  <2> QED BY <1>1, <2>1, MergedRight DEF TipCoins, TipRight
<1>3. tip' \in [Txs -> Entries \cup {NoEntry}] BY <1>1, <1>2
<1>4. /\ view' \in [Txs -> Entries \cup {NoEntry}]
      /\ ViewOuts' = TipOuts'
      /\ \A u \in Txs : ViewRight(u)'
  <2>1. (view = Empty)' => (ViewOuts = TipOuts /\ \A u \in Txs : ViewRight(u))'
    BY EmptyShowsBelow, PTL
  <2> QED BY <1>1, <2>1, EmptyShowsBelow DEF Empty
<1>5. TipOuts' = ViewOuts BY <1>2 DEF TipOuts, ViewOuts
<1>6. DbOuts' = DbOuts BY <1>1 DEF DbOuts
<1> QED BY <1>2, <1>3, <1>4, <1>5, <1>6 DEF FlagsRight

(***************************************************************************)
(* CCoinsViewDB::BatchWrite: the database then has the outputs pcoinsTip   *)
(* showed, because the entries left out of the batch were clean.           *)
(***************************************************************************)
LEMMA WrittenRight ==
    ASSUME TypeOK, FlagsRight, NEW t \in Txs
    PROVE  /\ Written(t) \in Coins
           /\ Pruned(Written(t)) => Written(t) = NoCoins
           /\ Written(t).outs = TipCoins(t).outs
<1>1. /\ tip[t] \in Entries \cup {NoEntry} /\ db[t] \in Coins
      /\ TipRight(t) /\ (Pruned(db[t]) => db[t] = NoCoins)
  BY DEF TypeOK, FlagsRight
<1>2. CASE tip[t] # NoEntry /\ tip[t].dirty
  <2>1. tip[t].coins \in Coins BY <1>1, <1>2 DEF Entries
  <2>2. Written(t) = Stored(tip[t].coins) BY <1>2 DEF Written
  <2>3. TipCoins(t) = tip[t].coins BY <1>2 DEF TipCoins
  <2>4. Written(t) = [outs |-> TipCoins(t).outs, stake |-> FALSE]
    BY <2>2, <2>3 DEF Stored
  <2>5. TipCoins(t).outs \in SUBSET Outputs BY <2>1, <2>3 DEF Coins
  <2>6. Written(t) \in Coins /\ Written(t).outs = TipCoins(t).outs
    BY <2>4, <2>5 DEF Coins
  <2>7. Pruned(Written(t)) => Written(t) = NoCoins
    BY <2>4, <2>6 DEF Pruned, NoCoins
  <2> QED BY <2>6, <2>7
<1>3. CASE ~(tip[t] # NoEntry /\ tip[t].dirty)
  BY <1>1, <1>3 DEF Written, TipCoins, TipRight
<1> QED BY <1>2, <1>3

\* Flushing pcoinsTip stores what it showed.
LEMMA FlushEffect ==
    ASSUME TypeOK, FlagsRight, FlushTip
    PROVE  /\ db' \in [Txs -> Coins]
           /\ \A t \in Txs : Pruned(db'[t]) => db'[t] = NoCoins
           /\ FlagsRight'
           /\ DbOuts' = TipOuts /\ TipOuts' = TipOuts /\ ViewOuts' = TipOuts
<1>1. db' = [t \in Txs |-> Written(t)] /\ tip' = Empty /\ view' = Empty
  BY DEF FlushTip, NoView
<1>2. \A t \in Txs : /\ db'[t] \in Coins /\ db'[t].outs = TipCoins(t).outs
                     /\ Pruned(db'[t]) => db'[t] = NoCoins
  BY <1>1, WrittenRight
<1>3. DbOuts' = TipOuts BY <1>2 DEF DbOuts, TipOuts
<1>4. \A u \in Txs : /\ TipCoins(u)' = db'[u] /\ ViewCoins(u)' = db'[u]
                     /\ TipRight(u)' /\ ViewRight(u)'
  BY <1>1 DEF Empty, TipCoins, ViewCoins, TipRight, ViewRight
<1>5. TipOuts' = DbOuts' /\ ViewOuts' = DbOuts' BY <1>4 DEF TipOuts, ViewOuts, DbOuts
<1> QED BY <1>1, <1>2, <1>3, <1>4, <1>5 DEF FlagsRight

(***************************************************************************)
(* A clean entry can be dropped.                                           *)
(***************************************************************************)
LEMMA UncacheEffect ==
    ASSUME TypeOK, FlagsRight, NEW t \in Txs, Uncache(t)
    PROVE  /\ tip' \in [Txs -> Entries \cup {NoEntry}]
           /\ FlagsRight'
           /\ DbOuts' = DbOuts /\ TipOuts' = TipOuts /\ ViewOuts' = ViewOuts
<1>1. /\ tip' = [tip EXCEPT ![t] = NoEntry] /\ db' = db /\ view' = Empty /\ view = Empty
      /\ tip \in [Txs -> Entries \cup {NoEntry}]
  BY DEF Uncache, NoView, TypeOK
<1>2. tip'[t] = NoEntry /\ \A u \in Txs : u # t => tip'[u] = tip[u] BY <1>1
<1>3. tip[t].coins.outs = db[t].outs /\ tip[t] # NoEntry
  BY DEF Uncache, Uncachable, FlagsRight, TipRight
<1>4. \A u \in Txs : TipCoins(u)'.outs = TipCoins(u).outs /\ TipRight(u)'
  BY <1>1, <1>2, <1>3 DEF TipCoins, FlagsRight, TipRight
<1>5. TipOuts' = TipOuts BY <1>4 DEF TipOuts
<1>6. ViewOuts' = ViewOuts
  BY <1>1, <1>4 DEF ViewOuts, ViewCoins, Empty
<1>7. \A u \in Txs : ViewRight(u)' BY <1>1 DEF ViewRight, Empty
<1> QED BY <1>1, <1>4, <1>5, <1>6, <1>7 DEF FlagsRight, DbOuts

-----------------------------------------------------------------------------
(***************************************************************************)
(* From the effect of a step on what can be read to the invariant and to   *)
(* the abstract step: a step that only changes the working set.            *)
(***************************************************************************)
LEMMA WorkingStep ==
    ASSUME IInv, FlagsRight', mined' \in SUBSET Txs,
           tip' \in [Txs -> Entries \cup {NoEntry}],
           view' \in [Txs -> Entries \cup {NoEntry}],
           UNCHANGED <<db, dbBest, tipBest, broken, stateOf>>,
           DbOuts' = DbOuts, TipOuts' = TipOuts
    PROVE  IInv'
<1>1. TypeOK' BY DEF IInv, TypeOK
<1>2. TipGetBestBlock' = TipGetBestBlock BY DEF TipGetBestBlock
<1>3. BestKnown' BY <1>2 DEF IInv, BestKnown
<1>4. StateToldUntilFailure'
  BY <1>2 DEF IInv, StateToldUntilFailure, BestBlockTellsTheState
<1>5. (FreshMeansAbsentBelow /\ CleanMatchesBelow)'
  <2>1. (FlagsRight <=> FreshMeansAbsentBelow /\ CleanMatchesBelow)'
    BY FlagsAreBoth, PTL
  <2> QED BY <2>1
<1> QED BY <1>1, <1>3, <1>4, <1>5 DEF IInv

(***************************************************************************)
(* The working set of one transaction becomes S.                           *)
(***************************************************************************)
LEMMA ChangeStep ==
    ASSUME UNCHANGED <<db, dbBest, tipBest, broken, stateOf>>, NEW t \in Txs, NEW S,
           DbOuts' = DbOuts, TipOuts' = TipOuts,
           ViewOuts' = [ViewOuts EXCEPT ![t] = S]
    PROVE  Abstract!Change(t, S)
BY DEF Abstract!Change, Abstract!State, TipGetBestBlock

(***************************************************************************)
(* Nothing changes that the abstract specification can see.                *)
(***************************************************************************)
LEMMA HiddenStep ==
    ASSUME UNCHANGED <<dbBest, TipGetBestBlock, broken>>,
           DbOuts' = DbOuts, TipOuts' = TipOuts, ViewOuts' = ViewOuts
    PROVE  UNCHANGED Abstract!vars
BY DEF Abstract!vars

\* Spending an output
LEMMA StepSpend ==
    ASSUME IInv, NEW t \in Txs, NEW n \in Outputs, Spend(t, n)
    PROVE  IInv' /\ Abstract!Spend(t, n)
<1> DEFINE c == [outs |-> ViewCoins(t).outs \ {n}, stake |-> ViewCoins(t).stake]
<1>1. TypeOK /\ FlagsRight BY FlagsAreBoth DEF IInv
<1>2. ViewCoins(t) \in Coins BY <1>1, CoinsTyped
<1>3. c \in Coins /\ c.outs = ViewCoins(t).outs \ {n} BY <1>2 DEF Coins
<1>4. Modify(t, c) BY <1>2 DEF Spend, Coins
<1> HIDE DEF c
<1>5. UNCHANGED <<db, dbBest, tipBest, broken, stateOf, mined>> BY DEF Spend, Modify
<1>6. /\ tip' \in [Txs -> Entries \cup {NoEntry}] /\ view' \in [Txs -> Entries \cup {NoEntry}]
      /\ FlagsRight' /\ DbOuts' = DbOuts /\ TipOuts' = TipOuts
      /\ ViewOuts' = [ViewOuts EXCEPT ![t] = c.outs]
  BY <1>1, <1>3, <1>4, <1>5, ModifyEffect, ChangedOuts
<1>7. IInv' BY <1>1, <1>5, <1>6, WorkingStep DEF TypeOK
<1>8. Abstract!Change(t, ViewOuts[t] \ {n})
  BY <1>3, <1>5, <1>6, ChangeStep DEF ViewOuts
<1>9. n \in ViewOuts[t] BY DEF Spend, ViewOuts
<1> QED BY <1>7, <1>8, <1>9 DEF Abstract!Spend

\* Restoring a spent output
LEMMA StepUndo ==
    ASSUME IInv, NEW t \in Txs, NEW n \in Outputs, ApplyTxInUndo(t, n)
    PROVE  IInv' /\ Abstract!Restore(t, n)
<1> DEFINE c == [outs |-> ViewCoins(t).outs \cup {n},
                 stake |-> ~Pruned(ViewCoins(t)) /\ ViewCoins(t).stake]
<1>1. TypeOK /\ FlagsRight BY FlagsAreBoth DEF IInv
<1>2. ViewCoins(t) \in Coins BY <1>1, CoinsTyped
<1>3. c \in Coins /\ c.outs = ViewCoins(t).outs \cup {n} BY <1>2 DEF Coins
<1>4. Modify(t, c) BY DEF ApplyTxInUndo
<1> HIDE DEF c
<1>5. UNCHANGED <<db, dbBest, tipBest, broken, stateOf, mined>> BY DEF ApplyTxInUndo, Modify
<1>6. /\ tip' \in [Txs -> Entries \cup {NoEntry}] /\ view' \in [Txs -> Entries \cup {NoEntry}]
      /\ FlagsRight' /\ DbOuts' = DbOuts /\ TipOuts' = TipOuts
      /\ ViewOuts' = [ViewOuts EXCEPT ![t] = c.outs]
  BY <1>1, <1>3, <1>4, <1>5, ModifyEffect, ChangedOuts
<1>7. IInv' BY <1>1, <1>5, <1>6, WorkingStep DEF TypeOK
<1>8. Abstract!Change(t, ViewOuts[t] \cup {n})
  BY <1>3, <1>5, <1>6, ChangeStep DEF ViewOuts
<1>9. n \in Vout[t] \ ViewOuts[t] BY DEF ApplyTxInUndo, ViewOuts
<1> QED BY <1>7, <1>8, <1>9 DEF Abstract!Restore

\* Removing a transaction that is disconnected
LEMMA StepRemove ==
    ASSUME IInv, NEW t \in Txs, Remove(t)
    PROVE  IInv' /\ Abstract!Remove(t)
<1>1. TypeOK /\ FlagsRight BY FlagsAreBoth DEF IInv
<1>2. NoCoins \in Coins /\ NoCoins.outs = {} BY DEF Coins, NoCoins
<1>3. Modify(t, NoCoins) BY DEF Remove
<1>4. UNCHANGED <<db, dbBest, tipBest, broken, stateOf>> BY DEF Remove, Modify
<1>5. /\ tip' \in [Txs -> Entries \cup {NoEntry}] /\ view' \in [Txs -> Entries \cup {NoEntry}]
      /\ FlagsRight' /\ DbOuts' = DbOuts /\ TipOuts' = TipOuts
      /\ ViewOuts' = [ViewOuts EXCEPT ![t] = {}]
  BY <1>1, <1>2, <1>3, <1>4, ModifyEffect, ChangedOuts
<1>6. mined' \in SUBSET Txs BY <1>1 DEF Remove, TypeOK
<1>7. IInv' BY <1>4, <1>5, <1>6, WorkingStep
<1>8. Abstract!Change(t, {}) BY <1>4, <1>5, ChangeStep
<1>9. ViewOuts[t] = Vout[t] BY DEF Remove, ViewOuts
<1> QED BY <1>7, <1>8, <1>9 DEF Abstract!Remove

\* Adding a transaction that is connected
LEMMA StepCreate ==
    ASSUME IInv, NEW t \in Txs, Create(t)
    PROVE  IInv' /\ Abstract!Create(t)
<1>1. TypeOK /\ FlagsRight BY FlagsAreBoth DEF IInv
<1>2. UNCHANGED <<db, dbBest, tip, tipBest, broken, stateOf>> BY DEF Create
<1>3. /\ view' \in [Txs -> Entries \cup {NoEntry}]
      /\ FlagsRight' /\ DbOuts' = DbOuts /\ TipOuts' = TipOuts
      /\ ViewOuts' = [ViewOuts EXCEPT ![t] = Vout[t]]
  BY <1>1, <1>2, CreateEffect, ChangedOuts
<1>4. tip' \in [Txs -> Entries \cup {NoEntry}] BY <1>1, <1>2 DEF TypeOK
<1>5. mined' \in SUBSET Txs BY <1>1 DEF Create, TypeOK
<1>6. IInv' BY <1>2, <1>3, <1>4, <1>5, WorkingStep
<1>7. Abstract!Change(t, Vout[t]) BY <1>2, <1>3, ChangeStep
<1> QED BY <1>6, <1>7 DEF Abstract!Create

\* Reading, and forgetting a clean entry, cannot be seen.
LEMMA StepFetchOrUncache ==
    ASSUME IInv, NEW t \in Txs, ViewFetch(t) \/ TipFetch(t) \/ Uncache(t)
    PROVE  IInv' /\ UNCHANGED Abstract!vars
<1>1. TypeOK /\ FlagsRight BY FlagsAreBoth DEF IInv
<1>2. UNCHANGED <<db, dbBest, tipBest, broken, mined, stateOf>>
  BY DEF ViewFetch, TipFetch, Uncache
<1>3. /\ tip' \in [Txs -> Entries \cup {NoEntry}] /\ view' \in [Txs -> Entries \cup {NoEntry}]
      /\ FlagsRight'
      /\ DbOuts' = DbOuts /\ TipOuts' = TipOuts /\ ViewOuts' = ViewOuts
  <2>1. CASE ViewFetch(t) BY <1>1, <2>1, ViewFetchEffect
  <2>2. CASE Uncache(t)
    <3>1. view' = view BY <2>2 DEF Uncache
    <3> QED BY <1>1, <2>2, <3>1, UncacheEffect DEF TypeOK
  <2>3. CASE TipFetch(t)
    <3>1. view' = view /\ tip' = [tip EXCEPT ![t] = TipFetched(t)] BY <2>3 DEF TipFetch
    <3>2. /\ tip' \in [Txs -> Entries \cup {NoEntry}]
          /\ \A u \in Txs : TipCoins(u)' = TipCoins(u) /\ TipRight(u)'
      BY <1>1, <1>2, <3>1, TipFill
    <3>3. \A u \in Txs : ViewCoins(u)' = ViewCoins(u) /\ ViewRight(u)'
      BY <1>1, <3>1, <3>2 DEF ViewCoins, FlagsRight, ViewRight
    <3> QED BY <1>1, <1>2, <3>1, <3>2, <3>3 DEF TypeOK, FlagsRight, DbOuts, TipOuts, ViewOuts
  <2> QED BY <2>1, <2>2, <2>3
<1>4. IInv' BY <1>1, <1>2, <1>3, WorkingStep DEF TypeOK
<1>5. TipGetBestBlock' = TipGetBestBlock BY <1>2 DEF TipGetBestBlock
<1> QED BY <1>2, <1>3, <1>4, <1>5, HiddenStep

(***************************************************************************)
(* The state a known block leads to is a state.                            *)
(***************************************************************************)
LEMMA BestTyped ==
    ASSUME IInv
    PROVE  /\ TipGetBestBlock \in Blocks
           /\ stateOf[TipGetBestBlock] \in States /\ stateOf[dbBest] \in States
BY DEF IInv, TypeOK, BestKnown, TipGetBestBlock

(***************************************************************************)
(* Dropping the view, or everything in memory, leaves empty caches.        *)
(***************************************************************************)
LEMMA EmptyView ==
    ASSUME view' = Empty
    PROVE  /\ view' \in [Txs -> Entries \cup {NoEntry}]
           /\ ViewOuts' = TipOuts' /\ \A u \in Txs : ViewRight(u)'
BY DEF Empty, ViewOuts, TipOuts, ViewCoins, ViewRight

\* The same for pcoinsTip
LEMMA EmptyTip ==
    ASSUME tip' = Empty
    PROVE  /\ tip' \in [Txs -> Entries \cup {NoEntry}]
           /\ TipOuts' = DbOuts' /\ \A u \in Txs : TipRight(u)'
BY DEF Empty, DbOuts, TipOuts, TipCoins, TipRight

\* Giving the view up
LEMMA StepDrop ==
    ASSUME IInv, DropView
    PROVE  IInv' /\ Abstract!Drop
<1>1. TypeOK /\ FlagsRight BY FlagsAreBoth DEF IInv
<1>2. UNCHANGED <<db, dbBest, tip, tipBest, broken, stateOf>> /\ view' = Empty BY DEF DropView
<1>3. DbOuts' = DbOuts /\ TipOuts' = TipOuts BY <1>2 DEF DbOuts, TipOuts, TipCoins
<1>4. \A u \in Txs : TipRight(u)' BY <1>1, <1>2 DEF FlagsRight, TipRight
<1>5. FlagsRight' BY <1>2, <1>4, EmptyView DEF FlagsRight
<1>6. mined' \in SUBSET Txs BY BestTyped DEF DropView, States
<1>7. tip' \in [Txs -> Entries \cup {NoEntry}] BY <1>1, <1>2 DEF TypeOK
<1>8. IInv' BY <1>2, <1>3, <1>5, <1>6, <1>7, EmptyView, WorkingStep
<1>9. Abstract!Drop
  BY <1>2, <1>3, EmptyView DEF Abstract!Drop, TipGetBestBlock
<1> QED BY <1>8, <1>9

\* Flushing the view is an atomic commit.
LEMMA StepCommit ==
    ASSUME IInv, NEW b \in Blocks, CommitView(b)
    PROVE  IInv' /\ Abstract!Commit(b)
<1>1. TypeOK /\ FlagsRight BY FlagsAreBoth DEF IInv
<1>2. /\ tip' \in [Txs -> Entries \cup {NoEntry}] /\ view' \in [Txs -> Entries \cup {NoEntry}]
      /\ FlagsRight'
      /\ DbOuts' = DbOuts /\ TipOuts' = ViewOuts /\ ViewOuts' = ViewOuts
  BY <1>1, CommitEffect
<1>3. /\ tipBest' = b /\ UNCHANGED <<db, dbBest, broken, mined>>
      /\ stateOf[b] = NoState \/ stateOf[b] = ViewState
      /\ stateOf' = [stateOf EXCEPT ![b] = ViewState]
  BY DEF CommitView
<1>4. TipGetBestBlock' = b BY <1>3, ConstantsAssumption DEF TipGetBestBlock
<1>5. ViewState \in States /\ ViewState # NoState /\ ViewState.outs = ViewOuts
  <2>1. \A u \in Txs : ViewCoins(u).outs \in SUBSET Outputs BY <1>1, CoinsTyped DEF Coins
  <2>2. ViewOuts \in [Txs -> SUBSET Outputs] BY <2>1 DEF ViewOuts
  <2>3. ViewState \in States BY <1>1, <2>2 DEF ViewState, States, TypeOK
  <2> QED BY <2>3, ConstantsAssumption DEF ViewState
<1>6. stateOf \in [Blocks -> States \cup {NoState}] /\ dbBest \in Blocks BY <1>1 DEF TypeOK
<1>7. TypeOK' BY <1>1, <1>2, <1>3, <1>5, <1>6 DEF TypeOK
<1>8. stateOf'[b] = ViewState BY <1>3, <1>6
<1>9. stateOf'[dbBest] = stateOf[dbBest]
  <2>1. stateOf[dbBest] # NoState BY DEF IInv, BestKnown
  <2> QED BY <1>3, <1>6, <2>1
<1>10. BestKnown' BY <1>3, <1>4, <1>5, <1>8, <1>9 DEF IInv, BestKnown
<1>11. StateToldUntilFailure'
  BY <1>2, <1>3, <1>4, <1>5, <1>8, <1>9 DEF IInv, StateToldUntilFailure, BestBlockTellsTheState
<1>12. (FreshMeansAbsentBelow /\ CleanMatchesBelow)'
  <2>1. (FlagsRight <=> FreshMeansAbsentBelow /\ CleanMatchesBelow)' BY FlagsAreBoth, PTL
  <2> QED BY <1>2, <2>1
<1>13. Abstract!Commit(b)
  BY <1>2, <1>3, <1>4 DEF Abstract!Commit, Abstract!State
<1> QED BY <1>7, <1>10, <1>11, <1>12, <1>13 DEF IInv

\* Flushing pcoinsTip is atomic persistence.
LEMMA StepFlush ==
    ASSUME IInv, FlushTip
    PROVE  IInv' /\ Abstract!Persist
<1>1. TypeOK /\ FlagsRight BY FlagsAreBoth DEF IInv
<1>2. /\ db' \in [Txs -> Coins] /\ \A t \in Txs : Pruned(db'[t]) => db'[t] = NoCoins
      /\ FlagsRight'
      /\ DbOuts' = TipOuts /\ TipOuts' = TipOuts /\ ViewOuts' = TipOuts
  BY <1>1, FlushEffect
<1>3. /\ dbBest' = TipGetBestBlock /\ UNCHANGED <<tipBest, view, broken, mined, stateOf>>
      /\ tip' = Empty /\ view = Empty
  BY DEF FlushTip, NoView
<1>4. TipGetBestBlock' = TipGetBestBlock BY <1>3 DEF TipGetBestBlock
<1>5. TipGetBestBlock \in Blocks BY BestTyped
<1>6. TypeOK' BY <1>1, <1>2, <1>3, <1>5, EmptyTip DEF TypeOK
<1>7. BestKnown' BY <1>3, <1>4 DEF IInv, BestKnown
<1>8. StateToldUntilFailure'
  BY <1>2, <1>3, <1>4 DEF IInv, StateToldUntilFailure, BestBlockTellsTheState
<1>9. (FreshMeansAbsentBelow /\ CleanMatchesBelow)'
  <2>1. (FlagsRight <=> FreshMeansAbsentBelow /\ CleanMatchesBelow)' BY FlagsAreBoth, PTL
  <2> QED BY <1>2, <2>1
<1>10. ViewOuts = TipOuts BY <1>3, EmptyShowsBelow
<1>11. Abstract!Persist BY <1>2, <1>3, <1>4, <1>10 DEF Abstract!Persist
<1> QED BY <1>6, <1>7, <1>8, <1>9, <1>11 DEF IInv

\* After a failed write nothing is promised.
LEMMA StepFlushFails ==
    ASSUME IInv, FlushTipFails
    PROVE  IInv' /\ Abstract!Fail
<1>1. TypeOK /\ FlagsRight BY FlagsAreBoth DEF IInv
<1>2. /\ UNCHANGED <<db, dbBest, tipBest, view, mined, stateOf>>
      /\ tip' = Empty /\ view' = Empty /\ broken' = TRUE
  BY DEF FlushTipFails, NoView
<1>3. TypeOK' BY <1>1, <1>2, EmptyTip DEF TypeOK
<1>4. BestKnown' BY <1>2 DEF IInv, BestKnown, TipGetBestBlock
<1>5. StateToldUntilFailure' BY <1>2 DEF StateToldUntilFailure
<1>6. FlagsRight' BY <1>2, EmptyTip, EmptyView DEF FlagsRight
<1>7. (FreshMeansAbsentBelow /\ CleanMatchesBelow)'
  <2>1. (FlagsRight <=> FreshMeansAbsentBelow /\ CleanMatchesBelow)' BY FlagsAreBoth, PTL
  <2> QED BY <1>6, <2>1
<1> QED BY <1>2, <1>3, <1>4, <1>5, <1>7 DEF IInv, Abstract!Fail

\* A crash leaves what the database holds.
LEMMA StepRestart ==
    ASSUME IInv, Restart
    PROVE  IInv' /\ Abstract!Crash
<1>1. TypeOK /\ FlagsRight BY FlagsAreBoth DEF IInv
<1>2. /\ UNCHANGED <<db, dbBest, broken, stateOf>>
      /\ tip' = Empty /\ view' = Empty /\ tipBest' = NoBlock
      /\ mined' = stateOf[dbBest].mined
  BY DEF Restart
<1>3. mined' \in SUBSET Txs BY <1>2, BestTyped DEF States
<1>4. TypeOK' BY <1>1, <1>2, <1>3, EmptyTip, EmptyView DEF TypeOK
<1>5. TipGetBestBlock' = dbBest BY <1>2 DEF TipGetBestBlock
<1>6. BestKnown' BY <1>2, <1>5 DEF IInv, BestKnown
<1>7. DbOuts' = DbOuts /\ TipOuts' = DbOuts /\ ViewOuts' = DbOuts
  BY <1>2, EmptyTip, EmptyView DEF DbOuts
<1>8. StateToldUntilFailure'
  BY <1>2, <1>5, <1>7 DEF IInv, StateToldUntilFailure, BestBlockTellsTheState
<1>9. FlagsRight' BY <1>2, EmptyTip, EmptyView DEF FlagsRight
<1>10. (FreshMeansAbsentBelow /\ CleanMatchesBelow)'
  <2>1. (FlagsRight <=> FreshMeansAbsentBelow /\ CleanMatchesBelow)' BY FlagsAreBoth, PTL
  <2> QED BY <1>9, <2>1
<1>11. Abstract!Crash BY <1>2, <1>5, <1>7 DEF Abstract!Crash
<1> QED BY <1>4, <1>6, <1>8, <1>10, <1>11 DEF IInv

-----------------------------------------------------------------------------
(***************************************************************************)
(* The initial database is the empty output set of the first block.        *)
(***************************************************************************)
LEMMA InitRight == Init => IInv /\ Abstract!Init
<1> SUFFICES ASSUME Init PROVE IInv /\ Abstract!Init OBVIOUS
<1>1. tip = Empty /\ view = Empty /\ db = [t \in Txs |-> NoCoins] BY DEF Init
<1>2. TipGetBestBlock = Genesis /\ dbBest = Genesis BY DEF Init, TipGetBestBlock
<1>3. NoCoins \in Coins /\ NoCoins.outs = {} BY DEF NoCoins, Coins
<1>4. DbOuts = [t \in Txs |-> {}] BY <1>1, <1>3 DEF DbOuts
<1>5. TipOuts = DbOuts /\ ViewOuts = DbOuts /\ FlagsRight
  BY <1>1, EmptyShowsBelow DEF FlagsRight
<1>6. ViewState \in States /\ ViewState # NoState /\ ViewState.outs = ViewOuts
  <2>1. ViewState \in States BY <1>4, <1>5 DEF ViewState, States, Init
  <2> QED BY <2>1, ConstantsAssumption DEF ViewState
<1>7. stateOf \in [Blocks -> States \cup {NoState}] /\ stateOf[Genesis] = ViewState
  BY <1>6, ConstantsAssumption DEF Init
<1>8. TypeOK
  <2>1. db \in [Txs -> Coins] /\ \A t \in Txs : db[t] = NoCoins BY <1>1, <1>3
  <2>2. tip \in [Txs -> Entries \cup {NoEntry}] /\ view \in [Txs -> Entries \cup {NoEntry}]
    BY <1>1, EmptyShowsBelow
  <2>3. /\ dbBest \in Blocks /\ tipBest \in Blocks \cup {NoBlock}
        /\ broken \in BOOLEAN /\ mined \in SUBSET Txs
    BY ConstantsAssumption DEF Init
  <2> QED BY <1>7, <2>1, <2>2, <2>3 DEF TypeOK
<1>9. BestKnown /\ StateToldUntilFailure
  BY <1>2, <1>5, <1>6, <1>7 DEF BestKnown, StateToldUntilFailure, BestBlockTellsTheState
<1>10. Abstract!Init BY <1>2, <1>4, <1>5 DEF Init, Abstract!Init, Abstract!State
<1> QED BY <1>5, <1>8, <1>9, <1>10, FlagsAreBoth DEF IInv

(***************************************************************************)
(* Every step keeps the invariant and is a step, or a stutter, of the      *)
(* plain unspent output set.                                               *)
(***************************************************************************)
LEMMA StepRight == IInv /\ [Next]_vars => IInv' /\ [Abstract!Next]_(Abstract!vars)
<1> SUFFICES ASSUME IInv, [Next]_vars
             PROVE  IInv' /\ [Abstract!Next]_(Abstract!vars)
  OBVIOUS
<1>1. ASSUME NEW t \in Txs, NEW n \in Outputs, Spend(t, n) \/ ApplyTxInUndo(t, n)
      PROVE  IInv' /\ Abstract!Next
  BY <1>1, StepSpend, StepUndo DEF Abstract!Next
<1>2. ASSUME NEW t \in Txs, Create(t) \/ Remove(t)
      PROVE  IInv' /\ Abstract!Next
  BY <1>2, StepCreate, StepRemove DEF Abstract!Next
<1>3. ASSUME NEW t \in Txs, ViewFetch(t) \/ TipFetch(t) \/ Uncache(t)
      PROVE  IInv' /\ UNCHANGED Abstract!vars
  BY <1>3, StepFetchOrUncache
<1>4. ASSUME NEW b \in Blocks, CommitView(b)
      PROVE  IInv' /\ Abstract!Next
  BY <1>4, StepCommit DEF Abstract!Next
<1>5. ASSUME DropView \/ FlushTip \/ FlushTipFails \/ Restart
      PROVE  IInv' /\ Abstract!Next
  BY <1>5, StepDrop, StepFlush, StepFlushFails, StepRestart DEF Abstract!Next
<1>6. CASE UNCHANGED vars
  <2>1. IInv'
    BY <1>6 DEF vars, IInv, TypeOK, FreshMeansAbsentBelow, CleanMatchesBelow, BestKnown,
                StateToldUntilFailure, BestBlockTellsTheState, DbOuts, TipOuts, TipCoins,
                TipGetBestBlock
  <2>2. UNCHANGED Abstract!vars
    BY <1>6 DEF vars, Abstract!vars, DbOuts, TipOuts, ViewOuts, TipCoins, ViewCoins,
                TipGetBestBlock
  <2> QED BY <2>1, <2>2
<1> QED BY <1>1, <1>2, <1>3, <1>4, <1>5, <1>6 DEF Next

(***************************************************************************)
(* The flags mean what they say and each view's best block names the state *)
(* it holds, in every reachable state.                                     *)
(***************************************************************************)
THEOREM IInvHolds == Spec => []IInv
BY InitRight, StepRight, PTL DEF Spec

(***************************************************************************)
(* Type correctness; the database never holds pruned coins.                *)
(***************************************************************************)
THEOREM TypeCorrect == Spec => []TypeOK
<1>1. IInv => TypeOK BY DEF IInv
<1> QED BY <1>1, IInvHolds, PTL

(***************************************************************************)
(* The comments at CCoinsCacheEntry's flags are true of this code: FRESH   *)
(* entries cover nothing, and entries that are not DIRTY can be forgotten. *)
(***************************************************************************)
THEOREM FlagsCorrect == Spec => []FlagsTrue
<1>1. IInv => FlagsTrue BY DEF IInv, FlagsTrue
<1> QED BY <1>1, IInvHolds, PTL

(***************************************************************************)
(* Unless a write to it fails, the coin database always holds exactly the  *)
(* unspent outputs of the block it names as its best, across flushes and   *)
(* crashes at any point; so does pcoinsTip.                                *)
(***************************************************************************)
THEOREM BestBlockCorrect == Spec => []StateToldUntilFailure
<1>1. IInv => StateToldUntilFailure BY DEF IInv
<1> QED BY <1>1, IInvHolds, PTL

(***************************************************************************)
(* The three layers of views implement the plain unspent output set.       *)
(***************************************************************************)
THEOREM CachingIsInvisible == Spec => ImplementsUTXOSet
BY InitRight, StepRight, IInvHolds, PTL DEF Spec, ImplementsUTXOSet, Abstract!Spec

=============================================================================
