-------------------------- MODULE CheckQueueProofs --------------------------
(***************************************************************************)
(* Proofs about CheckQueue for every finite pool of workers, every finite  *)
(* set of checks and every batch size: the inductive invariant IInv, and   *)
(* from it the safety properties the runs check on small instances.        *)
(***************************************************************************)
EXTENDS CheckQueue, FiniteSetTheorems, TLAPS

USE WorkersAssumption, ChecksAssumption, BatchAssumption

\* Any set of threads and any set of checks is finite, so the counters of
\* the queue are cardinalities that can be added and subtracted.
LEMMA FiniteThings ==
    /\ IsFiniteSet(Threads)
    /\ \A S \in SUBSET Threads : IsFiniteSet(S) /\ Cardinality(S) \in Nat
    /\ \A S \in SUBSET Checks : IsFiniteSet(S) /\ Cardinality(S) \in Nat
<1>1. IsFiniteSet(Threads)
  BY FS_AddElement DEF Threads
<1>2. QED
  BY <1>1, FS_Subset, FS_CardinalityType

\* The constructor establishes the invariant: nobody is in Loop() yet.
LEMMA InitIInv == Init => IInv
<1> SUFFICES ASSUME Init PROVE IInv
  OBVIOUS
<1>1. TypeOK
  BY DEF Init, TypeOK, PC, Control, Threads
<1>2. Idlers = {} /\ Busy = {} /\ InLoop = {} /\ Pending = {}
  BY DEF Init, Idlers, Busy, InLoop, Pending, Threads
<1>3. TodoIsPending /\ CountersExact
  BY <1>2, FS_EmptySet DEF Init, TodoIsPending, CountersExact
<1>4. BatchesHeld /\ ResultsRecorded
  BY <1>2 DEF Init, BatchesHeld, ResultsRecorded, Threads
<1>5. MasterProtocol /\ MasterNeverStranded /\ WaitTellsTheTruth
  BY <1>2 DEF Init, MasterProtocol, MasterNeverStranded, WaitTellsTheTruth, Threads
<1>6. QED
  BY <1>1, <1>3, <1>4, <1>5 DEF IInv

-----------------------------------------------------------------------------
(* A critical section of Loop() is entered in three ways and left in       *)
(* three.  Entered says what the three entries have in common: the         *)
(* counters handed to Decide are those of a pool in which thread t is      *)
(* awake and holds no checks.                                              *)

Rest(t) == Pending \ batch[t]

Entered(t, total, idle, todo, ok, npc) ==
    /\ pc[t] \in {"enter", "asleep", "woken", "finished"}
    /\ total = Cardinality(InLoop \cup {t}) + nThrown
    /\ idle = Cardinality(Idlers \ {t}) + nThrown
    /\ todo = Cardinality(Rest(t))
    /\ ok \in BOOLEAN
    /\ ~ok => failing # {}
    /\ ok /\ control # "none" => failing \subseteq Rest(t)
    /\ control = "none" => ok
    /\ \/ npc = pc
       \/ /\ t # Master /\ pc[Master] = "asleep"
          /\ npc = [pc EXCEPT ![Master] = "woken"]
    /\ t # Master /\ todo = 0 => npc[Master] # "asleep"

\* First iteration of Loop(): t was in none of the counted sets.
LEMMA EnterEntered ==
    ASSUME IInv, NEW t \in Threads, Enter(t)
    PROVE  /\ Entered(t, nTotal + 1, nIdle, nTodo, fAllOk, pc)
           /\ Decide(t, nTotal + 1, nIdle, nTodo, fAllOk, pc)
<1> USE DEF IInv
<1>1. pc[t] = "enter" /\ t \notin InLoop /\ t \notin Idlers /\ batch[t] = {}
  BY DEF Enter, InLoop, Idlers, Busy, BatchesHeld
<1>2. Cardinality(InLoop \cup {t}) = Cardinality(InLoop) + 1
  BY <1>1, FiniteThings, FS_AddElement DEF InLoop, Idlers, Busy
<1>3. Idlers \ {t} = Idlers /\ Rest(t) = Pending
  BY <1>1 DEF Rest
<1>4. Cardinality(InLoop) \in Nat /\ nThrown \in Nat /\ InLoop \subseteq Threads
  BY FiniteThings DEF TypeOK, InLoop, Idlers, Busy
<1>5. nTotal + 1 = Cardinality(InLoop \cup {t}) + nThrown
  BY <1>2, <1>4 DEF CountersExact
<1>6. t # Master /\ nTodo = 0 => pc[Master] # "asleep"
  <2> SUFFICES ASSUME nTodo = 0, pc[Master] = "asleep" PROVE FALSE
    OBVIOUS
  <2>1. PICK w \in Workers : batch[w] # {}
    BY DEF MasterNeverStranded
  <2>2. Pending # {} /\ Pending \subseteq Checks
    BY <2>1 DEF Pending, TypeOK, Threads
  <2>3. QED
    BY <2>2, FiniteThings, FS_EmptySet DEF TodoIsPending
<1>7. QED
  BY <1>1, <1>3, <1>5, <1>6
  DEF Entered, Enter, CountersExact, TodoIsPending, TypeOK, ResultsRecorded,
      MasterProtocol

\* Return from cond.wait: t was counted in nIdle and is no longer.
LEMMA WakeUpEntered ==
    ASSUME IInv, NEW t \in Threads, WakeUp(t)
    PROVE  /\ Entered(t, nTotal, nIdle - 1, nTodo, fAllOk, pc)
           /\ Decide(t, nTotal, nIdle - 1, nTodo, fAllOk, pc)
<1> USE DEF IInv
<1>1. pc[t] \in {"asleep", "woken"} /\ t \in InLoop /\ t \in Idlers /\ batch[t] = {}
  BY DEF WakeUp, InLoop, Idlers, Busy, BatchesHeld
<1>2. Idlers \subseteq Threads /\ nThrown \in Nat
  BY DEF Idlers, TypeOK
<1>3. Cardinality(Idlers \ {t}) = Cardinality(Idlers) - 1
  BY <1>1, <1>2, FiniteThings, FS_RemoveElement
<1>4. InLoop \cup {t} = InLoop /\ Rest(t) = Pending
  BY <1>1 DEF Rest
<1>5. nIdle - 1 = Cardinality(Idlers \ {t}) + nThrown
  BY <1>2, <1>3, FiniteThings DEF CountersExact
<1>6. t # Master /\ nTodo = 0 => pc[Master] # "asleep"
  <2> SUFFICES ASSUME nTodo = 0, pc[Master] = "asleep" PROVE FALSE
    OBVIOUS
  <2>1. PICK w \in Workers : batch[w] # {}
    BY DEF MasterNeverStranded
  <2>2. Pending # {} /\ Pending \subseteq Checks
    BY <2>1 DEF Pending, TypeOK, Threads
  <2>3. QED
    BY <2>2, FiniteThings, FS_EmptySet DEF TodoIsPending
<1>7. QED
  BY <1>1, <1>4, <1>5, <1>6
  DEF Entered, WakeUp, CountersExact, TodoIsPending, TypeOK, ResultsRecorded,
      MasterProtocol

\* The clean-up of a batch: its checks leave nTodo together and its result
\* enters fAllOk, in the critical section that decides what t does next.
LEMMA CleanUpEntered ==
    ASSUME IInv, NEW t \in Threads, CleanUp(t),
           NEW todo, todo = nTodo - Cardinality(batch[t])
    PROVE  /\ Entered(t, nTotal, nIdle, todo, fAllOk /\ fOk[t], Notified(t, todo))
           /\ Decide(t, nTotal, nIdle, todo, fAllOk /\ fOk[t], Notified(t, todo))
<1> USE DEF IInv
<1> DEFINE npc == Notified(t, todo)
<1>1. pc[t] = "finished" /\ t \in InLoop /\ t \notin Idlers /\ t \in Busy
  BY DEF CleanUp, InLoop, Idlers, Busy
<1>2. /\ Pending \subseteq Checks /\ batch[t] \subseteq Pending
      /\ InLoop \cup {t} = InLoop /\ Idlers \ {t} = Idlers
  BY <1>1 DEF Pending, TypeOK
<1>3. Cardinality(Rest(t)) = Cardinality(Pending) - Cardinality(batch[t])
  <2>1. Pending \cap batch[t] = batch[t]
    BY <1>2
  <2>2. QED
    BY <1>2, <2>1, FiniteThings, FS_Difference DEF Rest
<1>4. todo = Cardinality(Rest(t))
  BY <1>3 DEF TodoIsPending
<1>5. \/ npc = pc
      \/ t # Master /\ pc[Master] = "asleep" /\ npc = [pc EXCEPT ![Master] = "woken"]
  BY DEF Notified
<1>6. t # Master /\ todo = 0 => npc[Master] # "asleep"
  BY DEF Notified, TypeOK, Threads
<1>7. (fAllOk /\ fOk[t]) /\ control # "none" => failing \subseteq Rest(t)
  BY <1>1 DEF ResultsRecorded, Rest
<1>8. /\ (fAllOk /\ fOk[t]) \in BOOLEAN
      /\ ~(fAllOk /\ fOk[t]) => failing # {}
  BY <1>1 DEF ResultsRecorded
<1>9. control # "none"
  BY <1>1, <1>2 DEF MasterProtocol, BatchesHeld
<1>10. Entered(t, nTotal, nIdle, todo, fAllOk /\ fOk[t], npc)
  <2> HIDE DEF npc
  <2> QED
    BY <1>1, <1>2, <1>4, <1>5, <1>6, <1>7, <1>8, <1>9 DEF Entered, CountersExact
<1>11. QED
  BY <1>10 DEF CleanUp

-----------------------------------------------------------------------------
(* Leaving the critical section                                            *)

\* The positions after Decide: t is at x, the others where they were, except
\* that a sleeping master may have been notified.
LEMMA NewPositions ==
    ASSUME IInv, NEW t \in Threads, NEW total, NEW idle, NEW todo, NEW ok, NEW npc,
           Entered(t, total, idle, todo, ok, npc),
           NEW x \in PC, pc' = [npc EXCEPT ![t] = x]
    PROVE  /\ pc' \in [Threads -> PC] /\ pc'[t] = x
           /\ \A u \in Threads \ {t} :
                 \/ pc'[u] = pc[u]
                 \/ u = Master /\ pc[u] = "asleep" /\ pc'[u] = "woken"
           /\ Busy' \ {t} = Busy \ {t}
           /\ Idlers' \ {t} = Idlers \ {t}
           /\ t \in Busy' <=> x \in {"working", "finished"}
           /\ t \in Idlers' <=> x \in {"asleep", "woken", "gone"}
<1> USE DEF IInv, Entered
<1>1. npc \in [Threads -> PC]
  BY DEF TypeOK, PC, Threads
<1>2. /\ pc' \in [Threads -> PC] /\ pc'[t] = x
      /\ \A u \in Threads \ {t} : pc'[u] = npc[u]
  BY <1>1
<1>3. \A u \in Threads \ {t} :
         \/ pc'[u] = pc[u]
         \/ u = Master /\ pc[u] = "asleep" /\ pc'[u] = "woken"
  BY <1>2 DEF TypeOK, Threads
<1>4. QED
  BY <1>2, <1>3 DEF Busy, Idlers

\* Taking a batch moves checks from the queue to t and completes none.
LEMMA TakeBatchPreserves ==
    ASSUME IInv, NEW t \in Threads, NEW total, NEW idle, NEW todo, NEW ok, NEW npc,
           Entered(t, total, idle, todo, ok, npc),
           Decide(t, total, idle, todo, ok, npc),
           TakeBatch(t, total, idle, ok, npc)
    PROVE  IInv'
<1> USE DEF IInv
<1>0. /\ nTodo' = todo /\ round' = round /\ failing' = failing
      /\ fInterrupt' = fInterrupt /\ nThrown' = nThrown
      /\ control' = control /\ result' = result
      /\ fAllOk' = ok /\ nTotal' = total /\ nIdle' = idle /\ queue # {}
      /\ fOk' = [fOk EXCEPT ![t] = ok]
      /\ pc' = [npc EXCEPT ![t] = "working"]
  BY DEF Decide, TakeBatch
<1>1. PICK B \in SUBSET queue :
         /\ Cardinality(B) = BatchNow(total, idle)
         /\ queue' = queue \ B
         /\ batch' = [batch EXCEPT ![t] = B]
  BY DEF TakeBatch
<1>2. /\ pc' \in [Threads -> PC] /\ pc'[t] = "working"
      /\ \A u \in Threads \ {t} :
            \/ pc'[u] = pc[u]
            \/ u = Master /\ pc[u] = "asleep" /\ pc'[u] = "woken"
      /\ Busy' \ {t} = Busy \ {t} /\ Idlers' \ {t} = Idlers \ {t}
      /\ t \in Busy' /\ t \notin Idlers'
  BY <1>0, NewPositions, "working" \in PC DEF PC
<1>3. total \in Nat /\ idle \in Nat /\ todo \in Nat
  <2>1. /\ InLoop \cup {t} \subseteq Threads /\ Idlers \ {t} \subseteq Threads
        /\ Rest(t) \subseteq Checks /\ nThrown \in Nat
    BY DEF InLoop, Idlers, Busy, Rest, Pending, TypeOK
  <2>2. QED
    BY <2>1, FiniteThings DEF Entered
<1>4. B # {}
  <2>1. BatchNow(total, idle) \in Nat /\ BatchNow(total, idle) >= 1
    <3>1. Cardinality(queue) \in Nat
      BY FiniteThings DEF TypeOK
    <3>2. total + idle + 1 \in Nat \ {0}
      BY <1>3
    <3>3. Cardinality(queue) \div (total + idle + 1) \in Int
      BY <3>1, <3>2
    <3>4. QED
      BY <3>3 DEF BatchNow, MaxOf, MinOf
  <2>2. QED
    BY <1>1, <2>1, FS_EmptySet
<1>5. TypeOK'
  BY <1>0, <1>1, <1>2, <1>3 DEF TypeOK, Entered
<1>6. Pending' = Rest(t)
  BY <1>0, <1>1 DEF Pending, Rest, TypeOK, TodoIsPending
<1>7. TodoIsPending'
  <2>1. nTodo' = Cardinality(Pending')
    BY <1>0, <1>6 DEF Entered
  <2>2. \A u \in Threads : batch'[u] \cap queue' = {}
    BY <1>1 DEF TodoIsPending, TypeOK
  <2>3. \A u, v \in Threads : u # v => batch'[u] \cap batch'[v] = {}
    BY <1>1 DEF TodoIsPending, TypeOK
  <2>4. QED
    BY <2>1, <2>2, <2>3 DEF TodoIsPending
<1>8. CountersExact'
  <2>1. InLoop' = InLoop \cup {t} /\ Idlers' = Idlers \ {t}
    BY <1>2 DEF InLoop
  <2>2. QED
    BY <1>0, <2>1 DEF CountersExact, Entered
<1>9. BatchesHeld'
  <2>1. \A u \in Threads : batch'[u] # {} <=> u \in Busy'
    BY <1>1, <1>2, <1>4 DEF BatchesHeld, TypeOK
  <2>2. QED
    BY <1>0, <1>6, <2>1 DEF BatchesHeld, Rest
<1>10. ResultsRecorded'
  <2>1. /\ ~fAllOk' => failing' # {}
        /\ fAllOk' /\ control' # "none" => failing' \subseteq Pending'
    BY <1>0, <1>6 DEF Entered
  <2>2. \A u \in Busy' : ~fOk'[u] => failing' # {}
    BY <1>0, <1>2 DEF Entered, ResultsRecorded, TypeOK, Busy
  <2>3. \A u \in Threads : pc'[u] = "finished" /\ fOk'[u] => batch'[u] \cap failing' = {}
    BY <1>0, <1>1, <1>2 DEF ResultsRecorded, TypeOK
  <2>4. QED
    BY <2>1, <2>2, <2>3 DEF ResultsRecorded
<1>11. MasterProtocol'
  <2>1. control # "none"
    BY <1>0 DEF MasterProtocol, Pending, TypeOK
  <2>2. pc'[Master] # "gone" /\ \A w \in Workers : pc'[w] # "out"
    BY <1>2 DEF MasterProtocol, Threads
  <2>3. control' \in {"wait", "unwind"} <=> pc'[Master] # "out"
    BY <1>0, <1>2 DEF MasterProtocol, Threads, Entered
  <2>4. pc'[Master] \in {"asleep", "woken"} => queue' = {}
    BY <1>0, <1>1, <1>2 DEF MasterProtocol, Threads
  <2>5. QED
    BY <1>0, <2>1, <2>2, <2>3, <2>4 DEF MasterProtocol
<1>12. MasterNeverStranded'
  BY <1>0, <1>2 DEF MasterProtocol, MasterNeverStranded, Threads
<1>13. WaitTellsTheTruth'
  BY <1>0 DEF WaitTellsTheTruth
<1>14. QED
  BY <1>5, <1>7, <1>8, <1>9, <1>10, <1>11, <1>12, <1>13

\* The master returns only when no check is pending anywhere, so the flag it
\* hands back covers the whole round.
LEMMA MasterReturnsPreserves ==
    ASSUME IInv, NEW t \in Threads, NEW total, NEW idle, NEW todo, NEW ok, NEW npc,
           Entered(t, total, idle, todo, ok, npc),
           Decide(t, total, idle, todo, ok, npc),
           MasterReturns(t, total, idle, todo, ok, npc)
    PROVE  IInv'
<1> USE DEF IInv
<1>0. /\ nTodo' = todo /\ round' = round /\ failing' = failing
      /\ fInterrupt' = fInterrupt /\ nThrown' = nThrown
      /\ t = Master /\ todo = 0 /\ queue = {} /\ queue' = queue /\ fOk' = fOk
      /\ control' = "none" /\ result' = ok /\ fAllOk' = TRUE
      /\ nTotal' = total - 1 /\ nIdle' = idle
      /\ batch' = [batch EXCEPT ![t] = {}]
      /\ pc' = [npc EXCEPT ![t] = "out"]
  BY DEF Decide, MasterReturns
<1>2. /\ pc' \in [Threads -> PC] /\ pc'[t] = "out"
      /\ \A u \in Threads \ {t} :
            \/ pc'[u] = pc[u]
            \/ u = Master /\ pc[u] = "asleep" /\ pc'[u] = "woken"
      /\ Busy' \ {t} = Busy \ {t} /\ Idlers' \ {t} = Idlers \ {t}
      /\ t \notin Busy' /\ t \notin Idlers'
  BY <1>0, NewPositions, "out" \in PC DEF PC
<1>3. /\ InLoop \cup {t} \subseteq Threads /\ Idlers \ {t} \subseteq Threads
      /\ Rest(t) \subseteq Checks /\ nThrown \in Nat
  BY DEF InLoop, Idlers, Busy, Rest, Pending, TypeOK
<1>4. /\ total \in Nat /\ idle \in Nat /\ todo \in Nat
      /\ todo = 0 <=> Rest(t) = {}
  BY <1>3, FiniteThings, FS_EmptySet DEF Entered
<1>5. Pending' = {} /\ Rest(t) = {}
  BY <1>0, <1>4 DEF Pending, Rest, TypeOK, TodoIsPending
<1>6. nTotal' = Cardinality(InLoop') + nThrown /\ nTotal' \in Nat
  <2>1. InLoop' = (InLoop \cup {t}) \ {t}
    BY <1>2 DEF InLoop
  <2>2. Cardinality(InLoop') = Cardinality(InLoop \cup {t}) - 1
    BY <1>3, <2>1, FiniteThings, FS_RemoveElement
  <2>3. InLoop' \subseteq Threads
    BY <1>3, <2>1
  <2>4. QED
    BY <1>0, <1>3, <2>2, <2>3, FiniteThings DEF Entered
<1>7. TypeOK'
  BY <1>0, <1>2, <1>4, <1>6 DEF TypeOK, Entered, Control
<1>8. TodoIsPending'
  BY <1>0, <1>5, FS_EmptySet DEF TodoIsPending, TypeOK
<1>9. CountersExact'
  <2>1. Idlers' = Idlers \ {t}
    BY <1>2
  <2>2. QED
    BY <1>0, <1>6, <2>1 DEF CountersExact, Entered
<1>10. BatchesHeld'
  BY <1>0, <1>2, <1>5 DEF BatchesHeld, TypeOK
<1>11. ResultsRecorded'
  <2>1. \A u \in Busy' : ~fOk'[u] => failing' # {}
    BY <1>0, <1>2 DEF ResultsRecorded
  <2>2. \A u \in Threads : pc'[u] = "finished" /\ fOk'[u] => batch'[u] \cap failing' = {}
    BY <1>0, <1>2 DEF ResultsRecorded, TypeOK
  <2>3. QED
    BY <1>0, <2>1, <2>2 DEF ResultsRecorded
<1>12. MasterProtocol'
  BY <1>0, <1>2, <1>5 DEF MasterProtocol, Threads
<1>13. MasterNeverStranded'
  BY <1>0, <1>2 DEF MasterNeverStranded
<1>14. WaitTellsTheTruth'
  <2>1. control # "none"
    BY <1>0 DEF MasterProtocol, Entered
  <2>2. ok <=> failing = {}
    BY <1>5, <2>1 DEF Entered
  <2>3. QED
    BY <1>0, <2>2 DEF WaitTellsTheTruth
<1>15. QED
  BY <1>7, <1>8, <1>9, <1>10, <1>11, <1>12, <1>13, <1>14

\* A thread goes to sleep on an empty queue; a master does so only while some
\* worker holds a batch.
LEMMA GoToSleepPreserves ==
    ASSUME IInv, NEW t \in Threads, NEW total, NEW idle, NEW todo, NEW ok, NEW npc,
           Entered(t, total, idle, todo, ok, npc),
           Decide(t, total, idle, todo, ok, npc),
           GoToSleep(t, total, idle, todo, ok, npc)
    PROVE  IInv'
<1> USE DEF IInv
<1>0. /\ nTodo' = todo /\ round' = round /\ failing' = failing
      /\ fInterrupt' = fInterrupt /\ nThrown' = nThrown
      /\ ~(t = Master /\ todo = 0) /\ queue = {} /\ queue' = queue /\ fOk' = fOk
      /\ control' = control /\ result' = result /\ fAllOk' = ok
      /\ nTotal' = total /\ nIdle' = idle + 1
      /\ batch' = [batch EXCEPT ![t] = {}]
      /\ pc' = [npc EXCEPT ![t] = "asleep"]
  BY DEF Decide, GoToSleep
<1>2. /\ pc' \in [Threads -> PC] /\ pc'[t] = "asleep"
      /\ \A u \in Threads \ {t} :
            \/ pc'[u] = pc[u]
            \/ u = Master /\ pc[u] = "asleep" /\ pc'[u] = "woken"
      /\ Busy' \ {t} = Busy \ {t} /\ Idlers' \ {t} = Idlers \ {t}
      /\ t \notin Busy' /\ t \in Idlers'
  BY <1>0, NewPositions, "asleep" \in PC DEF PC
<1>3. /\ InLoop \cup {t} \subseteq Threads /\ Idlers \ {t} \subseteq Threads
      /\ Rest(t) \subseteq Checks /\ nThrown \in Nat
  BY DEF InLoop, Idlers, Busy, Rest, Pending, TypeOK
<1>4. /\ total \in Nat /\ idle \in Nat /\ todo \in Nat
      /\ todo = 0 <=> Rest(t) = {}
  BY <1>3, FiniteThings, FS_EmptySet DEF Entered
<1>5. Pending' = Rest(t)
  BY <1>0 DEF Pending, Rest, TypeOK, TodoIsPending
<1>6. TypeOK'
  BY <1>0, <1>2, <1>4 DEF TypeOK, Entered
<1>7. TodoIsPending'
  BY <1>0, <1>5 DEF TodoIsPending, TypeOK, Entered
<1>8. CountersExact'
  <2>1. InLoop' = InLoop \cup {t} /\ Idlers' = (Idlers \ {t}) \cup {t}
    BY <1>2 DEF InLoop
  <2>2. Cardinality(Idlers') = Cardinality(Idlers \ {t}) + 1
    BY <1>3, <2>1, FiniteThings, FS_AddElement
  <2>3. QED
    BY <1>0, <1>3, <2>1, <2>2, FiniteThings DEF CountersExact, Entered
<1>9. BatchesHeld'
  BY <1>0, <1>2, <1>5 DEF BatchesHeld, TypeOK, Rest
<1>10. ResultsRecorded'
  <2>1. /\ ~fAllOk' => failing' # {}
        /\ fAllOk' /\ control' # "none" => failing' \subseteq Pending'
    BY <1>0, <1>5 DEF Entered
  <2>2. \A u \in Busy' : ~fOk'[u] => failing' # {}
    BY <1>0, <1>2 DEF ResultsRecorded
  <2>3. \A u \in Threads : pc'[u] = "finished" /\ fOk'[u] => batch'[u] \cap failing' = {}
    BY <1>0, <1>2 DEF ResultsRecorded, TypeOK
  <2>4. QED
    BY <2>1, <2>2, <2>3 DEF ResultsRecorded
<1>11. MasterProtocol'
  <2>1. pc'[Master] # "gone" /\ \A w \in Workers : pc'[w] # "out"
    BY <1>2 DEF MasterProtocol, Threads
  <2>2. control' \in {"wait", "unwind"} <=> pc'[Master] # "out"
    BY <1>0, <1>2 DEF MasterProtocol, Threads, Entered
  <2>3. control' = "none" => Pending' = {} /\ fAllOk'
    <3> SUFFICES ASSUME control = "none" PROVE Pending' = {} /\ ok
      BY <1>0
    <3>1. Pending = {}
      BY DEF MasterProtocol
    <3>2. QED
      BY <1>5, <3>1 DEF Rest, Entered
  <2>4. QED
    BY <1>0, <2>1, <2>2, <2>3 DEF MasterProtocol
<1>12. MasterNeverStranded'
  <2> SUFFICES ASSUME pc'[Master] = "asleep"
               PROVE  \E w \in Workers : w \in Busy' /\ batch'[w] # {}
    BY DEF MasterNeverStranded, Busy, Threads
  <2>1. Pending' # {}
    BY <1>0, <1>2, <1>4, <1>5 DEF Entered, Threads
  <2>2. PICK u \in Threads : batch'[u] # {}
    BY <1>0, <2>1 DEF Pending
  <2>3. u \in Busy' /\ u # Master
    BY <1>9, <2>2 DEF BatchesHeld, Busy
  <2>4. QED
    BY <2>2, <2>3 DEF Threads
<1>13. WaitTellsTheTruth'
  BY <1>0 DEF WaitTellsTheTruth
<1>14. QED
  BY <1>6, <1>7, <1>8, <1>9, <1>10, <1>11, <1>12, <1>13

\* Whatever the entry and the exit, a critical section preserves IInv.
LEMMA DecidePreserves ==
    ASSUME IInv, NEW t \in Threads, NEW total, NEW idle, NEW todo, NEW ok, NEW npc,
           Entered(t, total, idle, todo, ok, npc),
           Decide(t, total, idle, todo, ok, npc)
    PROVE  IInv'
<1>1. CASE TakeBatch(t, total, idle, ok, npc)
  BY <1>1, TakeBatchPreserves
<1>2. CASE MasterReturns(t, total, idle, todo, ok, npc)
  BY <1>2, MasterReturnsPreserves
<1>3. CASE GoToSleep(t, total, idle, todo, ok, npc)
  BY <1>3, GoToSleepPreserves
<1>4. QED
  BY <1>1, <1>2, <1>3 DEF Decide

-----------------------------------------------------------------------------
(* The steps outside the critical sections                                 *)

\* A new control starts a round with nothing pending.
LEMMA CreateControlPreserves == IInv /\ CreateControl => IInv'
<1> SUFFICES ASSUME IInv, CreateControl PROVE IInv'
  OBVIOUS
<1> USE DEF IInv, CreateControl
<1>1. TypeOK'
  BY DEF TypeOK, Control
<1>2. Pending' = Pending /\ Pending = {} /\ Busy' = Busy /\ Idlers' = Idlers
  BY DEF Pending, Busy, Idlers, MasterProtocol
<1>3. TodoIsPending' /\ CountersExact'
  BY <1>2 DEF TodoIsPending, CountersExact, InLoop
<1>4. BatchesHeld'
  BY <1>2 DEF BatchesHeld
<1>5. ResultsRecorded'
  BY <1>2 DEF ResultsRecorded, BatchesHeld, MasterProtocol, Pending, TypeOK, Busy
<1>6. MasterProtocol' /\ MasterNeverStranded' /\ WaitTellsTheTruth'
  BY <1>2 DEF MasterProtocol, MasterNeverStranded, WaitTellsTheTruth
<1>7. QED
  BY <1>1, <1>3, <1>4, <1>5, <1>6

\* Adding checks raises nTodo by their number: they are new to the round.
LEMMA AddPreserves ==
    ASSUME IInv, NEW vChecks, NEW bad, Add(vChecks, bad)
    PROVE  IInv'
<1> USE DEF IInv
<1>0. /\ pc[Master] = "out" /\ control = "adding"
      /\ vChecks \subseteq Checks \ round /\ bad \subseteq vChecks
      /\ queue' = queue \cup vChecks
      /\ nTodo' = nTodo + Cardinality(vChecks)
      /\ round' = round \cup vChecks /\ failing' = failing \cup bad
      /\ UNCHANGED <<nIdle, nTotal, fAllOk, batch, fOk, control, result,
                     fInterrupt, nThrown>>
  BY DEF Add
<1>1. PICK W \in Woken(Cardinality(vChecks)) :
         pc' = [t \in Threads |-> IF t \in W THEN "woken" ELSE pc[t]]
  BY DEF Add
<1>2. W \subseteq Asleep
  BY DEF Woken
<1>3. /\ pc' \in [Threads -> PC]
      /\ pc'[Master] = pc[Master]
      /\ \A t \in Threads : pc'[t] # pc[t] => pc[t] = "asleep" /\ pc'[t] = "woken"
  BY <1>1, <1>2 DEF Asleep, TypeOK, PC, Threads
<1>4. Busy' = Busy /\ Idlers' = Idlers
  BY <1>3 DEF Busy, Idlers
<1>5. /\ Pending' = Pending \cup vChecks /\ Pending \cap vChecks = {}
      /\ Pending \subseteq Checks
  BY <1>0 DEF Pending, TypeOK, BatchesHeld
<1>6. Cardinality(Pending') = Cardinality(Pending) + Cardinality(vChecks)
  <2>1. /\ IsFiniteSet(Pending) /\ Cardinality(Pending) \in Nat
        /\ IsFiniteSet(vChecks) /\ Cardinality(vChecks) \in Nat
    BY <1>0, <1>5, FiniteThings
  <2>2. Cardinality(Pending \cup vChecks)
            = Cardinality(Pending) + Cardinality(vChecks) - Cardinality(Pending \cap vChecks)
    BY <2>1, FS_Union
  <2>3. Cardinality(Pending \cap vChecks) = 0
    BY <1>5, FS_EmptySet
  <2>4. QED
    BY <1>5, <2>1, <2>2, <2>3
<1>7. TypeOK'
  BY <1>0, <1>3, FiniteThings DEF TypeOK
<1>8. TodoIsPending'
  BY <1>0, <1>5, <1>6 DEF TodoIsPending, TypeOK, Pending
<1>9. CountersExact' /\ BatchesHeld'
  BY <1>0, <1>4, <1>5 DEF CountersExact, InLoop, BatchesHeld
<1>10. ResultsRecorded'
  <2>1. \A t \in Threads : batch[t] \cap bad = {}
    BY <1>0, <1>5 DEF Pending, TypeOK
  <2>2. \A t \in Threads : pc'[t] = "finished" => pc[t] = "finished"
    BY <1>3 DEF TypeOK
  <2>3. QED
    BY <1>0, <1>4, <1>5, <2>1, <2>2 DEF ResultsRecorded
<1>11. MasterProtocol' /\ MasterNeverStranded' /\ WaitTellsTheTruth'
  <2>1. \A w \in Workers : pc'[w] # "out"
    BY <1>3 DEF MasterProtocol, Threads
  <2>2. MasterProtocol'
    BY <1>0, <1>3, <2>1 DEF MasterProtocol
  <2>3. QED
    BY <1>0, <1>3, <2>2 DEF MasterNeverStranded, WaitTellsTheTruth
<1>12. QED
  BY <1>7, <1>8, <1>9, <1>10, <1>11

\* A step that moves one thread t and touches no counter, queue or result.
LEMMA MovePreserves ==
    ASSUME IInv, NEW t \in Threads, NEW x \in PC \ {"out", "asleep"},
           pc' = [pc EXCEPT ![t] = x],
           pc[t] \in {"asleep", "woken"} => t # Master /\ x = "gone",
           x = "gone" => pc[t] \in {"asleep", "woken"},
           pc[t] = "working" => x = "finished",
           pc[t] = "out" => t = Master /\ x = "enter" /\ control = "adding" /\ control' = "wait",
           pc[t] # "out" => control' = control,
           pc[t] \in {"out", "asleep", "woken", "working"},
           \A u \in Threads \ {t} : fOk'[u] = fOk[u],
           fOk' \in [Threads -> BOOLEAN],
           pc[t] = "working" =>
               fOk'[t] <=> (fOk[t] /\ batch[t] \cap failing = {}),
           pc[t] # "working" => fOk' = fOk,
           UNCHANGED <<queue, nTodo, nIdle, nTotal, fAllOk, batch, round,
                       failing, result, fInterrupt, nThrown>>
    PROVE  IInv'
<1> USE DEF IInv
<1>1. /\ pc' \in [Threads -> PC] /\ pc'[t] = x
      /\ \A u \in Threads \ {t} : pc'[u] = pc[u]
  BY DEF TypeOK
<1>2. Busy' = Busy /\ Idlers' = Idlers /\ Pending' = Pending
  BY <1>1 DEF Busy, Idlers, Pending, PC
<1>3. TypeOK'
  BY <1>1 DEF TypeOK, Control
<1>4. TodoIsPending' /\ CountersExact' /\ BatchesHeld'
  BY <1>2 DEF TodoIsPending, CountersExact, BatchesHeld, InLoop
<1>5. ResultsRecorded'
  <2>1. \A u \in Busy : ~fOk'[u] => failing # {}
    BY DEF ResultsRecorded, Busy, TypeOK
  <2>2. \A u \in Threads : pc'[u] = "finished" /\ fOk'[u] => batch[u] \cap failing = {}
    BY <1>1 DEF ResultsRecorded
  <2>3. QED
    BY <1>2, <2>1, <2>2 DEF ResultsRecorded, MasterProtocol, TypeOK
<1>6. MasterProtocol'
  BY <1>1, <1>2 DEF MasterProtocol, Threads
<1>7. MasterNeverStranded'
  BY <1>1 DEF MasterNeverStranded, Threads
<1>8. WaitTellsTheTruth'
  BY DEF WaitTellsTheTruth, MasterProtocol
<1>9. QED
  BY <1>3, <1>4, <1>5, <1>6, <1>7, <1>8

\* The master's wait throws: it leaves Loop() and stays in both counters.
LEMMA MasterThrowsPreserves == IInv /\ MasterThrows => IInv'
<1> SUFFICES ASSUME IInv, MasterThrows PROVE IInv'
  OBVIOUS
<1> USE DEF IInv
<1>0. /\ pc[Master] \in {"asleep", "woken"} /\ control = "wait" /\ control' = "unwind"
      /\ pc' = [pc EXCEPT ![Master] = "enter"] /\ nThrown' = nThrown + 1
      /\ UNCHANGED <<queue, nTodo, nIdle, nTotal, fAllOk, batch, fOk, round,
                     failing, result, fInterrupt>>
  BY DEF MasterThrows
<1>1. /\ pc' \in [Threads -> PC] /\ pc'[Master] = "enter"
      /\ \A u \in Threads \ {Master} : pc'[u] = pc[u]
  BY <1>0 DEF TypeOK, PC, Threads
<1>2. /\ Busy' = Busy /\ Idlers' = Idlers \ {Master} /\ Pending' = Pending
      /\ Master \in Idlers /\ Master \notin Busy
      /\ Idlers \subseteq Threads /\ Busy \subseteq Threads
  BY <1>0, <1>1 DEF Busy, Idlers, Pending, Threads
<1>3. InLoop' = InLoop \ {Master} /\ Master \in InLoop /\ InLoop \subseteq Threads
  BY <1>2 DEF InLoop
<1>4. /\ Cardinality(InLoop') = Cardinality(InLoop) - 1
      /\ Cardinality(Idlers') = Cardinality(Idlers) - 1
  BY <1>2, <1>3, FiniteThings, FS_RemoveElement
<1>5. TypeOK'
  BY <1>0, <1>1 DEF TypeOK, Control
<1>6. CountersExact'
  BY <1>0, <1>2, <1>3, <1>4, FiniteThings DEF CountersExact, TypeOK
<1>7. TodoIsPending' /\ BatchesHeld'
  BY <1>0, <1>2 DEF TodoIsPending, BatchesHeld
<1>8. ResultsRecorded'
  BY <1>0, <1>1, <1>2 DEF ResultsRecorded
<1>9. MasterProtocol' /\ MasterNeverStranded' /\ WaitTellsTheTruth'
  BY <1>0, <1>1, <1>2 DEF MasterProtocol, MasterNeverStranded, WaitTellsTheTruth, Threads
<1>10. QED
  BY <1>5, <1>6, <1>7, <1>8, <1>9

-----------------------------------------------------------------------------
\* Every step of the pool and of its master preserves the invariant.
LEMMA NextIInv == IInv /\ [Next]_vars => IInv'
<1> SUFFICES ASSUME IInv, [Next]_vars PROVE IInv'
  OBVIOUS
<1>1. CASE CreateControl
  BY <1>1, CreateControlPreserves
<1>2. ASSUME NEW vChecks, NEW bad, Add(vChecks, bad) PROVE IInv'
  BY <1>2, AddPreserves
<1>3. CASE CallWait
  BY <1>3, MovePreserves, "enter" \in PC DEF CallWait, IInv, TypeOK, Threads, PC
<1>4. ASSUME NEW t \in Threads, Enter(t) PROVE IInv'
  BY <1>4, EnterEntered, DecidePreserves
<1>5. ASSUME NEW t \in Threads, WakeUp(t) PROVE IInv'
  BY <1>5, WakeUpEntered, DecidePreserves
<1>6. ASSUME NEW t \in Threads, CleanUp(t) PROVE IInv'
  BY <1>6, CleanUpEntered, DecidePreserves
<1>7. ASSUME NEW t \in Threads, Execute(t) PROVE IInv'
  <2>1. fOk' = [fOk EXCEPT ![t] = fOk[t] /\ batch[t] \cap failing = {}]
    BY <1>7 DEF Execute
  <2>2. /\ fOk' \in [Threads -> BOOLEAN]
        /\ fOk'[t] <=> (fOk[t] /\ batch[t] \cap failing = {})
        /\ \A u \in Threads \ {t} : fOk'[u] = fOk[u]
    BY <2>1 DEF IInv, TypeOK
  <2>3. QED
    BY <1>7, <2>2, MovePreserves, "finished" \in PC DEF Execute, PC
<1>8. CASE InterruptAll
  <2>1. UNCHANGED <<queue, nTodo, nIdle, nTotal, fAllOk, pc, batch, fOk,
                    control, round, failing, result, nThrown>> /\ fInterrupt' \in BOOLEAN
    BY <1>8 DEF InterruptAll
  <2>2. QED
    BY <2>1 DEF IInv, TypeOK, TodoIsPending, CountersExact, BatchesHeld,
       ResultsRecorded, MasterProtocol, MasterNeverStranded, WaitTellsTheTruth,
       Busy, Idlers, InLoop, Pending
<1>9. ASSUME NEW w \in Workers, WorkerThrows(w) PROVE IInv'
  BY <1>9, MovePreserves, "gone" \in PC DEF WorkerThrows, IInv, TypeOK, Threads, PC
<1>10. CASE MasterThrows
  BY <1>10, MasterThrowsPreserves
<1>11. CASE UNCHANGED vars
  BY <1>11 DEF vars, IInv, TypeOK, TodoIsPending, CountersExact, BatchesHeld,
     ResultsRecorded, MasterProtocol, MasterNeverStranded, WaitTellsTheTruth,
     Busy, Idlers, InLoop, Pending
<1>12. QED
  BY <1>1, <1>2, <1>3, <1>4, <1>5, <1>6, <1>7, <1>8, <1>9, <1>10, <1>11
  DEF Next, Loop

\* The inductive invariant holds in every reachable state.
THEOREM IInvHolds == Spec => []IInv
<1>1. QED
  BY InitIInv, NextIInv, PTL DEF Spec

\* The state of the queue is well typed in every interleaving; no unsigned
\* counter is ever decremented below zero.
THEOREM TypeCorrect == Spec => []TypeOK
<1>1. IInv => TypeOK
  BY DEF IInv
<1>2. QED
  BY <1>1, IInvHolds, PTL

\* For every number of workers, nTodo counts exactly the outstanding checks.
THEOREM TodoCorrect == Spec => []TodoIsPending
<1>1. IInv => TodoIsPending
  BY DEF IInv
<1>2. QED
  BY <1>1, IInvHolds, PTL

\* The assert(isIdle) of CCheckQueueControl's constructor cannot fail.
THEOREM ControlFindsIdle == Spec => []IdleAtControl
<1>1. IInv => IdleAtControl
  <2> SUFFICES ASSUME IInv, control = "none" PROVE IsIdle
    BY DEF IdleAtControl
  <2> USE DEF IInv
  <2>1. Pending = {} /\ fAllOk = TRUE
    BY DEF MasterProtocol, TypeOK
  <2>2. nTodo = 0
    BY <2>1, FS_EmptySet DEF TodoIsPending
  <2>3. Busy = {}
    BY <2>1 DEF BatchesHeld, Pending, TypeOK, Busy
  <2>4. InLoop = Idlers
    BY <2>3 DEF InLoop
  <2>5. QED
    BY <2>1, <2>2, <2>4 DEF CountersExact, IsIdle
<1>2. QED
  BY <1>1, IInvHolds, PTL

\* The three together, as the run check_queue checks them: counters in range, nTodo
\* exact, and a pool between two blocks idle.
THEOREM QueueCorrect == Spec => []QueueConsistent
  BY TypeCorrect, TodoCorrect, ControlFindsIdle, PTL DEF QueueConsistent

\* Wait() returns the conjunction of the results of the checks of its block,
\* for every pool size, batch size and schedule.
THEOREM WaitCorrect == Spec => []WaitTellsTheTruth
<1>1. IInv => WaitTellsTheTruth
  BY DEF IInv
<1>2. QED
  BY <1>1, IInvHolds, PTL

\* A sleeping master always has a worker left to wake it.
THEOREM NoStrandedMaster == Spec => []MasterNeverStranded
<1>1. IInv => MasterNeverStranded
  BY DEF IInv
<1>2. QED
  BY <1>1, IInvHolds, PTL

=============================================================================
