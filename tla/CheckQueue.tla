----------------------------- MODULE CheckQueue -----------------------------
(***************************************************************************)
(* CCheckQueue and CCheckQueueControl (checkqueue.h): the pool of script   *)
(* verification threads.  One master at a time (ConnectBlock, under        *)
(* cs_main) creates a control, adds batches of checks, and joins the pool  *)
(* in Wait() until nothing is left; the workers run Loop() for ever.       *)
(*                                                                         *)
(* Each critical section of the queue's mutex is one step: a thread that   *)
(* enters it (first iteration, return from cond.wait, clean-up after a     *)
(* batch) leaves it by taking a batch, by going to sleep, or by returning. *)
(* Checks run outside the mutex, in a step of their own.                   *)
(*                                                                         *)
(* A check is an identity; the queue is the set of the checks in it, since *)
(* "the order of booleans doesn't matter" (checkqueue.h).  Which           *)
(* checks fail is chosen when they are added.                              *)
(*                                                                         *)
(* boost::condition_variable::wait is an interruption point: at shutdown   *)
(* threadGroup.interrupt_all() makes the wait of a sleeping thread throw.  *)
(* The exception leaves Loop() after nIdle was incremented; a worker ends, *)
(* the master's ~CCheckQueueControl calls Wait() a second time.            *)
(***************************************************************************)
EXTENDS Naturals, FiniteSets

CONSTANTS
    Workers,    \* the ThreadScriptCheck threads
    Master,     \* the thread that holds the CCheckQueueControl
    Checks,     \* identities of the checks of one block
    MayFail,    \* inputs: the checks of which some may fail (all of them, or
                \* fewer for TLC, since checks are interchangeable)
    BatchSize,  \* nBatchSize
    MaxMasterThrows \* how many threads of the group may be interrupted as masters

ASSUME WorkersAssumption == IsFiniteSet(Workers) /\ Master \notin Workers
ASSUME ChecksAssumption  == IsFiniteSet(Checks)
ASSUME BatchAssumption   == BatchSize \in Nat \ {0} /\ MaxMasterThrows \in Nat

Threads == Workers \cup {Master}

VARIABLES
    queue,        \* checks added and not yet taken by any thread
    nTodo,        \* checks added and not yet completed
    nIdle,        \* threads asleep in cond.wait, the woken ones included
    nTotal,       \* threads inside Loop()
    fAllOk,       \* the conjunction of the results so far
    pc,           \* where each thread is
    batch,        \* vChecks of each thread; nNow is its size
    fOk,          \* the local result of each thread
    control,      \* the master's CCheckQueueControl (see Control)
    round,        \* history: the checks added under the current control
    failing,      \* history: those of them whose operator() returns false
    result,       \* what the last Loop(true) returned
    fInterrupt,   \* threadGroup.interrupt_all() was called
    nThrown       \* history: waits of masters that threw thread_interrupted

vars == <<queue, nTodo, nIdle, nTotal, fAllOk, pc, batch, fOk,
          control, round, failing, result, fInterrupt, nThrown>>

\* "out": not in Loop();  "enter": called it, first iteration not begun;
\* "asleep": in cond.wait;  "woken": notified, mutex not yet reacquired;
\* "working": batch taken;  "finished": batch run, clean-up pending;
\* "gone": a worker whose wait threw
PC == {"out", "enter", "asleep", "woken", "working", "finished", "gone"}

\* "none": no control;  "adding": between constructor and Wait();
\* "wait": in Wait();  "unwind": in the destructor's Wait() after a throw
Control == {"none", "adding", "wait", "unwind"}

TypeOK ==
    /\ queue \subseteq Checks
    /\ nTodo \in Nat
    /\ nIdle \in Nat
    /\ nTotal \in Nat
    /\ fAllOk \in BOOLEAN
    /\ pc \in [Threads -> PC]
    /\ batch \in [Threads -> SUBSET Checks]
    /\ fOk \in [Threads -> BOOLEAN]
    /\ control \in Control
    /\ round \subseteq Checks
    /\ failing \subseteq round
    /\ result \in BOOLEAN
    /\ fInterrupt \in BOOLEAN
    /\ nThrown \in Nat

\* The constructor; every worker is about to call Thread().
Init ==
    /\ queue = {}
    /\ nTodo = 0
    /\ nIdle = 0
    /\ nTotal = 0
    /\ fAllOk = TRUE
    /\ pc = [t \in Threads |-> IF t = Master THEN "out" ELSE "enter"]
    /\ batch = [t \in Threads |-> {}]
    /\ fOk = [t \in Threads |-> TRUE]
    /\ control = "none"
    /\ round = {}
    /\ failing = {}
    /\ result = TRUE
    /\ fInterrupt = FALSE
    /\ nThrown = 0

-----------------------------------------------------------------------------
(* The master outside Loop()                                               *)

IsIdle == nTotal = nIdle /\ nTodo = 0 /\ fAllOk = TRUE

\* CCheckQueueControl(pqueue): its assert(isIdle) is the invariant
\* IdleAtControl below, and is not a guard here.
CreateControl ==
    /\ pc[Master] = "out" /\ control = "none"
    /\ control' = "adding"
    /\ round' = {}
    /\ failing' = {}
    /\ UNCHANGED <<queue, nTodo, nIdle, nTotal, fAllOk, pc, batch, fOk,
                   result, fInterrupt, nThrown>>

Asleep == {w \in Workers : pc[w] = "asleep"}

\* condWorker: notify_one wakes some sleeper if there is one, notify_all all.
Woken(n) ==
    IF n = 0 \/ Asleep = {} THEN {{}}
    ELSE IF n = 1 THEN {{w} : w \in Asleep}
    ELSE {Asleep}

Add(vChecks, bad) ==
    /\ pc[Master] = "out" /\ control = "adding"
    /\ vChecks \subseteq Checks \ round /\ bad \subseteq vChecks
    /\ queue' = queue \cup vChecks
    /\ nTodo' = nTodo + Cardinality(vChecks)
    /\ round' = round \cup vChecks
    /\ failing' = failing \cup bad
    /\ \E W \in Woken(Cardinality(vChecks)) :
          pc' = [t \in Threads |-> IF t \in W THEN "woken" ELSE pc[t]]
    /\ UNCHANGED <<nIdle, nTotal, fAllOk, batch, fOk, control, result,
                   fInterrupt, nThrown>>

\* CCheckQueueControl::Wait, or its destructor when the block was rejected
\* before Wait was called.
CallWait ==
    /\ pc[Master] = "out" /\ control = "adding"
    /\ control' = "wait"
    /\ pc' = [pc EXCEPT ![Master] = "enter"]
    /\ UNCHANGED <<queue, nTodo, nIdle, nTotal, fAllOk, batch, fOk, round,
                   failing, result, fInterrupt, nThrown>>

-----------------------------------------------------------------------------
(* Loop(fMaster), the part from "logically, the do loop starts here" to    *)
(* the end of the critical section, entered with the given counters and    *)
(* with npc as the threads' positions (a notified master included).        *)

MaxOf(a, b) == IF a >= b THEN a ELSE b
MinOf(a, b) == IF a <= b THEN a ELSE b

\* max(1, min(nBatchSize, queue.size() / (nTotal + nIdle + 1)))
BatchNow(total, idle) ==
    MaxOf(1, MinOf(BatchSize, Cardinality(queue) \div (total + idle + 1)))

TakeBatch(t, total, idle, ok, npc) ==
    /\ queue # {}
    /\ \E B \in SUBSET queue :
          /\ Cardinality(B) = BatchNow(total, idle)
          /\ queue' = queue \ B
          /\ batch' = [batch EXCEPT ![t] = B]
    /\ fOk' = [fOk EXCEPT ![t] = ok]
    /\ fAllOk' = ok
    /\ nTotal' = total
    /\ nIdle' = idle
    /\ pc' = [npc EXCEPT ![t] = "working"]
    /\ UNCHANGED <<control, result>>

\* fQuit is never assigned after the constructor, so only the master returns.
\* Mutant: nTodo is not consulted, checks in the workers' batches are forgotten.
EarlyReturn(t, total, idle, todo, ok, npc) ==
    /\ queue = {} /\ t = Master
    /\ nTotal' = total - 1
    /\ nIdle' = idle
    /\ result' = ok
    /\ fAllOk' = TRUE
    /\ control' = "none"
    /\ pc' = [npc EXCEPT ![t] = "out"]
    /\ batch' = [batch EXCEPT ![t] = {}]
    /\ UNCHANGED <<queue, fOk>>

MasterReturns(t, total, idle, todo, ok, npc) ==
    /\ queue = {} /\ t = Master /\ todo = 0
    /\ nTotal' = total - 1
    /\ nIdle' = idle
    /\ result' = ok
    /\ fAllOk' = TRUE
    /\ control' = "none"
    /\ pc' = [npc EXCEPT ![t] = "out"]
    /\ batch' = [batch EXCEPT ![t] = {}]
    /\ UNCHANGED <<queue, fOk>>

GoToSleep(t, total, idle, todo, ok, npc) ==
    /\ queue = {} /\ ~(t = Master /\ todo = 0)
    /\ nTotal' = total
    /\ nIdle' = idle + 1
    /\ fAllOk' = ok
    /\ pc' = [npc EXCEPT ![t] = "asleep"]
    /\ batch' = [batch EXCEPT ![t] = {}]
    /\ UNCHANGED <<queue, fOk, control, result>>

Decide(t, total, idle, todo, ok, npc) ==
    /\ nTodo' = todo
    /\ \/ TakeBatch(t, total, idle, ok, npc)
       \/ MasterReturns(t, total, idle, todo, ok, npc)
       \/ GoToSleep(t, total, idle, todo, ok, npc)
    /\ UNCHANGED <<round, failing, fInterrupt, nThrown>>

\* First iteration: nTotal++.
Enter(t) ==
    /\ pc[t] = "enter"
    /\ Decide(t, nTotal + 1, nIdle, nTodo, fAllOk, pc)

\* cond.wait returned, after a notification or spuriously: nIdle--.
WakeUp(t) ==
    /\ pc[t] \in {"asleep", "woken"}
    /\ Decide(t, nTotal, nIdle - 1, nTodo, fAllOk, pc)

\* Mutant: the last clean-up does not notify condMaster.
NotNotified(t, todo) == pc

\* condMaster.notify_one() of the worker that completed the last check
Notified(t, todo) ==
    IF t # Master /\ todo = 0 /\ pc[Master] = "asleep"
    THEN [pc EXCEPT ![Master] = "woken"] ELSE pc

\* Mutant: one unit of work is subtracted per batch, not per check.
CleanUpOne(t) ==
    /\ pc[t] = "finished"
    /\ LET todo == nTodo - 1 IN
          Decide(t, nTotal, nIdle, todo, fAllOk /\ fOk[t], Notified(t, todo))

\* "the clean-up of the previous loop run"
CleanUp(t) ==
    /\ pc[t] = "finished"
    /\ LET todo == nTodo - Cardinality(batch[t]) IN
          Decide(t, nTotal, nIdle, todo, fAllOk /\ fOk[t], Notified(t, todo))

\* BOOST_FOREACH (T& check, vChecks) if (fOk) fOk = check();
Execute(t) ==
    /\ pc[t] = "working"
    /\ fOk' = [fOk EXCEPT ![t] = fOk[t] /\ batch[t] \cap failing = {}]
    /\ pc' = [pc EXCEPT ![t] = "finished"]
    /\ UNCHANGED <<queue, nTodo, nIdle, nTotal, fAllOk, batch, control,
                   round, failing, result, fInterrupt, nThrown>>

-----------------------------------------------------------------------------
(* Shutdown                                                                *)

InterruptAll ==
    /\ ~fInterrupt
    /\ fInterrupt' = TRUE
    /\ UNCHANGED <<queue, nTodo, nIdle, nTotal, fAllOk, pc, batch, fOk,
                   control, round, failing, result, nThrown>>

\* A worker's wait throws: nIdle and nTotal keep counting it.
WorkerThrows(w) ==
    /\ fInterrupt /\ pc[w] \in {"asleep", "woken"}
    /\ pc' = [pc EXCEPT ![w] = "gone"]
    /\ UNCHANGED <<queue, nTodo, nIdle, nTotal, fAllOk, batch, fOk, control,
                   round, failing, result, fInterrupt, nThrown>>

\* The master's wait throws.  The throw consumes the request and the thread
\* ends once the control's destructor, which enters Loop() again, returns.
MasterThrows ==
    /\ fInterrupt /\ pc[Master] \in {"asleep", "woken"} /\ control = "wait"
    /\ nThrown < MaxMasterThrows
    /\ control' = "unwind"
    /\ pc' = [pc EXCEPT ![Master] = "enter"]
    /\ nThrown' = nThrown + 1
    /\ UNCHANGED <<queue, nTodo, nIdle, nTotal, fAllOk, batch, fOk, round,
                   failing, result, fInterrupt>>

-----------------------------------------------------------------------------
Loop(t) == Enter(t) \/ WakeUp(t) \/ Execute(t) \/ CleanUp(t)

Next ==
    \/ CreateControl
    \/ \E vChecks \in SUBSET Checks : \E bad \in SUBSET (vChecks \cap MayFail) : Add(vChecks, bad)
    \/ CallWait
    \/ \E t \in Threads : Loop(t)
    \/ InterruptAll
    \/ \E w \in Workers : WorkerThrows(w)
    \/ MasterThrows

Spec == Init /\ [][Next]_vars

\* A thread that is not asleep gets the mutex and the processor eventually;
\* nothing is assumed of spurious wake-ups, of interrupts, or of the caller
\* before it calls Wait().
Runs(t) == pc[t] # "asleep" /\ Loop(t)

FairSpec == Spec /\ \A t \in Threads : WF_vars(Runs(t))

-----------------------------------------------------------------------------
(* Properties                                                              *)

\* Added and not completed: still queued or in some thread's batch.
Pending == {c \in Checks : c \in queue \/ \E t \in Threads : c \in batch[t]}

\* nTodo counts exactly the checks queued or held in a batch, and no check is
\* held twice: the counter the exit test of Loop relies on never drifts from
\* the work that is really outstanding, whatever the threads' order.
TodoIsPending ==
    /\ nTodo = Cardinality(Pending)
    /\ \A t \in Threads : batch[t] \cap queue = {}
    /\ \A t, u \in Threads : t # u => batch[t] \cap batch[u] = {}

\* The assert(isIdle) of CCheckQueueControl's constructor never fails, even
\* after threads were thrown out of their wait: between two controls every
\* thread in the pool counts as idle and the result flag was reset.
IdleAtControl == control = "none" => IsIdle

\* What every critical section of the queue's mutex relies on: the counters and
\* flags are in range, nTodo counts the outstanding checks exactly, and a pool
\* between two blocks is idle, with interrupted workers or without.
QueueConsistent == TypeOK /\ TodoIsPending /\ IdleAtControl

\* Wait() returns true exactly when every check added under this control
\* succeeds: no check is skipped, none is left for the next block, and no
\* failure of an earlier block is reported.
WaitTellsTheTruth == control = "none" => (result <=> failing = {})

\* A master that sleeps has someone to wake it: a check it is waiting for is
\* in the batch of a live worker, whose clean-up notifies condMaster.
MasterNeverStranded ==
    pc[Master] = "asleep" =>
        \E w \in Workers : pc[w] \in {"working", "finished"} /\ batch[w] # {}

\* Wait() returns, even when every worker was interrupted while the block's
\* checks were queued.
WaitReturns == control \in {"wait", "unwind"} ~> control = "none"

-----------------------------------------------------------------------------
(* The inductive invariant behind the safety properties                    *)

Busy   == {t \in Threads : pc[t] \in {"working", "finished"}}
Idlers == {t \in Threads : pc[t] \in {"asleep", "woken", "gone"}}
InLoop == Idlers \cup Busy

\* nTotal and nIdle count the threads in Loop() and asleep there; a wait that
\* threw stays in both, once for the thread it threw out.
CountersExact ==
    /\ nTotal = Cardinality(InLoop) + nThrown
    /\ nIdle = Cardinality(Idlers) + nThrown

\* Only a thread that took a batch holds checks, and only of this round.
BatchesHeld ==
    /\ \A t \in Threads : batch[t] # {} <=> t \in Busy
    /\ Pending \subseteq round

\* A recorded failure is a failure of this round, and one that has been
\* cleaned up is recorded.
ResultsRecorded ==
    /\ ~fAllOk => failing # {}
    /\ \A t \in Busy : ~fOk[t] => failing # {}
    /\ \A t \in Threads : pc[t] = "finished" /\ fOk[t] => batch[t] \cap failing = {}
    /\ fAllOk /\ control # "none" => failing \subseteq Pending

\* The master is in Loop() exactly while a control waits, sleeps only on an
\* empty queue, and leaves nothing behind.
MasterProtocol ==
    /\ pc[Master] # "gone" /\ \A w \in Workers : pc[w] # "out"
    /\ control \in {"wait", "unwind"} <=> pc[Master] # "out"
    /\ pc[Master] \in {"asleep", "woken"} => queue = {}
    /\ control = "none" => Pending = {} /\ fAllOk

IInv ==
    /\ TypeOK
    /\ TodoIsPending
    /\ CountersExact
    /\ BatchesHeld
    /\ ResultsRecorded
    /\ MasterProtocol
    /\ MasterNeverStranded
    /\ WaitTellsTheTruth

=============================================================================
