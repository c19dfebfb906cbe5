----------------------------- MODULE Scheduler ------------------------------
(***************************************************************************)
(* CScheduler (scheduler.cpp): tasks with a time, run by service threads   *)
(* that wait on one condition variable.  Times are kept as what is left of *)
(* them, so that no bound on time is needed.  The node has one service     *)
(* thread (init.cpp) and stops it by interruption; stop() is called by     *)
(* tests only and is not modelled.                                         *)
(***************************************************************************)
EXTENDS Naturals, FiniteSets, Sequences

CONSTANTS
    Threads,
    Tasks,
    Delay,          \* [Tasks -> deltaSeconds of scheduleEvery]
    NoTask

ASSUME SchedulerAssumption ==
    /\ IsFiniteSet(Threads)
    /\ Delay \in [Tasks -> Nat]
    /\ NoTask \notin Tasks

VARIABLES
    taskQueue,      \* tasks, with the time left, in the order of their times
    thread,         \* [Threads -> "top", "wait", "timed", "run", "gone"]
    until,          \* time left of a timed wait
    task,           \* the task a thread runs
    early,          \* whether a task was ever run before its time
    known,          \* tasks given to scheduleEvery
    interrupted     \* threads with an interruption pending

schedVars == <<taskQueue, thread, until, task, early, known, interrupted>>

SchedInit ==
    /\ taskQueue = << >>
    /\ thread = [s \in Threads |-> "top"]
    /\ until = [s \in Threads |-> 0]
    /\ task = [s \in Threads |-> NoTask]
    /\ early = FALSE
    /\ known = {}
    /\ interrupted = {}

Queued == {taskQueue[i].task : i \in DOMAIN taskQueue}

\* multimap::insert puts e after the k tasks of the same time or an earlier one.
Insert(q, k, e) ==
    [i \in 1..(Len(q) + 1) |-> CASE i <= k -> q[i]
                                 [] i = k + 1 -> e
                                 [] OTHER -> q[i - 1]]

Goes(q, k, left) ==
    /\ \A i \in 1..k : q[i].left <= left
    /\ \A i \in (k + 1)..Len(q) : q[i].left > left

\* notify_one
Notify(th) ==
    IF \E s \in Threads : th[s] \in {"wait", "timed"}
    THEN {[th EXCEPT ![s] = "top"] : s \in {x \in Threads : th[x] \in {"wait", "timed"}}}
    ELSE {th}

\* Mutant: nobody is told of the new task.
ScheduleSilent(t, th) ==
    /\ \E k \in 0..Len(taskQueue) :
          /\ Goes(taskQueue, k, Delay[t])
          /\ taskQueue' = Insert(taskQueue, k, [task |-> t, left |-> Delay[t]])
    /\ thread' = th

\* CScheduler::schedule through scheduleFromNow; th is the state of the threads
\* up to the notification.
Schedule(t, th) ==
    /\ \E k \in 0..Len(taskQueue) :
          /\ Goes(taskQueue, k, Delay[t])
          /\ taskQueue' = Insert(taskQueue, k, [task |-> t, left |-> Delay[t]])
    /\ thread' \in Notify(th)

\* scheduleEvery, called by another thread
ScheduleEvery(t) ==
    /\ t \notin known
    /\ known' = known \cup {t}
    /\ Schedule(t, thread)
    /\ UNCHANGED <<until, task, early, interrupted>>

\* serviceQueue from the top of its loop into a wait.
EnterWait(s) ==
    /\ thread[s] = "top" /\ s \notin interrupted
    /\ \/ /\ taskQueue = << >>
          /\ thread' = [thread EXCEPT ![s] = "wait"]
          /\ UNCHANGED until
       \/ /\ taskQueue # << >>
          /\ thread' = [thread EXCEPT ![s] = "timed"]
          /\ until' = [until EXCEPT ![s] = Head(taskQueue).left]
    /\ UNCHANGED <<taskQueue, task, early, known, interrupted>>

\* Mutant: a thread that is woken takes the first task.
TimeoutAtOnce(s) ==
    /\ thread[s] = "timed"
    /\ s \notin interrupted
    /\ taskQueue # << >>
    /\ taskQueue' = Tail(taskQueue)
    /\ thread' = [thread EXCEPT ![s] = "run"]
    /\ task' = [task EXCEPT ![s] = Head(taskQueue).task]
    /\ early' = (early \/ Head(taskQueue).left > 0)
    /\ UNCHANGED <<until, known, interrupted>>

\* wait_until returns timeout: the first task is taken, unless another thread
\* has emptied the queue.
Timeout(s) ==
    /\ thread[s] = "timed" /\ until[s] = 0
    /\ s \notin interrupted
    /\ IF taskQueue = << >>
       THEN /\ thread' = [thread EXCEPT ![s] = "top"]
            /\ UNCHANGED <<taskQueue, task, early>>
       ELSE /\ taskQueue' = Tail(taskQueue)
            /\ thread' = [thread EXCEPT ![s] = "run"]
            /\ task' = [task EXCEPT ![s] = Head(taskQueue).task]
            /\ early' = (early \/ Head(taskQueue).left > 0)
    /\ UNCHANGED <<until, known, interrupted>>

\* Repeat: the task returns and is scheduled again.  One that throws instead ends
\* the program (TraceThread passes it on), which is left out.
FinishTask(s) ==
    /\ thread[s] = "run"
    /\ Schedule(task[s], [thread EXCEPT ![s] = "top"])
    /\ task' = [task EXCEPT ![s] = NoTask]
    /\ UNCHANGED <<until, early, known, interrupted>>

\* A wait throws thread_interrupted, and serviceQueue ends.
ThrowInterrupted(s) ==
    /\ s \in interrupted /\ thread[s] \in {"top", "wait", "timed"}
    /\ thread' = [thread EXCEPT ![s] = "gone"]
    /\ interrupted' = interrupted \ {s}
    /\ UNCHANGED <<taskQueue, until, task, early, known>>

Tick ==
    LET Less(n) == IF n > 0 THEN n - 1 ELSE 0
    IN  /\ taskQueue' = [i \in DOMAIN taskQueue |->
                           [taskQueue[i] EXCEPT !.left = Less(@)]]
        /\ until' = [s \in Threads |-> Less(until[s])]
        /\ UNCHANGED <<thread, task, early, known, interrupted>>

ServiceStep(s) == EnterWait(s) \/ Timeout(s) \/ FinishTask(s) \/ ThrowInterrupted(s)

\* The state has its type, the queue is sorted, and every task of scheduleEvery is in
\* it once or is run by one thread, but not both.
SchedTypeOK ==
    /\ taskQueue \in Seq([task : Tasks, left : Nat])
    /\ thread \in [Threads -> {"top", "wait", "timed", "run", "gone"}]
    /\ until \in [Threads -> Nat]
    /\ task \in [Threads -> Tasks \cup {NoTask}]
    /\ early \in BOOLEAN
    /\ known \subseteq Tasks
    /\ interrupted \subseteq Threads
    /\ \A i, j \in DOMAIN taskQueue : i < j =>
          taskQueue[i].left <= taskQueue[j].left /\ taskQueue[i].task # taskQueue[j].task
    /\ \A s \in Threads : thread[s] = "run" <=> task[s] \in Tasks
    /\ \A s, u \in Threads : task[s] = task[u] /\ task[s] # NoTask => s = u
    /\ \A s \in Threads : task[s] \notin Queued
    /\ known = Queued \cup ({task[s] : s \in Threads} \ {NoTask})

\* "Call func at/after time t": with one service thread no task runs before its
\* time, whatever is scheduled while the thread waits.
NeverEarly == Cardinality(Threads) = 1 => ~early

\* Every task of scheduleEvery is run again and again until the threads are
\* interrupted.
RunsAgain ==
    \A t \in Tasks : t \in known ~> \E s \in Threads : task[s] = t \/ thread[s] = "gone"

=============================================================================
