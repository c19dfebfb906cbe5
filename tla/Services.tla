------------------------------ MODULE Services ------------------------------
(***************************************************************************)
(* The background services of the node and its shutdown: the main thread   *)
(* waits for a shutdown request, interrupts the HTTP server and the thread *)
(* group, joins the threads of the group (the scheduler's among them), and *)
(* stops the HTTP server (chratosd.cpp, init.cpp).                         *)
(* Interrupt() begins with InterruptHTTPServer: StopAccepting and          *)
(* InterruptQueue.                                                         *)
(***************************************************************************)
EXTENDS HttpServer, Scheduler

vars == <<httpVars, schedVars>>

Init == HttpInit /\ SchedInit

\* Interrupt(): threadGroup.interrupt_all()
InterruptAll ==
    /\ stopper = "threads"
    /\ stopper' = "joinall"
    /\ interrupted' = Threads
    /\ UNCHANGED <<running, queue, numThreads, freed, worker, item, accepting, event,
                   got, req, broken, taskQueue, thread, until, task, early, known>>

\* WaitForShutdown: threadGroup->join_all(), then Shutdown()
JoinAll ==
    /\ stopper = "joinall"
    /\ \A s \in Threads : thread[s] = "gone"
    /\ stopper' = "exit"
    /\ UNCHANGED <<running, queue, numThreads, freed, worker, item, accepting, event,
                   got, req, broken, schedVars>>

MainStep ==
    \/ InterruptQueue("threads") /\ UNCHANGED schedVars
    \/ InterruptAll
    \/ JoinAll
    \/ StopperStep /\ UNCHANGED schedVars

Next ==
    \/ \E r \in Requests : Receive(r) /\ UNCHANGED schedVars
    \/ EventStep /\ UNCHANGED schedVars
    \/ \E w \in Workers : WorkerStep(w) /\ UNCHANGED schedVars
    \/ StopAccepting /\ UNCHANGED schedVars
    \/ MainStep
    \/ \E t \in Tasks : ScheduleEvery(t) /\ UNCHANGED httpVars
    \/ \E s \in Threads : ServiceStep(s) /\ UNCHANGED httpVars
    \/ Tick /\ UNCHANGED httpVars

Spec == Init /\ [][Next]_vars

\* Every thread is given the processor, handlers and tasks return, time passes.
FairSpec ==
    /\ Spec
    /\ WF_vars(EventStep /\ UNCHANGED schedVars)
    /\ \A w \in Workers : WF_vars(WorkerStep(w) /\ UNCHANGED schedVars)
    /\ \A s \in Threads : WF_vars(ServiceStep(s) /\ UNCHANGED httpVars)
    /\ WF_vars(MainStep)
    /\ WF_vars(Tick /\ UNCHANGED httpVars)

\* The counters and queues of both services have their types, and each request and
\* each task is in one place at a time.
TypeOK == HttpTypeOK /\ SchedTypeOK

\* Requests and tasks are accounted for at every moment, a request being in one place
\* only; the work queue goes when no worker serves or sleeps, and a server that has
\* stopped has replied to all it took.
AllAccounted == TypeOK /\ FreedIdle /\ NoRequestLeaked

\* A shutdown that is asked for is completed: no thread waits for another that
\* waits for it, and none misses its interruption or its wake-up.  Only the use of
\* the deleted work queue by a thread that was left behind may come in between.
ShutdownEnds == stopper # "up" ~> stopper \in {"stopped", "undefined"}

=============================================================================
