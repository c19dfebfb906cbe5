----------------------------- MODULE HttpServer -----------------------------
(***************************************************************************)
(* The HTTP server of the RPC and REST interfaces (httpserver.cpp): the    *)
(* event thread takes requests and sends replies, a bounded WorkQueue      *)
(* hands the requests to worker threads, and the main thread stops all of  *)
(* it.  A critical section of WorkQueue::cs is one step.  The condition    *)
(* variable is shared: workers wait on it for work, the main thread for    *)
(* the workers to leave.  libevent is modelled from how it is used.        *)
(***************************************************************************)
EXTENDS Naturals, FiniteSets, Sequences

CONSTANTS
    Workers,
    Requests,
    MaxDepth,       \* -rpcworkqueue
    None

ASSUME HttpAssumption ==
    /\ IsFiniteSet(Workers)
    /\ MaxDepth \in Nat \ {0}
    /\ None \notin Requests

VARIABLES
    running, queue, numThreads, \* WorkQueue
    freed,          \* the WorkQueue is deleted
    worker,         \* [Workers -> "new", "top", "wait", "serve", "leave", "gone"]
    item,           \* what each worker serves
    accepting,      \* sockets listen and the callback is http_request_cb
    event,          \* event thread: "loop", "dispatch", "gone"
    got,            \* the request http_request_cb is at
    req,            \* [Requests -> "none", "dispatch", "queued", "serve", "posted", "sent"]
    broken,         \* event_base_loopbreak was called
    stopper         \* main thread, see the actions of it; "undefined" once a thread
                    \* has used the deleted queue

httpVars == <<running, queue, numThreads, freed, worker, item, accepting, event,
              got, req, broken, stopper>>

HttpInit ==
    /\ running = TRUE /\ queue = << >> /\ numThreads = 0 /\ freed = FALSE
    /\ worker = [w \in Workers |-> "new"]
    /\ item = [w \in Workers |-> None]
    /\ accepting = TRUE
    /\ event = "loop" /\ got = None
    /\ req = [r \in Requests |-> "none"]
    /\ broken = FALSE
    /\ stopper = "up"

-----------------------------------------------------------------------------
\* The condition variable.  Whoever is woken tests its condition again.

\* notify_one
WakeOne ==
    \/ \E w \in Workers : /\ worker[w] = "wait"
                          /\ worker' = [worker EXCEPT ![w] = "top"]
                          /\ UNCHANGED stopper
    \/ stopper = "waiting" /\ stopper' = "exit" /\ UNCHANGED worker
    \/ /\ stopper # "waiting" /\ \A w \in Workers : worker[w] # "wait"
       /\ UNCHANGED <<worker, stopper>>

-----------------------------------------------------------------------------
\* Event thread.

\* http_reject_request_cb; or http_request_cb up to the dispatch, which answers
\* some requests itself (address, method, unknown path).
Receive(r) ==
    /\ event = "loop" /\ ~broken
    /\ req[r] = "none"
    /\ \/ /\ ~accepting
          /\ req' = [req EXCEPT ![r] = "sent"]
          /\ UNCHANGED <<event, got>>
       \/ /\ accepting
          /\ req' = [req EXCEPT ![r] = "posted"]
          /\ UNCHANGED <<event, got>>
       \/ /\ accepting
          /\ req' = [req EXCEPT ![r] = "dispatch"]
          /\ event' = "dispatch" /\ got' = r
    /\ UNCHANGED <<running, queue, numThreads, freed, worker, item, accepting, broken, stopper>>

\* Mutant: nobody is told of the new item.
EnqueueSilent ==
    /\ event = "dispatch" /\ ~freed
    /\ event' = "loop" /\ got' = None
    /\ queue' = IF Len(queue) >= MaxDepth THEN queue ELSE Append(queue, got)
    /\ req' = [req EXCEPT ![got] = IF Len(queue) >= MaxDepth THEN "posted" ELSE "queued"]
    /\ UNCHANGED <<worker, stopper, running, numThreads, freed, item, accepting, broken>>

\* WorkQueue::Enqueue, and the answer of http_request_cb when the queue is full.
\* It does not look at running.
Enqueue ==
    /\ event = "dispatch" /\ ~freed
    /\ event' = "loop" /\ got' = None
    /\ \/ /\ Len(queue) >= MaxDepth
          /\ req' = [req EXCEPT ![got] = "posted"]
          /\ UNCHANGED <<queue, worker, stopper>>
       \/ /\ Len(queue) < MaxDepth
          /\ queue' = Append(queue, got)
          /\ req' = [req EXCEPT ![got] = "queued"]
          /\ WakeOne
    /\ UNCHANGED <<running, numThreads, freed, item, accepting, broken>>

\* The event that WriteReply has posted is run.
SendReply(r) ==
    /\ event = "loop" /\ ~broken
    /\ req[r] = "posted"
    /\ req' = [req EXCEPT ![r] = "sent"]
    /\ UNCHANGED <<running, queue, numThreads, freed, worker, item, accepting, event,
                   got, broken, stopper>>

\* event_base_dispatch returns: nothing listens and no request is open, or
\* event_base_loopbreak was called.
LoopExit ==
    /\ event = "loop"
    /\ broken \/ (~accepting /\ \A r \in Requests : req[r] \in {"none", "sent"})
    /\ event' = "gone"
    /\ UNCHANGED <<running, queue, numThreads, freed, worker, item, accepting, got,
                   req, broken, stopper>>

-----------------------------------------------------------------------------
\* Workers.

\* WorkQueue::Run: ThreadCounter
Start(w) ==
    /\ worker[w] = "new" /\ ~freed
    /\ worker' = [worker EXCEPT ![w] = "top"]
    /\ numThreads' = numThreads + 1
    /\ UNCHANGED <<running, queue, freed, item, accepting, event, got, req, broken, stopper>>

\* WorkQueue::Run: the loop, up to a wait, an item or the end.  The test of running
\* outside the lock decides nothing that the one inside does not.
Take(w) ==
    /\ worker[w] = "top" /\ ~freed
    /\ \/ /\ ~running
          /\ worker' = [worker EXCEPT ![w] = "leave"]
          /\ UNCHANGED <<queue, item, req>>
       \/ /\ running /\ queue = << >>
          /\ worker' = [worker EXCEPT ![w] = "wait"]
          /\ UNCHANGED <<queue, item, req>>
       \/ /\ running /\ queue # << >>
          /\ worker' = [worker EXCEPT ![w] = "serve"]
          /\ item' = [item EXCEPT ![w] = Head(queue)]
          /\ req' = [req EXCEPT ![Head(queue)] = "serve"]
          /\ queue' = Tail(queue)
    /\ UNCHANGED <<running, numThreads, freed, accepting, event, got, broken, stopper>>

\* The handler, which replies; if it does not, ~HTTPRequest does.
Serve(w) ==
    /\ worker[w] = "serve"
    /\ worker' = [worker EXCEPT ![w] = "top"]
    /\ item' = [item EXCEPT ![w] = None]
    /\ req' = [req EXCEPT ![item[w]] = "posted"]
    /\ UNCHANGED <<running, queue, numThreads, freed, accepting, event, got, broken, stopper>>

\* Mutant: the last worker tells nobody that it leaves.
LeaveSilent(w) ==
    /\ worker[w] = "leave" /\ ~freed
    /\ numThreads' = numThreads - 1
    /\ worker' = [worker EXCEPT ![w] = "gone"]
    /\ UNCHANGED <<running, queue, freed, item, accepting, event, got, req, broken, stopper>>

\* ~ThreadCounter
Leave(w) ==
    /\ worker[w] = "leave" /\ ~freed
    /\ numThreads' = numThreads - 1
    /\ worker' = [v \in Workers |-> CASE v = w -> "gone"
                                      [] worker[v] = "wait" -> "top"
                                      [] OTHER -> worker[v]]
    /\ stopper' = IF stopper = "waiting" THEN "exit" ELSE stopper
    /\ UNCHANGED <<running, queue, freed, item, accepting, event, got, req, broken>>

-----------------------------------------------------------------------------
\* Main thread.

\* InterruptHTTPServer up to workQueue->Interrupt()
StopAccepting ==
    /\ stopper = "up"
    /\ stopper' = "interrupt"
    /\ accepting' = FALSE
    /\ UNCHANGED <<running, queue, numThreads, freed, worker, item, event, got, req, broken>>

\* WorkQueue::Interrupt; next is where the main thread goes on
InterruptQueue(next) ==
    /\ stopper = "interrupt"
    /\ running' = FALSE
    /\ worker' = [w \in Workers |-> IF worker[w] = "wait" THEN "top" ELSE worker[w]]
    /\ stopper' = next
    /\ UNCHANGED <<queue, numThreads, freed, item, accepting, event, got, req, broken>>

\* WorkQueue::WaitExit, which knows only of the workers that counted themselves
WaitExit ==
    /\ stopper = "exit"
    /\ stopper' = IF numThreads > 0 THEN "waiting" ELSE "delete"
    /\ UNCHANGED <<running, queue, numThreads, freed, worker, item, accepting, event,
                   got, req, broken>>

\* Mutant: what is left in the queue is dropped.
DeleteQueueDrop ==
    /\ stopper = "delete"
    /\ freed' = TRUE /\ queue' = << >>
    /\ stopper' = "join"
    /\ UNCHANGED <<req, running, numThreads, worker, item, accepting, event, got, broken>>

\* delete workQueue: ~HTTPRequest answers what is left in the queue.  Nothing asks
\* whether a worker has counted itself since, or where the event thread is.
DeleteQueue ==
    /\ stopper = "delete"
    /\ freed' = TRUE /\ queue' = << >>
    /\ req' = [r \in Requests |-> IF req[r] = "queued" THEN "posted" ELSE req[r]]
    /\ stopper' = "join"
    /\ UNCHANGED <<running, numThreads, worker, item, accepting, event, got, broken>>

\* try_join_for: the event thread has ended, or two seconds are over
JoinEvent ==
    /\ stopper = "join"
    /\ \/ event = "gone" /\ stopper' = "stopped" /\ UNCHANGED broken
       \/ event # "gone" /\ ~broken /\ broken' = TRUE /\ UNCHANGED stopper
    /\ UNCHANGED <<running, queue, numThreads, freed, worker, item, accepting, event,
                   got, req>>

-----------------------------------------------------------------------------
\* A thread that is left behind comes to the deleted queue: the event thread in
\* http_request_cb, or a worker that counted itself too late for WaitExit, or is
\* still to.  What the program does then is undefined.
UseDeleted(comes) ==
    /\ comes /\ freed /\ stopper # "undefined"
    /\ stopper' = "undefined"
    /\ UNCHANGED <<running, queue, numThreads, freed, worker, item, accepting, event,
                   got, req, broken>>

EventStep ==
    \/ Enqueue \/ LoopExit \/ UseDeleted(event = "dispatch")
    \/ \E r \in Requests : SendReply(r)
WorkerStep(w) ==
    \/ Start(w) \/ Take(w) \/ Serve(w) \/ Leave(w)
    \/ UseDeleted(worker[w] \in {"new", "top", "leave"})
StopperStep == WaitExit \/ DeleteQueue \/ JoinEvent

Running == {w \in Workers : worker[w] \notin {"new", "gone"}}

\* The work queue's counters and items have their types; numThreads counts the
\* workers between ThreadCounter and ~ThreadCounter, and each request is in
\* the one place that its state says: at the event thread, in the queue, or at
\* a worker.
HttpTypeOK ==
    /\ running \in BOOLEAN /\ freed \in BOOLEAN /\ accepting \in BOOLEAN /\ broken \in BOOLEAN
    /\ queue \in Seq(Requests) /\ Len(queue) <= MaxDepth
    /\ worker \in [Workers -> {"new", "top", "wait", "serve", "leave", "gone"}]
    /\ numThreads = Cardinality(Running)
    /\ item \in [Workers -> Requests \cup {None}]
    /\ event \in {"loop", "dispatch", "gone"}
    /\ got \in Requests \cup {None}
    /\ req \in [Requests -> {"none", "dispatch", "queued", "serve", "posted", "sent"}]
    /\ stopper \in {"up", "interrupt", "threads", "joinall", "exit", "waiting", "delete",
                   "join", "stopped", "undefined"}
    /\ event = "dispatch" <=> got # None
    /\ \A w \in Workers : worker[w] = "serve" <=> item[w] # None
    /\ \A i, j \in DOMAIN queue : queue[i] = queue[j] => i = j
    /\ \A v, w \in Workers : item[v] = item[w] /\ item[v] # None => v = w
    /\ \A r \in Requests :
          /\ req[r] = "dispatch" <=> got = r
          /\ req[r] = "queued" <=> \E i \in DOMAIN queue : queue[i] = r
          /\ req[r] = "serve" <=> \E w \in Workers : item[w] = r

\* When the queue is deleted no worker serves a request, after which it would come
\* back to the queue, and none sleeps on the condition variable that goes with it:
\* Interrupt and WaitExit end all that.  The precondition of ~WorkQueue, that all
\* workers have stopped (httpserver.cpp:102), says more and does not hold: see
\* UseDeleted.
FreedIdle ==
    freed => \A w \in Workers : worker[w] \notin {"wait", "serve"}

\* When the server has stopped, a reply has been written for every request it
\* took, the ones that no worker came to among them: none is leaked, whenever it
\* was queued (~HTTPRequest).
NoRequestLeaked ==
    stopper = "stopped" => \A r \in Requests : req[r] \in {"none", "posted", "sent"}

\* A request given to the queue is answered, unless the event loop is broken off or
\* the deleted queue is used.
RequestAnswered ==
    \A r \in Requests :
        req[r] = "queued" ~> req[r] = "sent" \/ broken \/ stopper = "undefined"

=============================================================================
