--------------------------- MODULE ServicesProofs ---------------------------
(***************************************************************************)
(* Proofs about Services, for every finite set of workers and service      *)
(* threads, any requests and tasks, every depth of the queue and every     *)
(* period: each request is in one place and is answered, the work queue is *)
(* deleted when no worker serves or sleeps, and a task never runs early.   *)
(***************************************************************************)
EXTENDS Services, FiniteSetTheorems, SequenceTheorems, TLAPS

\* Where the stop sequence of the main thread has got to, and what that says of
\* the queue, the workers and the event thread.
StopOrder ==
    /\ stopper # "up" => ~accepting
    /\ stopper \notin {"up", "interrupt"} => ~running
    /\ freed <=> stopper \in {"join", "stopped", "undefined"}
    /\ freed => queue = << >>
    /\ stopper = "stopped" => event = "gone"
    /\ stopper \in {"delete", "join", "stopped", "undefined"} =>
          \A w \in Workers : worker[w] # "serve"

\* A worker that counts itself after WaitExit has looked only finds out that it
\* has to leave.
NobodyAsleep ==
    stopper \in {"delete", "join", "stopped", "undefined"} =>
        \A w \in Workers : worker[w] # "wait"

HttpInv == HttpTypeOK /\ StopOrder /\ NobodyAsleep

\* With one service thread: while it waits for a time, the first task of the queue
\* is due then or before.
FirstIsDue ==
    (\A s, u \in Threads : s = u) =>
        /\ ~early
        /\ \A s \in Threads : thread[s] = "timed" =>
              taskQueue # << >> /\ taskQueue[1].left <= until[s]

SchedInv == SchedTypeOK /\ FirstIsDue

IInv == HttpInv /\ SchedInv

-----------------------------------------------------------------------------
(* The HTTP server.                                                        *)

\* The initial state of the server satisfies its invariant.
LEMMA HttpInitInv == HttpInit => HttpInv
<1> SUFFICES ASSUME HttpInit PROVE HttpInv
  OBVIOUS
<1> USE HttpAssumption DEF HttpInit
<1>1. Running = {}
  BY DEF Running
<1>2. numThreads = Cardinality(Running)
  BY <1>1, FS_EmptySet
<1>3. queue \in Seq(Requests) /\ Len(queue) = 0 /\ DOMAIN queue = {}
  OBVIOUS
<1>4. \A r \in Requests : /\ req[r] = "dispatch" <=> got = r
                          /\ req[r] = "queued" <=> \E i \in DOMAIN queue : queue[i] = r
                          /\ req[r] = "serve" <=> \E w \in Workers : item[w] = r
  BY <1>3
<1>b. running \in BOOLEAN /\ freed \in BOOLEAN /\ accepting \in BOOLEAN /\ broken \in BOOLEAN
  OBVIOUS
<1>w. /\ worker \in [Workers -> {"new", "top", "wait", "serve", "leave", "gone"}]
      /\ item \in [Workers -> Requests \cup {None}]
      /\ \A w \in Workers : worker[w] = "new" /\ item[w] = None
  OBVIOUS
<1>r. req \in [Requests -> {"none", "dispatch", "queued", "serve", "posted", "sent"}]
  OBVIOUS
<1>l. Len(queue) <= MaxDepth
  BY <1>3
<1> HIDE DEF HttpInit
<1>s. event = "loop" /\ got = None /\ stopper = "up"
  BY DEF HttpInit
<1>t. HttpTypeOK
  BY <1>2, <1>3, <1>4, <1>b, <1>w, <1>r, <1>l, <1>s DEF HttpTypeOK
<1> USE DEF HttpInit
<1>5. StopOrder /\ NobodyAsleep
  BY DEF StopOrder, NobodyAsleep
<1> QED BY <1>t, <1>5 DEF HttpInv

\* A request arrives: it is answered at once or is at the event thread.
LEMMA ReceiveInv == ASSUME HttpInv, NEW r \in Requests, Receive(r) PROVE HttpInv'
<1> USE HttpAssumption
<1>1. Running' = Running
  BY DEF Receive, Running
<1>2. HttpTypeOK'
  BY <1>1 DEF Receive, HttpInv, HttpTypeOK
<1>3. StopOrder' /\ NobodyAsleep'
  BY DEF Receive, HttpInv, HttpTypeOK, StopOrder, NobodyAsleep
<1> QED BY <1>2, <1>3 DEF HttpInv

\* Waking a waiter changes no count, and ends no wait that is not repeated.
LEMMA WakeOneProps ==
  ASSUME HttpTypeOK, WakeOne
  PROVE  /\ worker' \in [Workers -> {"new", "top", "wait", "serve", "leave", "gone"}]
         /\ \A w \in Workers : worker'[w] = worker[w] \/ (worker[w] = "wait" /\ worker'[w] = "top")
         /\ stopper' = stopper \/ (stopper = "waiting" /\ stopper' = "exit")
  BY DEF HttpTypeOK, WakeOne

\* The event thread hands its request to the queue, or refuses it.
LEMMA EnqueueInv == ASSUME HttpInv, Enqueue PROVE HttpInv'
<1> USE HttpAssumption
<1>0. HttpTypeOK /\ StopOrder /\ NobodyAsleep
  BY DEF HttpInv
<1>g. got \in Requests /\ req[got] = "dispatch" /\ Len(queue) \in Nat /\ DOMAIN queue = 1..Len(queue)
  BY <1>0, LenProperties DEF Enqueue, HttpTypeOK
<1>1. /\ worker' \in [Workers -> {"new", "top", "wait", "serve", "leave", "gone"}]
      /\ \A w \in Workers : worker'[w] = worker[w] \/ (worker[w] = "wait" /\ worker'[w] = "top")
      /\ stopper' = stopper \/ (stopper = "waiting" /\ stopper' = "exit")
  <2>1. CASE Len(queue) >= MaxDepth
    BY <2>1, <1>0, <1>g DEF Enqueue, HttpTypeOK
  <2>2. CASE Len(queue) < MaxDepth
    BY <2>2, <1>0, <1>g, WakeOneProps DEF Enqueue
  <2> QED BY <2>1, <2>2, <1>g
<1>2. Running' = Running /\ numThreads' = Cardinality(Running')
  <2>1. Running' = Running
    BY <1>1, <1>0 DEF Running
  <2> QED BY <2>1, <1>0 DEF Enqueue, HttpTypeOK
<1>3. /\ queue' \in Seq(Requests) /\ Len(queue') <= MaxDepth
      /\ \A i, j \in DOMAIN queue' : queue'[i] = queue'[j] => i = j
      /\ \A r \in Requests : (\E i \in DOMAIN queue' : queue'[i] = r) <=> req'[r] = "queued"
      /\ req' \in [Requests -> {"none", "dispatch", "queued", "serve", "posted", "sent"}]
      /\ \A r \in Requests : r # got => req'[r] = req[r]
      /\ req'[got] \in {"posted", "queued"}
  <2>1. CASE Len(queue) >= MaxDepth
    <3>1. queue' = queue /\ req' = [req EXCEPT ![got] = "posted"]
      BY <2>1, <1>g DEF Enqueue
    <3> QED BY <3>1, <1>0, <1>g DEF HttpTypeOK
  <2>2. CASE Len(queue) < MaxDepth
    <3>1. queue' = Append(queue, got) /\ req' = [req EXCEPT ![got] = "queued"]
      BY <2>2, <1>g DEF Enqueue
    <3>2. /\ queue' \in Seq(Requests) /\ Len(queue') = Len(queue) + 1
          /\ DOMAIN queue' = 1..(Len(queue) + 1)
          /\ \A i \in 1..Len(queue) : queue'[i] = queue[i]
          /\ queue'[Len(queue) + 1] = got
      BY <3>1, <1>0, <1>g, AppendProperties, LenProperties DEF HttpTypeOK
    <3>3. \A i \in 1..Len(queue) : queue[i] \in Requests /\ req[queue[i]] = "queued" /\ queue[i] # got
      BY <1>0, <1>g DEF HttpTypeOK
    <3>4. /\ \A r \in Requests : r # got => req'[r] = req[r]
          /\ req'[got] = "queued"
          /\ req' \in [Requests -> {"none", "dispatch", "queued", "serve", "posted", "sent"}]
      BY <3>1, <1>0, <1>g DEF HttpTypeOK
    <3>5. \A i, j \in DOMAIN queue' : queue'[i] = queue'[j] => i = j
      BY <3>2, <3>3, <1>0, <1>g DEF HttpTypeOK
    <3>6. \A r \in Requests : (\E i \in DOMAIN queue' : queue'[i] = r) <=> req'[r] = "queued"
      <4> TAKE r \in Requests
      <4>1. CASE r = got
        BY <4>1, <3>2, <3>4, <1>g
      <4>2. CASE r # got
        <5>1. req'[r] = req[r]
          BY <4>2, <3>4
        <5>2. (\E i \in DOMAIN queue' : queue'[i] = r) <=> \E i \in DOMAIN queue : queue[i] = r
          BY <4>2, <3>2, <1>g
        <5> QED BY <5>1, <5>2, <1>0 DEF HttpTypeOK
      <4> QED BY <4>1, <4>2
    <3> QED BY <2>2, <3>2, <3>4, <3>5, <3>6, <1>g
  <2> QED BY <2>1, <2>2, <1>g
<1>4. HttpTypeOK'
  <2>1. item' = item /\ got' = None /\ event' = "loop" /\ running' = running
        /\ freed' = freed /\ accepting' = accepting /\ broken' = broken
    BY DEF Enqueue
  <2>2. \A w \in Workers : worker'[w] = "serve" <=> item'[w] # None
    BY <2>1, <1>0, <1>1 DEF HttpTypeOK
  <2>3. \A r \in Requests : /\ req'[r] = "dispatch" <=> got' = r
                            /\ req'[r] = "serve" <=> \E w \in Workers : item'[w] = r
    BY <2>1, <1>0, <1>3, <1>g DEF HttpTypeOK
  <2> QED BY <1>0, <1>1, <1>2, <1>3, <2>1, <2>2, <2>3 DEF HttpTypeOK
<1>5. StopOrder' /\ NobodyAsleep'
  BY <1>0, <1>1 DEF Enqueue, HttpTypeOK, StopOrder, NobodyAsleep
<1> QED BY <1>4, <1>5 DEF HttpInv

\* The event that carries a reply is run.
LEMMA SendReplyInv == ASSUME HttpInv, NEW r \in Requests, SendReply(r) PROVE HttpInv'
<1>1. Running' = Running
  BY DEF SendReply, Running
<1>2. HttpTypeOK'
  BY <1>1 DEF SendReply, HttpInv, HttpTypeOK
<1>3. StopOrder' /\ NobodyAsleep'
  BY DEF SendReply, HttpInv, HttpTypeOK, StopOrder, NobodyAsleep
<1> QED BY <1>2, <1>3 DEF HttpInv

\* The event loop ends.
LEMMA LoopExitInv == ASSUME HttpInv, LoopExit PROVE HttpInv'
<1>1. Running' = Running
  BY DEF LoopExit, Running
<1>2. HttpTypeOK'
  BY <1>1 DEF LoopExit, HttpInv, HttpTypeOK
<1>3. StopOrder' /\ NobodyAsleep'
  BY DEF LoopExit, HttpInv, HttpTypeOK, StopOrder, NobodyAsleep
<1> QED BY <1>2, <1>3 DEF HttpInv

\* A worker counts itself.
LEMMA StartInv == ASSUME HttpInv, NEW w \in Workers, Start(w) PROVE HttpInv'
<1> USE HttpAssumption
<1>0. HttpTypeOK /\ StopOrder /\ NobodyAsleep
  BY DEF HttpInv
<1>1. Running' = Running \cup {w} /\ w \notin Running
  BY <1>0 DEF Start, Running, HttpTypeOK
<1>2. IsFiniteSet(Running)
  BY FS_Subset DEF Running
<1>3. numThreads' = Cardinality(Running')
  BY <1>0, <1>1, <1>2, FS_AddElement DEF Start, HttpTypeOK
<1>4. HttpTypeOK'
  BY <1>0, <1>3 DEF Start, HttpTypeOK
<1>5. StopOrder' /\ NobodyAsleep'
  BY <1>0 DEF Start, HttpTypeOK, StopOrder, NobodyAsleep
<1> QED BY <1>4, <1>5 DEF HttpInv

\* A worker goes to wait, takes the first item, or decides to leave.
LEMMA TakeInv == ASSUME HttpInv, NEW w \in Workers, Take(w) PROVE HttpInv'
<1> USE HttpAssumption
<1>0. HttpTypeOK /\ StopOrder /\ NobodyAsleep
  BY DEF HttpInv
<1>1. Running' = Running
  BY <1>0 DEF Take, Running, HttpTypeOK
<1>2. CASE ~running
  <2>1. worker' = [worker EXCEPT ![w] = "leave"] /\ UNCHANGED <<queue, item, req>>
    BY <1>2 DEF Take
  <2> QED BY <2>1, <1>0, <1>1 DEF Take, HttpInv, HttpTypeOK, StopOrder, NobodyAsleep
<1>3. CASE running /\ queue = << >>
  <2>1. worker' = [worker EXCEPT ![w] = "wait"] /\ UNCHANGED <<queue, item, req>>
    BY <1>3 DEF Take
  <2> QED BY <2>1, <1>0, <1>1 DEF Take, HttpInv, HttpTypeOK, StopOrder, NobodyAsleep
<1>4. CASE running /\ queue # << >>
  <2> DEFINE r0 == Head(queue)
  <2>1. /\ worker[w] = "top" /\ ~freed
        /\ worker' = [worker EXCEPT ![w] = "serve"]
        /\ item' = [item EXCEPT ![w] = r0]
        /\ req' = [req EXCEPT ![r0] = "serve"]
        /\ queue' = Tail(queue)
        /\ UNCHANGED <<running, numThreads, freed, accepting, event, got, broken, stopper>>
    BY <1>4 DEF Take
  <2>2. /\ r0 \in Requests /\ Len(queue) \in Nat /\ Len(queue) > 0
        /\ queue' \in Seq(Requests) /\ Len(queue') = Len(queue) - 1
        /\ DOMAIN queue = 1..Len(queue) /\ DOMAIN queue' = 1..(Len(queue) - 1)
        /\ r0 = queue[1]
        /\ \A i \in 1..(Len(queue) - 1) : queue'[i] = queue[i + 1]
    BY <1>4, <2>1, <1>0, HeadTailProperties, LenProperties DEF HttpTypeOK
  <2> HIDE DEF r0
  <2>q. /\ \A i, j \in 1..Len(queue) : queue[i] = queue[j] => i = j
        /\ \A r \in Requests : req[r] = "queued" <=> \E i \in 1..Len(queue) : queue[i] = r
        /\ \A r \in Requests : req[r] = "serve" <=> \E v \in Workers : item[v] = r
    BY <2>2, <1>0 DEF HttpTypeOK
  <2>3. /\ req[r0] = "queued"
        /\ \A i \in 1..(Len(queue) - 1) : queue'[i] # r0
        /\ \A v \in Workers : item[v] # r0
    <3>1. req[r0] = "queued"
      BY <2>2, <2>q
    <3>2. ASSUME NEW i \in 1..(Len(queue) - 1) PROVE queue'[i] # r0
      <4>1. i + 1 \in 1..Len(queue) /\ 1 \in 1..Len(queue) /\ i + 1 # 1
        BY <2>2
      <4> QED BY <4>1, <2>2, <2>q
    <3>3. \A v \in Workers : item[v] # r0
      BY <3>1, <2>2, <2>q
    <3> QED BY <3>1, <3>2, <3>3
  <2>4. \A i, j \in DOMAIN queue' : queue'[i] = queue'[j] => i = j
    <3> SUFFICES ASSUME NEW i \in 1..(Len(queue) - 1), NEW j \in 1..(Len(queue) - 1),
                        queue'[i] = queue'[j]
                 PROVE  i = j
      BY <2>2
    <3>1. i + 1 \in 1..Len(queue) /\ j + 1 \in 1..Len(queue)
      BY <2>2
    <3>2. i + 1 = j + 1
      BY <3>1, <2>2, <2>q
    <3> QED BY <3>2
  <2>5. \A r \in Requests : (\E i \in DOMAIN queue' : queue'[i] = r)
                             <=> r # r0 /\ \E i \in DOMAIN queue : queue[i] = r
    <3> TAKE r \in Requests
    <3>1. ASSUME NEW i \in DOMAIN queue' PROVE i + 1 \in DOMAIN queue /\ queue'[i] = queue[i + 1]
      BY <2>2
    <3>2. ASSUME NEW i \in DOMAIN queue, queue[i] # r0
          PROVE  i - 1 \in DOMAIN queue' /\ queue'[i - 1] = queue[i]
      BY <3>2, <2>2
    <3> QED BY <3>1, <3>2, <2>2, <2>3
  <2>6. item' \in [Workers -> Requests \cup {None}] /\ item[w] = None
    BY <2>1, <2>2, <1>0 DEF HttpTypeOK
  <2>7. \A r \in Requests : (\E v \in Workers : item'[v] = r) <=> r = r0 \/ \E v \in Workers : item[v] = r
    BY <2>1, <2>6, <1>0 DEF HttpTypeOK
  <2>8. \A u, v \in Workers : item'[u] = item'[v] /\ item'[u] # None => u = v
    BY <2>1, <2>3, <1>0 DEF HttpTypeOK
  <2>9. /\ req' \in [Requests -> {"none", "dispatch", "queued", "serve", "posted", "sent"}]
        /\ req'[r0] = "serve" /\ \A r \in Requests : r # r0 => req'[r] = req[r]
    BY <2>1, <2>2, <1>0 DEF HttpTypeOK
  <2>10. \A r \in Requests : /\ req'[r] = "dispatch" <=> got' = r
                             /\ req'[r] = "queued" <=> \E i \in DOMAIN queue' : queue'[i] = r
                             /\ req'[r] = "serve" <=> \E v \in Workers : item'[v] = r
    BY <2>1, <2>2, <2>3, <2>5, <2>7, <2>9, <1>0 DEF HttpTypeOK
  <2>11. /\ worker' \in [Workers -> {"new", "top", "wait", "serve", "leave", "gone"}]
         /\ \A v \in Workers : worker'[v] = "serve" <=> item'[v] # None
    BY <2>1, <2>2, <1>0 DEF HttpTypeOK
  <2>12. numThreads' = Cardinality(Running')
    BY <2>1, <1>0, <1>1 DEF HttpTypeOK
  <2>13. HttpTypeOK'
    BY <2>1, <2>2, <2>4, <2>6, <2>8, <2>9, <2>10, <2>11, <2>12, <1>0 DEF HttpTypeOK
  <2>14. StopOrder' /\ NobodyAsleep'
    BY <2>1, <1>0, <1>4 DEF HttpTypeOK, StopOrder, NobodyAsleep
  <2> QED BY <2>13, <2>14 DEF HttpInv
<1> QED BY <1>2, <1>3, <1>4 DEF Take

\* A worker replies.
LEMMA ServeInv == ASSUME HttpInv, NEW w \in Workers, Serve(w) PROVE HttpInv'
<1> USE HttpAssumption
<1>0. HttpTypeOK /\ StopOrder /\ NobodyAsleep
  BY DEF HttpInv
<1>1. Running' = Running
  BY <1>0 DEF Serve, Running, HttpTypeOK
<1>2. item[w] \in Requests /\ req[item[w]] = "serve"
  BY <1>0 DEF Serve, HttpTypeOK
<1>3. HttpTypeOK'
  BY <1>0, <1>1, <1>2 DEF Serve, HttpTypeOK
<1>4. StopOrder' /\ NobodyAsleep'
  BY <1>0 DEF Serve, HttpTypeOK, StopOrder, NobodyAsleep
<1> QED BY <1>3, <1>4 DEF HttpInv

\* A worker leaves and wakes everybody who waits.
LEMMA LeaveInv == ASSUME HttpInv, NEW w \in Workers, Leave(w) PROVE HttpInv'
<1> USE HttpAssumption
<1>0. HttpTypeOK /\ StopOrder /\ NobodyAsleep
  BY DEF HttpInv
<1>1. /\ worker' \in [Workers -> {"new", "top", "wait", "serve", "leave", "gone"}]
      /\ worker'[w] = "gone" /\ worker[w] = "leave"
      /\ \A v \in Workers \ {w} : worker'[v] = IF worker[v] = "wait" THEN "top" ELSE worker[v]
  BY <1>0 DEF Leave, HttpTypeOK
<1>2. Running' = Running \ {w} /\ w \in Running
  BY <1>1, <1>0 DEF Running
<1>3. IsFiniteSet(Running)
  BY FS_Subset DEF Running
<1>4. numThreads' = Cardinality(Running')
  BY <1>0, <1>2, <1>3, FS_RemoveElement DEF Leave, HttpTypeOK
<1>5. stopper' = stopper \/ (stopper = "waiting" /\ stopper' = "exit")
  BY DEF Leave
<1>6. \A v \in Workers : worker'[v] = "serve" <=> worker[v] = "serve"
  BY <1>1
<1>7. HttpTypeOK'
  BY <1>0, <1>1, <1>4, <1>5, <1>6 DEF Leave, HttpTypeOK
<1>8. StopOrder' /\ NobodyAsleep'
  BY <1>0, <1>1, <1>5, <1>6, SMTT(30) DEF Leave, HttpTypeOK, StopOrder, NobodyAsleep
<1> QED BY <1>7, <1>8 DEF HttpInv

\* The main thread stops the acceptance of requests.
LEMMA StopAcceptingInv == ASSUME HttpInv, StopAccepting PROVE HttpInv'
<1>1. Running' = Running
  BY DEF StopAccepting, Running
<1>2. HttpTypeOK'
  <2>1. stopper' = "interrupt" /\ accepting' = FALSE
        /\ UNCHANGED <<running, queue, numThreads, freed, worker, item, event, got, req, broken>>
    BY DEF StopAccepting
  <2>2. HttpTypeOK
    BY DEF HttpInv
  <2>4. /\ running' \in BOOLEAN /\ freed' \in BOOLEAN /\ accepting' \in BOOLEAN
        /\ broken' \in BOOLEAN
        /\ queue' \in Seq(Requests) /\ Len(queue') <= MaxDepth
        /\ worker' \in [Workers -> {"new", "top", "wait", "serve", "leave", "gone"}]
        /\ numThreads' = Cardinality(Running')
        /\ item' \in [Workers -> Requests \cup {None}]
        /\ event' \in {"loop", "dispatch", "gone"}
        /\ got' \in Requests \cup {None}
        /\ req' \in [Requests -> {"none", "dispatch", "queued", "serve", "posted", "sent"}]
        /\ stopper' \in {"up", "interrupt", "threads", "joinall", "exit", "waiting", "delete",
                         "join", "stopped"}
        /\ (event' = "dispatch" <=> got' # None)
    BY <1>1, <2>1, <2>2 DEF HttpTypeOK
  <2>5. /\ \A w \in Workers : worker'[w] = "serve" <=> item'[w] # None
        /\ \A i, j \in DOMAIN queue' : queue'[i] = queue'[j] => i = j
        /\ \A v, w \in Workers : item'[v] = item'[w] /\ item'[v] # None => v = w
    BY <2>1, <2>2 DEF HttpTypeOK
  <2>6. \A r \in Requests :
          /\ req'[r] = "dispatch" <=> got' = r
          /\ req'[r] = "queued" <=> \E i \in DOMAIN queue' : queue'[i] = r
          /\ req'[r] = "serve" <=> \E w \in Workers : item'[w] = r
    <3>1. \A r \in Requests :
            /\ req[r] = "dispatch" <=> got = r
            /\ req[r] = "queued" <=> \E i \in DOMAIN queue : queue[i] = r
            /\ req[r] = "serve" <=> \E w \in Workers : item[w] = r
      BY <2>2 DEF HttpTypeOK
    <3>2. req' = req /\ got' = got /\ queue' = queue /\ item' = item
      BY <2>1
    <3> QED BY <3>1, <3>2
  <2> QED BY <2>4, <2>5, <2>6, Zenon DEF HttpTypeOK
<1>3. StopOrder'
  BY DEF StopAccepting, HttpInv, HttpTypeOK, StopOrder
<1>4. NobodyAsleep'
  BY DEF StopAccepting, HttpInv, HttpTypeOK, StopOrder, NobodyAsleep
<1> QED BY <1>2, <1>3, <1>4 DEF HttpInv

\* The main thread interrupts the queue.
LEMMA InterruptQueueInv == ASSUME HttpInv, InterruptQueue("threads") PROVE HttpInv'
<1>1. Running' = Running
  BY DEF InterruptQueue, Running, HttpInv, HttpTypeOK
<1>2. HttpTypeOK'
  <2>1. worker' \in [Workers -> {"new", "top", "wait", "serve", "leave", "gone"}]
        /\ \A w \in Workers : worker'[w] = "serve" <=> worker[w] = "serve"
    BY DEF InterruptQueue, HttpInv, HttpTypeOK
  <2>2. stopper' = "threads" /\ running' = FALSE
        /\ UNCHANGED <<queue, numThreads, freed, item, accepting, event, got, req, broken>>
    BY DEF InterruptQueue
  <2>3. HttpTypeOK
    BY DEF HttpInv
  <2>4. /\ running' \in BOOLEAN /\ freed' \in BOOLEAN /\ accepting' \in BOOLEAN
        /\ broken' \in BOOLEAN
        /\ queue' \in Seq(Requests) /\ Len(queue') <= MaxDepth
        /\ worker' \in [Workers -> {"new", "top", "wait", "serve", "leave", "gone"}]
        /\ numThreads' = Cardinality(Running')
        /\ item' \in [Workers -> Requests \cup {None}]
        /\ event' \in {"loop", "dispatch", "gone"}
        /\ got' \in Requests \cup {None}
        /\ req' \in [Requests -> {"none", "dispatch", "queued", "serve", "posted", "sent"}]
        /\ stopper' \in {"up", "interrupt", "threads", "joinall", "exit", "waiting", "delete",
                         "join", "stopped"}
        /\ (event' = "dispatch" <=> got' # None)
    BY <1>1, <2>1, <2>2, <2>3 DEF HttpTypeOK
  <2>5. /\ \A w \in Workers : worker'[w] = "serve" <=> item'[w] # None
        /\ \A i, j \in DOMAIN queue' : queue'[i] = queue'[j] => i = j
        /\ \A v, w \in Workers : item'[v] = item'[w] /\ item'[v] # None => v = w
    BY <2>1, <2>2, <2>3 DEF HttpTypeOK
  <2>6. \A r \in Requests :
          /\ req'[r] = "dispatch" <=> got' = r
          /\ req'[r] = "queued" <=> \E i \in DOMAIN queue' : queue'[i] = r
          /\ req'[r] = "serve" <=> \E w \in Workers : item'[w] = r
    <3>1. \A r \in Requests :
            /\ req[r] = "dispatch" <=> got = r
            /\ req[r] = "queued" <=> \E i \in DOMAIN queue : queue[i] = r
            /\ req[r] = "serve" <=> \E w \in Workers : item[w] = r
      BY <2>3 DEF HttpTypeOK
    <3>2. req' = req /\ got' = got /\ queue' = queue /\ item' = item
      BY <2>2
    <3> QED BY <3>1, <3>2
  <2> QED BY <2>4, <2>5, <2>6, Zenon DEF HttpTypeOK
<1>3. StopOrder'
  BY DEF InterruptQueue, HttpInv, HttpTypeOK, StopOrder
<1>4. NobodyAsleep'
  BY DEF InterruptQueue, HttpInv, HttpTypeOK, StopOrder, NobodyAsleep
<1> QED BY <1>2, <1>3, <1>4 DEF HttpInv

\* The main thread goes on between the two halves of the shutdown.
LEMMA StopperInv ==
  ASSUME HttpInv, UNCHANGED <<running, queue, numThreads, freed, worker, item, accepting,
                              event, got, req, broken>>,
         \/ stopper = "threads" /\ stopper' = "joinall"
         \/ stopper = "joinall" /\ stopper' = "exit"
  PROVE  HttpInv'
<1>1. Running' = Running
  BY DEF Running
<1> QED BY <1>1 DEF HttpInv, HttpTypeOK, StopOrder, NobodyAsleep

\* The main thread sees that no counted worker is left, or waits for them.
LEMMA WaitExitInv == ASSUME HttpInv, WaitExit PROVE HttpInv'
<1> USE HttpAssumption
<1>0. HttpTypeOK /\ StopOrder /\ NobodyAsleep
  BY DEF HttpInv
<1>1. Running' = Running /\ IsFiniteSet(Running)
  BY FS_Subset DEF WaitExit, Running
<1>2. HttpTypeOK'
  BY <1>0, <1>1 DEF WaitExit, HttpTypeOK
<1>3. ASSUME stopper' = "delete" PROVE Running = {}
  <2>1. numThreads = 0
    BY <1>3, <1>0, <1>1, FS_CardinalityType DEF WaitExit, HttpTypeOK
  <2> QED BY <2>1, <1>0, <1>1, FS_EmptySet DEF HttpTypeOK
<1>4. stopper' = "delete" =>
        \A w \in Workers : /\ worker[w] # "serve"
                           /\ worker[w] # "wait"
  BY <1>0, <1>3 DEF WaitExit, Running, HttpTypeOK
<1>5. stopper' \in {"waiting", "delete"}
  BY DEF WaitExit
<1>6. StopOrder' /\ NobodyAsleep'
  BY <1>0, <1>4, <1>5 DEF WaitExit, StopOrder, NobodyAsleep
<1> QED BY <1>2, <1>6 DEF HttpInv

\* The queue is deleted and what is left in it is answered.
LEMMA DeleteQueueInv == ASSUME HttpInv, DeleteQueue PROVE HttpInv'
<1> USE HttpAssumption
<1>0. HttpTypeOK /\ StopOrder /\ NobodyAsleep
  BY DEF HttpInv
<1>1. Running' = Running
  BY DEF DeleteQueue, Running
<1>2. queue' = << >> /\ queue' \in Seq(Requests) /\ Len(queue') = 0 /\ DOMAIN queue' = {}
  BY DEF DeleteQueue
<1>3. /\ req' \in [Requests -> {"none", "dispatch", "queued", "serve", "posted", "sent"}]
      /\ \A r \in Requests : req'[r] = IF req[r] = "queued" THEN "posted" ELSE req[r]
  BY <1>0 DEF DeleteQueue, HttpTypeOK
<1>4. HttpTypeOK'
  BY <1>0, <1>1, <1>2, <1>3 DEF DeleteQueue, HttpTypeOK
<1>5. StopOrder' /\ NobodyAsleep'
  BY <1>0, <1>2 DEF DeleteQueue, HttpTypeOK, StopOrder, NobodyAsleep
<1> QED BY <1>4, <1>5 DEF HttpInv

\* The main thread joins the event thread, or breaks its loop.
LEMMA JoinEventInv == ASSUME HttpInv, JoinEvent PROVE HttpInv'
<1>0. HttpTypeOK /\ StopOrder /\ NobodyAsleep
  BY DEF HttpInv
<1>1. Running' = Running
  BY DEF JoinEvent, Running
<1>2. stopper = "join" /\ stopper' \in {"join", "stopped"} /\ (stopper' = "stopped" => event = "gone")
  BY DEF JoinEvent
<1>3. broken' \in BOOLEAN
  BY <1>0 DEF JoinEvent, HttpTypeOK
<1>4. UNCHANGED <<running, queue, numThreads, freed, worker, item, accepting, event, got, req>>
  BY DEF JoinEvent
<1>5. HttpTypeOK'
  BY <1>0, <1>1, <1>2, <1>3, <1>4 DEF HttpTypeOK
<1>6. StopOrder'
  BY <1>0, <1>2, <1>4 DEF StopOrder
<1>7. NobodyAsleep'
  BY <1>0, <1>2, <1>4 DEF NobodyAsleep
<1> QED BY <1>5, <1>6, <1>7 DEF HttpInv

\* A thread that was left behind comes to the deleted queue.
LEMMA UseDeletedInv == ASSUME HttpInv, NEW comes, UseDeleted(comes) PROVE HttpInv'
<1>0. HttpTypeOK /\ StopOrder /\ NobodyAsleep
  BY DEF HttpInv
<1>1. Running' = Running
  BY DEF UseDeleted, Running
<1>2. freed /\ stopper \in {"join", "stopped", "undefined"} /\ stopper' = "undefined"
  BY <1>0 DEF UseDeleted, StopOrder
<1>3. UNCHANGED <<running, queue, numThreads, freed, worker, item, accepting, event, got, req,
                  broken>>
  BY DEF UseDeleted
<1>4. HttpTypeOK'
  BY <1>0, <1>1, <1>2, <1>3 DEF HttpTypeOK
<1>5. StopOrder' /\ NobodyAsleep'
  BY <1>0, <1>2, <1>3 DEF StopOrder, NobodyAsleep
<1> QED BY <1>4, <1>5 DEF HttpInv

\* No other step of the server is left, and steps of the scheduler do not concern it.
LEMMA HttpStutterInv == ASSUME HttpInv, UNCHANGED httpVars PROVE HttpInv'
<1>1. Running' = Running
  BY DEF httpVars, Running
<1>2. HttpTypeOK'
  BY <1>1 DEF httpVars, HttpInv, HttpTypeOK
<1>3. StopOrder' /\ NobodyAsleep'
  BY DEF httpVars, HttpInv, StopOrder, NobodyAsleep
<1> QED BY <1>2, <1>3 DEF HttpInv

-----------------------------------------------------------------------------
(* The scheduler.                                                          *)

Items == [task : Tasks, left : Nat]

\* Tasks in the order of their times, each once.
Sorted(q) ==
    \A i, j \in DOMAIN q : i < j => q[i].left <= q[j].left /\ q[i].task # q[j].task

\* What multimap::insert does to a queue.
LEMMA InsertProps ==
  ASSUME NEW q \in Seq(Items), NEW k \in 0..Len(q), NEW e \in Items
  PROVE  /\ Insert(q, k, e) \in Seq(Items)
         /\ Len(Insert(q, k, e)) = Len(q) + 1
         /\ DOMAIN Insert(q, k, e) = 1..(Len(q) + 1)
         /\ \A i \in 1..k : Insert(q, k, e)[i] = q[i]
         /\ Insert(q, k, e)[k + 1] = e
         /\ \A i \in (k + 2)..(Len(q) + 1) : Insert(q, k, e)[i] = q[i - 1]
<1> DEFINE p == Insert(q, k, e)
<1>0. Len(q) \in Nat /\ DOMAIN q = 1..Len(q) /\ k \in Nat /\ k <= Len(q)
      /\ \A i \in 1..Len(q) : q[i] \in Items
  BY LenProperties
<1>1. DOMAIN p = 1..(Len(q) + 1)
  BY DEF Insert
<1>2. ASSUME NEW i \in 1..k PROVE p[i] = q[i] /\ i \in 1..Len(q)
  BY <1>0 DEF Insert
<1>3. p[k + 1] = e
  BY <1>0 DEF Insert
<1>4. ASSUME NEW i \in (k + 2)..(Len(q) + 1) PROVE p[i] = q[i - 1] /\ i - 1 \in 1..Len(q)
  BY <1>0 DEF Insert
<1>5. ASSUME NEW i \in 1..(Len(q) + 1) PROVE p[i] \in Items
  <2>1. i \in 1..k \/ i = k + 1 \/ i \in (k + 2)..(Len(q) + 1)
    BY <1>0
  <2> QED BY <2>1, <1>0, <1>2, <1>3, <1>4
<1>6. p \in [1..(Len(q) + 1) -> Items]
  <2>1. p = [i \in 1..(Len(q) + 1) |-> p[i]]
    BY DEF Insert
  <2> HIDE DEF p
  <2> QED BY <2>1, <1>5
<1> HIDE DEF p
<1>7. p \in Seq(Items) /\ Len(p) = Len(q) + 1
  BY <1>0, <1>6
<1> QED BY <1>1, <1>2, <1>3, <1>4, <1>7 DEF p

\* Inserting at its place a task that is not in a sorted queue leaves it sorted.
LEMMA InsertSorted ==
  ASSUME NEW q \in Seq(Items), NEW k \in 0..Len(q), NEW e \in Items, Sorted(q),
         Goes(q, k, e.left), \A i \in DOMAIN q : q[i].task # e.task
  PROVE  /\ Sorted(Insert(q, k, e))
         /\ {Insert(q, k, e)[i].task : i \in DOMAIN Insert(q, k, e)}
              = {q[i].task : i \in DOMAIN q} \cup {e.task}
<1> DEFINE p == Insert(q, k, e)
<1>0. Len(q) \in Nat /\ DOMAIN q = 1..Len(q) /\ k \in Nat /\ k <= Len(q)
  BY LenProperties
<1>t. e.left \in Nat /\ \A i \in 1..Len(q) : q[i].left \in Nat
  <2>1. \A i \in 1..Len(q) : q[i] \in Items
    BY ElementOfSeq
  <2> QED BY <2>1 DEF Items
<1>1. /\ DOMAIN p = 1..(Len(q) + 1)
      /\ \A i \in 1..k : p[i] = q[i]
      /\ p[k + 1] = e
      /\ \A i \in (k + 2)..(Len(q) + 1) : p[i] = q[i - 1]
  <2>1. DOMAIN p = 1..(Len(q) + 1)
    BY InsertProps
  <2>2. \A i \in 1..k : p[i] = q[i]
    BY InsertProps
  <2>3. p[k + 1] = e
    BY InsertProps
  <2>4. \A i \in (k + 2)..(Len(q) + 1) : p[i] = q[i - 1]
    BY InsertProps
  <2> QED BY <2>1, <2>2, <2>3, <2>4, Zenon
<1> HIDE DEF p
<1>c. ASSUME NEW i \in 1..(Len(q) + 1)
      PROVE  i \in 1..k \/ i = k + 1 \/ i \in (k + 2)..(Len(q) + 1)
  BY <1>0
<1>m. /\ \A i \in 1..k : i \in 1..Len(q)
      /\ \A i \in (k + 2)..(Len(q) + 1) : i - 1 \in 1..Len(q) /\ i - 1 \in (k + 1)..Len(q)
  BY <1>0
<1>2. ASSUME NEW i \in DOMAIN p, NEW j \in DOMAIN p, i < j
      PROVE  p[i].left <= p[j].left /\ p[i].task # p[j].task
  <2>1. CASE i \in 1..k /\ j \in 1..k
    BY <2>1, <1>0, <1>1, <1>2, <1>m DEF Sorted
  <2>2. CASE i \in 1..k /\ j = k + 1
    BY <2>2, <1>0, <1>1, <1>m DEF Goes
  <2>3. CASE i \in 1..k /\ j \in (k + 2)..(Len(q) + 1)
    <3>1. i < j - 1 /\ j - 1 \in 1..Len(q) /\ i \in 1..Len(q)
      BY <2>3, <1>0, <1>m
    <3> QED BY <3>1, <2>3, <1>0, <1>1 DEF Sorted
  <2>4. CASE i = k + 1 /\ j \in (k + 2)..(Len(q) + 1)
    <3>1. j - 1 \in 1..Len(q) /\ j - 1 \in (k + 1)..Len(q)
      BY <2>4, <1>m
    <3>2. q[j - 1].left > e.left /\ q[j - 1].task # e.task
      BY <3>1, <1>0 DEF Goes
    <3>3. p[i] = e /\ p[j] = q[j - 1]
      BY <2>4, <1>1
    <3> QED BY <3>1, <3>2, <3>3, <1>t
  <2>5. CASE i \in (k + 2)..(Len(q) + 1) /\ j \in (k + 2)..(Len(q) + 1)
    <3>1. i - 1 < j - 1 /\ i - 1 \in 1..Len(q) /\ j - 1 \in 1..Len(q)
      BY <2>5, <1>0, <1>2, <1>m
    <3> QED BY <3>1, <2>5, <1>0, <1>1 DEF Sorted
  <2>6. CASE (i = k + 1 /\ j \in 1..(k + 1)) \/ (i \in (k + 2)..(Len(q) + 1) /\ j \in 1..(k + 1))
    BY <2>6, <1>2, <1>0
  <2>7. i \in 1..(Len(q) + 1) /\ j \in 1..(Len(q) + 1)
    BY <1>1
  <2>8. (j \in 1..k \/ j = k + 1) => j \in 1..(k + 1)
    BY <1>0
  <2> QED BY <2>1, <2>2, <2>3, <2>4, <2>5, <2>6, <2>7, <2>8, <1>c
<1>3. ASSUME NEW i \in DOMAIN p PROVE p[i].task \in {q[j].task : j \in DOMAIN q} \cup {e.task}
  BY <1>0, <1>1, <1>c, <1>m
<1>4. ASSUME NEW j \in DOMAIN q PROVE q[j].task \in {p[i].task : i \in DOMAIN p}
  <2>1. CASE j <= k
    <3>1. j \in 1..k /\ j \in DOMAIN p
      BY <2>1, <1>0, <1>1
    <3> QED BY <3>1, <1>1
  <2>2. CASE j > k
    <3>1. j + 1 \in (k + 2)..(Len(q) + 1) /\ j + 1 \in DOMAIN p /\ (j + 1) - 1 = j
      BY <2>2, <1>0, <1>1
    <3>2. p[j + 1] = q[j]
      BY <3>1, <1>1
    <3> QED BY <3>1, <3>2
  <2> QED BY <2>1, <2>2, <1>0
<1>5. e.task \in {p[i].task : i \in DOMAIN p}
  <2>1. k + 1 \in DOMAIN p
    BY <1>0, <1>1
  <2> QED BY <2>1, <1>1
<1>6. {p[i].task : i \in DOMAIN p} = {q[i].task : i \in DOMAIN q} \cup {e.task}
  BY <1>3, <1>4, <1>5
<1>7. Sorted(p)
  BY <1>2 DEF Sorted
<1> QED BY <1>6, <1>7 DEF p

\* The types, with what Sorted abbreviates.
LEMMA SchedTypes ==
  ASSUME SchedTypeOK
  PROVE  /\ taskQueue \in Seq(Items) /\ Sorted(taskQueue)
         /\ Len(taskQueue) \in Nat /\ DOMAIN taskQueue = 1..Len(taskQueue)
         /\ \A i \in 1..Len(taskQueue) : /\ taskQueue[i] \in Items
                                         /\ taskQueue[i].left \in Nat
                                         /\ taskQueue[i].task \in Tasks
<1>1. taskQueue \in Seq(Items) /\ Sorted(taskQueue)
  BY DEF SchedTypeOK, Items, Sorted
<1>2. Len(taskQueue) \in Nat /\ DOMAIN taskQueue = 1..Len(taskQueue)
  BY <1>1, LenProperties
<1>3. \A i \in 1..Len(taskQueue) : taskQueue[i] \in Items
  BY <1>1, ElementOfSeq
<1> QED BY <1>1, <1>2, <1>3 DEF Items

\* The initial state of the scheduler satisfies its invariant.
LEMMA SchedInitInv == SchedInit => SchedInv
<1> SUFFICES ASSUME SchedInit PROVE SchedInv
  OBVIOUS
<1> USE SchedulerAssumption
<1>1. taskQueue = << >> /\ taskQueue \in Seq([task : Tasks, left : Nat]) /\ DOMAIN taskQueue = {}
  BY DEF SchedInit
<1>2. Queued = {}
  BY <1>1 DEF Queued
<1>3. \A s \in Threads : thread[s] = "top" /\ task[s] = NoTask
  BY DEF SchedInit
<1>4. {task[s] : s \in Threads} \ {NoTask} = {}
  BY <1>3
<1>5. /\ thread \in [Threads -> {"top", "wait", "timed", "run", "gone"}]
      /\ until \in [Threads -> Nat]
      /\ task \in [Threads -> Tasks \cup {NoTask}]
  BY DEF SchedInit
<1>6. early = FALSE /\ known = {} /\ interrupted = {}
  BY DEF SchedInit
<1>7. SchedTypeOK
  BY <1>1, <1>2, <1>3, <1>4, <1>5, <1>6 DEF SchedTypeOK
<1>8. FirstIsDue
  BY <1>3, <1>6 DEF FirstIsDue
<1> QED BY <1>7, <1>8 DEF SchedInv

\* A task is put into the queue and a waiting thread is told: the queue stays sorted,
\* and a thread that was not told keeps its state.
LEMMA ScheduleProps ==
  ASSUME SchedTypeOK, NEW t \in Tasks, t \notin Queued,
         NEW th \in [Threads -> {"top", "wait", "timed", "run", "gone"}], Schedule(t, th)
  PROVE  /\ taskQueue' \in Seq(Items) /\ Sorted(taskQueue')
         /\ {taskQueue'[i].task : i \in DOMAIN taskQueue'} = Queued \cup {t}
         /\ thread' \in [Threads -> {"top", "wait", "timed", "run", "gone"}]
         /\ \A s \in Threads :
            thread'[s] = th[s] \/ (th[s] \in {"wait", "timed"} /\ thread'[s] = "top")
         /\ (\A s, u \in Threads : s = u) => \A s \in Threads : thread'[s] \notin {"wait", "timed"}
<1> USE SchedulerAssumption
<1> DEFINE e == [task |-> t, left |-> Delay[t]]
<1>0. taskQueue \in Seq(Items) /\ Sorted(taskQueue)
  BY SchedTypes
<1>1. e \in Items /\ e.left = Delay[t] /\ e.task = t
  BY DEF Items
<1>2. PICK k \in 0..Len(taskQueue) : Goes(taskQueue, k, Delay[t]) /\ taskQueue' = Insert(taskQueue, k, e)
  BY DEF Schedule
<1>3. \A i \in DOMAIN taskQueue : taskQueue[i].task # e.task
  BY <1>1 DEF Queued
<1> HIDE DEF e
<1>4. taskQueue' \in Seq(Items)
  BY <1>0, <1>1, <1>2, InsertProps
<1>5. /\ Sorted(Insert(taskQueue, k, e))
      /\ {Insert(taskQueue, k, e)[i].task : i \in DOMAIN Insert(taskQueue, k, e)}
           = {taskQueue[i].task : i \in DOMAIN taskQueue} \cup {e.task}
  <2>1. Goes(taskQueue, k, e.left)
    BY <1>1, <1>2
  <2> QED BY <2>1, <1>0, <1>1, <1>3, InsertSorted
<1>6. Sorted(taskQueue') /\ {taskQueue'[i].task : i \in DOMAIN taskQueue'} = Queued \cup {t}
  BY <1>1, <1>2, <1>5 DEF Queued
<1>7. /\ thread' \in [Threads -> {"top", "wait", "timed", "run", "gone"}]
      /\ \A s \in Threads :
            thread'[s] = th[s] \/ (th[s] \in {"wait", "timed"} /\ thread'[s] = "top")
      /\ (\A s, u \in Threads : s = u) => \A s \in Threads : thread'[s] \notin {"wait", "timed"}
  <2>1. CASE \E s \in Threads : th[s] \in {"wait", "timed"}
    <3>1. PICK x \in Threads : th[x] \in {"wait", "timed"} /\ thread' = [th EXCEPT ![x] = "top"]
      BY <2>1 DEF Schedule, Notify
    <3> QED BY <3>1
  <2>2. CASE ~\E s \in Threads : th[s] \in {"wait", "timed"}
    <3>1. thread' = th
      BY <2>2 DEF Schedule, Notify
    <3> QED BY <2>2, <3>1
  <2> QED BY <2>1, <2>2
<1> QED BY <1>4, <1>6, <1>7

\* Another thread calls scheduleEvery.
LEMMA ScheduleEveryInv == ASSUME SchedInv, NEW t \in Tasks, ScheduleEvery(t) PROVE SchedInv'
<1> USE SchedulerAssumption
<1>0. SchedTypeOK /\ FirstIsDue
  BY DEF SchedInv
<1>1. t \notin known /\ known' = known \cup {t} /\ Schedule(t, thread)
      /\ UNCHANGED <<until, task, early, interrupted>>
  BY DEF ScheduleEvery
<1>2. t \notin Queued /\ \A s \in Threads : task[s] # t
  BY <1>0, <1>1 DEF SchedTypeOK
<1>3. thread \in [Threads -> {"top", "wait", "timed", "run", "gone"}]
  BY <1>0 DEF SchedTypeOK
<1>4. /\ taskQueue' \in Seq(Items) /\ Sorted(taskQueue')
      /\ {taskQueue'[i].task : i \in DOMAIN taskQueue'} = Queued \cup {t}
      /\ thread' \in [Threads -> {"top", "wait", "timed", "run", "gone"}]
      /\ \A s \in Threads :
            thread'[s] = thread[s] \/ (thread[s] \in {"wait", "timed"} /\ thread'[s] = "top")
      /\ (\A s, u \in Threads : s = u) => \A s \in Threads : thread'[s] \notin {"wait", "timed"}
  BY <1>0, <1>1, <1>2, <1>3, ScheduleProps
<1>5. Queued' = Queued \cup {t}
  BY <1>4 DEF Queued
<1>6. \A s \in Threads : thread'[s] = "run" <=> task'[s] \in Tasks
  BY <1>0, <1>1, <1>4 DEF SchedTypeOK
<1>7. SchedTypeOK'
  <2>1. taskQueue' \in Seq([task : Tasks, left : Nat])
    BY <1>4 DEF Items
  <2>2. \A i, j \in DOMAIN taskQueue' : i < j =>
          taskQueue'[i].left <= taskQueue'[j].left /\ taskQueue'[i].task # taskQueue'[j].task
    BY <1>4 DEF Sorted
  <2>3. /\ until' \in [Threads -> Nat] /\ task' \in [Threads -> Tasks \cup {NoTask}]
        /\ known' \subseteq Tasks /\ interrupted' \subseteq Threads
        /\ \A x, u \in Threads : task'[x] = task'[u] /\ task'[x] # NoTask => x = u
    BY <1>0, <1>1 DEF SchedTypeOK
  <2>4. early' \in BOOLEAN
    BY <1>0, <1>1 DEF SchedTypeOK
  <2>5. \A x \in Threads : task'[x] \notin Queued'
    BY <1>0, <1>1, <1>2, <1>5 DEF SchedTypeOK
  <2>6. known' = Queued' \cup ({task'[x] : x \in Threads} \ {NoTask})
    BY <1>0, <1>1, <1>5 DEF SchedTypeOK
  <2> QED BY <2>1, <2>2, <2>3, <2>4, <2>5, <2>6, <1>4, <1>6 DEF SchedTypeOK
<1>8. FirstIsDue'
  <2>1. SUFFICES ASSUME \A x, u \in Threads : x = u
                 PROVE  ~early' /\ \A x \in Threads : thread'[x] # "timed"
    BY DEF FirstIsDue
  <2>2. ~early
    BY <2>1, <1>0 DEF FirstIsDue
  <2>3. early' = early
    BY <1>1
  <2>4. \A x \in Threads : thread'[x] \notin {"wait", "timed"}
    BY <2>1, <1>4
  <2> QED BY <2>2, <2>3, <2>4
<1> QED BY <1>7, <1>8 DEF SchedInv

\* A service thread goes to wait, for a task or for the time of the first one.
LEMMA EnterWaitInv == ASSUME SchedInv, NEW s \in Threads, EnterWait(s) PROVE SchedInv'
<1> USE SchedulerAssumption
<1>0. SchedTypeOK /\ FirstIsDue
  BY DEF SchedInv
<1>q. /\ Len(taskQueue) \in Nat /\ taskQueue \in Seq(Items)
      /\ \A i \in 1..Len(taskQueue) : taskQueue[i].left \in Nat
  BY <1>0, SchedTypes
<1>1. /\ thread[s] = "top" /\ UNCHANGED <<taskQueue, task, early, known, interrupted>>
      /\ Queued' = Queued
  BY DEF EnterWait, Queued
<1>2. CASE taskQueue = << >>
  <2>1. thread' = [thread EXCEPT ![s] = "wait"] /\ until' = until
    BY <1>2 DEF EnterWait
  <2>2. SchedTypeOK'
    BY <2>1, <1>0, <1>1 DEF SchedTypeOK
  <2>3. FirstIsDue'
    BY <2>1, <1>0, <1>1 DEF FirstIsDue, SchedTypeOK
  <2> QED BY <2>2, <2>3 DEF SchedInv
<1>3. CASE taskQueue # << >>
  <2>1. thread' = [thread EXCEPT ![s] = "timed"] /\ until' = [until EXCEPT ![s] = Head(taskQueue).left]
    BY <1>3 DEF EnterWait
  <2>2. Head(taskQueue) = taskQueue[1] /\ taskQueue[1].left \in Nat
    BY <1>3, <1>q
  <2>3. SchedTypeOK'
    BY <2>1, <2>2, <1>0, <1>1 DEF SchedTypeOK
  <2>4. FirstIsDue'
    BY <2>1, <2>2, <1>0, <1>1, <1>3 DEF FirstIsDue, SchedTypeOK
  <2> QED BY <2>3, <2>4 DEF SchedInv
<1> QED BY <1>2, <1>3

\* What is left of a queue when its first task is taken.
LEMMA TailProps ==
  ASSUME NEW q \in Seq(Items), Sorted(q), q # << >>
  PROVE  /\ Head(q) = q[1] /\ q[1] \in Items
         /\ Tail(q) \in Seq(Items) /\ Sorted(Tail(q))
         /\ {Tail(q)[i].task : i \in DOMAIN Tail(q)} = {q[i].task : i \in DOMAIN q} \ {q[1].task}
<1>0. Len(q) \in Nat /\ DOMAIN q = 1..Len(q) /\ Len(q) > 0
  BY LenProperties, EmptySeq
<1>1. /\ Head(q) = q[1] /\ Tail(q) \in Seq(Items)
      /\ Len(Tail(q)) = Len(q) - 1 /\ DOMAIN Tail(q) = 1..(Len(q) - 1)
      /\ \A i \in 1..(Len(q) - 1) : Tail(q)[i] = q[i + 1]
  BY <1>0
<1>2. q[1] \in Items
  BY <1>0, ElementOfSeq
<1> DEFINE r == Tail(q)
<1> HIDE DEF r
<1>3. DOMAIN r = 1..(Len(q) - 1) /\ \A i \in 1..(Len(q) - 1) : r[i] = q[i + 1]
  BY <1>1 DEF r
<1>4. Sorted(r)
  <2>1. SUFFICES ASSUME NEW i \in DOMAIN r, NEW j \in DOMAIN r, i < j
                 PROVE  r[i].left <= r[j].left /\ r[i].task # r[j].task
    BY DEF Sorted
  <2>2. i + 1 \in DOMAIN q /\ j + 1 \in DOMAIN q /\ i + 1 < j + 1
    BY <2>1, <1>0, <1>3
  <2>3. r[i] = q[i + 1] /\ r[j] = q[j + 1]
    BY <1>3
  <2> QED BY <2>2, <2>3 DEF Sorted
<1>5. ASSUME NEW i \in DOMAIN r
      PROVE  r[i].task \in {q[j].task : j \in DOMAIN q} \ {q[1].task}
  <2>1. i + 1 \in DOMAIN q /\ 1 \in DOMAIN q /\ 1 < i + 1 /\ r[i] = q[i + 1]
    BY <1>0, <1>3
  <2> QED BY <2>1 DEF Sorted
<1>6. ASSUME NEW j \in DOMAIN q, q[j].task # q[1].task
      PROVE  q[j].task \in {r[i].task : i \in DOMAIN r}
  <2>1. j # 1
    BY <1>6
  <2>2. j - 1 \in DOMAIN r /\ (j - 1) + 1 = j
    BY <2>1, <1>0, <1>3
  <2>3. r[j - 1] = q[j]
    BY <2>2, <1>3
  <2> QED BY <2>2, <2>3
<1>7. {r[i].task : i \in DOMAIN r} = {q[i].task : i \in DOMAIN q} \ {q[1].task}
  BY <1>5, <1>6
<1> QED BY <1>1, <1>2, <1>4, <1>7 DEF r

\* A timed wait is over: the thread takes the first task, which is due.
LEMMA TimeoutInv == ASSUME SchedInv, NEW s \in Threads, Timeout(s) PROVE SchedInv'
<1> USE SchedulerAssumption
<1>0. SchedTypeOK /\ FirstIsDue
  BY DEF SchedInv
<1>1. thread[s] = "timed" /\ until[s] = 0 /\ UNCHANGED <<until, known, interrupted>>
  BY DEF Timeout
<1>t. /\ thread \in [Threads -> {"top", "wait", "timed", "run", "gone"}]
      /\ task \in [Threads -> Tasks \cup {NoTask}]
      /\ task[s] = NoTask
  BY <1>0, <1>1 DEF SchedTypeOK
<1>2. CASE taskQueue = << >>
  <2>1. thread' = [thread EXCEPT ![s] = "top"] /\ UNCHANGED <<taskQueue, task, early>>
    BY <1>2 DEF Timeout
  <2>2. Queued' = Queued
    BY <2>1 DEF Queued
  <2>3. \A x \in Threads : thread'[x] = "run" <=> task'[x] \in Tasks
    BY <2>1, <1>t, <1>0 DEF SchedTypeOK
  <2>4. SchedTypeOK'
    BY <2>1, <2>2, <2>3, <1>0, <1>1 DEF SchedTypeOK
  <2>5. FirstIsDue'
    BY <2>1, <1>0, <1>1, <1>t DEF FirstIsDue
  <2> QED BY <2>4, <2>5 DEF SchedInv
<1>3. CASE taskQueue # << >>
  <2>1. /\ taskQueue' = Tail(taskQueue)
        /\ thread' = [thread EXCEPT ![s] = "run"]
        /\ task' = [task EXCEPT ![s] = Head(taskQueue).task]
    BY <1>3 DEF Timeout
  <2>e. early' = (early \/ Head(taskQueue).left > 0)
    BY <1>3 DEF Timeout
  <2>2. /\ Head(taskQueue) = taskQueue[1] /\ taskQueue[1] \in Items
        /\ taskQueue' \in Seq(Items) /\ Sorted(taskQueue')
        /\ Queued' = Queued \ {taskQueue[1].task}
    BY <2>1, <1>0, <1>3, SchedTypes, TailProps DEF Queued
  <2> DEFINE x == taskQueue[1].task
  <2>3. x \in Tasks /\ taskQueue[1].left \in Nat /\ x # NoTask
    BY <2>2 DEF Items
  <2>4. x \in Queued
    <3>1. 1 \in DOMAIN taskQueue
      BY <1>0, <1>3, SchedTypes
    <3> QED BY <3>1 DEF Queued
  <2>5. task' = [task EXCEPT ![s] = x]
    BY <2>1, <2>2
  <2> HIDE DEF x
  <2>6. task' \in [Threads -> Tasks \cup {NoTask}] /\ thread' \in [Threads -> {"top", "wait", "timed", "run", "gone"}]
    BY <2>1, <2>3, <2>5, <1>t
  <2>7. \A u \in Threads : task[u] # x /\ task[u] \notin Queued
    BY <2>4, <1>0 DEF SchedTypeOK
  <2>8. \A u \in Threads : thread'[u] = "run" <=> task'[u] \in Tasks
    BY <2>1, <2>3, <2>5, <1>t, <1>0 DEF SchedTypeOK
  <2>9. \A u, v \in Threads : task'[u] = task'[v] /\ task'[u] # NoTask => u = v
    BY <2>5, <2>7, <1>t, <1>0 DEF SchedTypeOK
  <2>10. Queued' = Queued \ {x}
    BY <2>2 DEF x
  <2>11. \A u \in Threads : task'[u] \notin Queued'
    BY <2>5, <2>7, <2>10, <1>t
  <2>12. known' = Queued' \cup ({task'[u] : u \in Threads} \ {NoTask})
    <3>1. known = Queued \cup ({task[u] : u \in Threads} \ {NoTask})
      BY <1>0 DEF SchedTypeOK
    <3>2. {task'[u] : u \in Threads} \ {NoTask} = ({task[u] : u \in Threads} \ {NoTask}) \cup {x}
      BY <2>3, <2>5, <1>t
    <3> QED BY <3>1, <3>2, <2>4, <2>10, <1>1
  <2>13. early' \in BOOLEAN
    BY <2>e
  <2>14. SchedTypeOK'
    <3>1. taskQueue' \in Seq([task : Tasks, left : Nat])
      BY <2>2 DEF Items
    <3>2. \A i, j \in DOMAIN taskQueue' : i < j =>
            taskQueue'[i].left <= taskQueue'[j].left /\ taskQueue'[i].task # taskQueue'[j].task
      BY <2>2 DEF Sorted
    <3>3. until' \in [Threads -> Nat] /\ known' \subseteq Tasks /\ interrupted' \subseteq Threads
      BY <1>0, <1>1 DEF SchedTypeOK
    <3> QED BY <3>1, <3>2, <3>3, <2>6, <2>8, <2>9, <2>11, <2>12, <2>13 DEF SchedTypeOK
  <2>15. FirstIsDue'
    <3>1. SUFFICES ASSUME \A u, v \in Threads : u = v
                   PROVE  ~early' /\ \A u \in Threads : thread'[u] # "timed"
      BY DEF FirstIsDue
    <3>2. ~early /\ taskQueue[1].left <= until[s]
      BY <3>1, <1>0, <1>1 DEF FirstIsDue
    <3>3. ~(Head(taskQueue).left > 0)
      BY <3>2, <2>2, <2>3, <1>1
    <3>4. ~early'
      BY <3>2, <3>3, <2>e
    <3>5. \A u \in Threads : u = s
      BY <3>1
    <3>6. \A u \in Threads : thread'[u] # "timed"
      BY <3>5, <2>1, <1>t
    <3> QED BY <3>4, <3>6
  <2> QED BY <2>14, <2>15 DEF SchedInv
<1> QED BY <1>2, <1>3

\* A task returns and is scheduled again.
LEMMA FinishTaskInv == ASSUME SchedInv, NEW s \in Threads, FinishTask(s) PROVE SchedInv'
<1> USE SchedulerAssumption
<1>0. SchedTypeOK /\ FirstIsDue
  BY DEF SchedInv
<1> DEFINE th == [thread EXCEPT ![s] = "top"]
           x == task[s]
<1>1. /\ thread[s] = "run" /\ Schedule(x, th) /\ task' = [task EXCEPT ![s] = NoTask]
      /\ UNCHANGED <<until, early, known, interrupted>>
  BY DEF FinishTask
<1>t. /\ thread \in [Threads -> {"top", "wait", "timed", "run", "gone"}]
      /\ task \in [Threads -> Tasks \cup {NoTask}]
      /\ th \in [Threads -> {"top", "wait", "timed", "run", "gone"}]
  BY <1>0 DEF SchedTypeOK
<1>2. x \in Tasks /\ x # NoTask /\ x \notin Queued
  BY <1>0, <1>1 DEF SchedTypeOK
<1>3. th[s] = "top" /\ \A u \in Threads \ {s} : th[u] = thread[u]
  BY <1>t
<1> HIDE DEF th, x
<1>4. /\ taskQueue' \in Seq(Items) /\ Sorted(taskQueue')
      /\ {taskQueue'[i].task : i \in DOMAIN taskQueue'} = Queued \cup {x}
      /\ thread' \in [Threads -> {"top", "wait", "timed", "run", "gone"}]
      /\ \A u \in Threads :
            thread'[u] = th[u] \/ (th[u] \in {"wait", "timed"} /\ thread'[u] = "top")
      /\ (\A y, u \in Threads : y = u) => \A u \in Threads : thread'[u] \notin {"wait", "timed"}
  BY <1>0, <1>1, <1>2, <1>t, ScheduleProps
<1>5. Queued' = Queued \cup {x}
  BY <1>4 DEF Queued
<1>6. task' \in [Threads -> Tasks \cup {NoTask}] /\ task'[s] = NoTask
      /\ \A u \in Threads \ {s} : task'[u] = task[u] /\ task[u] # x
  <2>1. \A u \in Threads \ {s} : task[u] # x
    BY <1>0, <1>2 DEF SchedTypeOK, x
  <2> QED BY <2>1, <1>1, <1>t
<1>7. ASSUME NEW u \in Threads PROVE thread'[u] = "run" <=> task'[u] \in Tasks
  <2>1. CASE u = s
    BY <2>1, <1>3, <1>4, <1>6
  <2>2. CASE u # s
    <3>1. task'[u] = task[u] /\ th[u] = thread[u]
      BY <2>2, <1>3, <1>6
    <3>2. thread[u] = "run" <=> task[u] \in Tasks
      BY <1>0 DEF SchedTypeOK
    <3>3. thread'[u] = "run" <=> thread[u] = "run"
      BY <3>1, <1>4
    <3> QED BY <3>1, <3>2, <3>3
  <2> QED BY <2>1, <2>2
<1>8. \A u, v \in Threads : task'[u] = task'[v] /\ task'[u] # NoTask => u = v
  BY <1>6, <1>0 DEF SchedTypeOK
<1>9. NoTask \notin Queued'
  <2>1. NoTask \notin Queued
    BY <1>0, SchedTypes DEF Queued
  <2> QED BY <2>1, <1>2, <1>5
<1>10. \A u \in Threads : task'[u] \notin Queued'
  BY <1>5, <1>6, <1>9, <1>0 DEF SchedTypeOK
<1>11. known' = Queued' \cup ({task'[u] : u \in Threads} \ {NoTask})
  <2>1. known = Queued \cup ({task[u] : u \in Threads} \ {NoTask})
    BY <1>0 DEF SchedTypeOK
  <2>2. {task[u] : u \in Threads} \ {NoTask} = ({task'[u] : u \in Threads} \ {NoTask}) \cup {x}
    BY <1>2, <1>6 DEF x
  <2> QED BY <2>1, <2>2, <1>1, <1>5
<1>12. SchedTypeOK'
  <2>1. taskQueue' \in Seq([task : Tasks, left : Nat])
    BY <1>4 DEF Items
  <2>2. \A i, j \in DOMAIN taskQueue' : i < j =>
          taskQueue'[i].left <= taskQueue'[j].left /\ taskQueue'[i].task # taskQueue'[j].task
    BY <1>4 DEF Sorted
  <2>3. until' \in [Threads -> Nat] /\ known' \subseteq Tasks /\ interrupted' \subseteq Threads
    BY <1>0, <1>1 DEF SchedTypeOK
  <2>4. early' \in BOOLEAN
    BY <1>0, <1>1 DEF SchedTypeOK
  <2> QED BY <2>1, <2>2, <2>3, <2>4, <1>4, <1>6, <1>7, <1>8, <1>10, <1>11 DEF SchedTypeOK
<1>13. FirstIsDue'
  <2>1. SUFFICES ASSUME \A y, u \in Threads : y = u
                 PROVE  ~early' /\ \A u \in Threads : thread'[u] # "timed"
    BY DEF FirstIsDue
  <2>2. ~early
    BY <2>1, <1>0 DEF FirstIsDue
  <2>3. early' = early
    BY <1>1
  <2>4. \A u \in Threads : thread'[u] \notin {"wait", "timed"}
    BY <2>1, <1>4
  <2> QED BY <2>2, <2>3, <2>4
<1> QED BY <1>12, <1>13 DEF SchedInv

\* A wait throws and serviceQueue ends.
LEMMA ThrowInterruptedInv == ASSUME SchedInv, NEW s \in Threads, ThrowInterrupted(s) PROVE SchedInv'
<1> USE SchedulerAssumption
<1>0. SchedTypeOK /\ FirstIsDue
  BY DEF SchedInv
<1>1. /\ thread[s] \in {"top", "wait", "timed"} /\ thread' = [thread EXCEPT ![s] = "gone"]
      /\ interrupted' = interrupted \ {s} /\ UNCHANGED <<taskQueue, until, task, early, known>>
      /\ Queued' = Queued
  BY DEF ThrowInterrupted, Queued
<1>2. SchedTypeOK'
  BY <1>0, <1>1 DEF SchedTypeOK
<1>3. FirstIsDue'
  BY <1>0, <1>1 DEF FirstIsDue, SchedTypeOK
<1> QED BY <1>2, <1>3 DEF SchedInv

\* A second passes.
LEMMA TickInv == ASSUME SchedInv, Tick PROVE SchedInv'
<1> USE SchedulerAssumption
<1> DEFINE Less(n) == IF n > 0 THEN n - 1 ELSE 0
<1>0. SchedTypeOK /\ FirstIsDue
  BY DEF SchedInv
<1>1. /\ taskQueue' = [i \in DOMAIN taskQueue |-> [taskQueue[i] EXCEPT !.left = Less(@)]]
      /\ until' = [u \in Threads |-> Less(until[u])]
      /\ UNCHANGED <<thread, task, early, known, interrupted>>
  BY DEF Tick
<1>2. \A m, n \in Nat : Less(m) \in Nat /\ (m <= n => Less(m) <= Less(n))
  OBVIOUS
<1> HIDE DEF Less
<1>3. /\ taskQueue \in Seq(Items) /\ Sorted(taskQueue)
      /\ Len(taskQueue) \in Nat /\ DOMAIN taskQueue = 1..Len(taskQueue)
      /\ \A i \in 1..Len(taskQueue) : taskQueue[i] \in Items
  BY <1>0, SchedTypes
<1>4. ASSUME NEW i \in 1..Len(taskQueue)
      PROVE  /\ taskQueue'[i] \in Items /\ taskQueue'[i].task = taskQueue[i].task
             /\ taskQueue'[i].left = Less(taskQueue[i].left)
             /\ taskQueue[i].left \in Nat
  <2>1. taskQueue'[i] = [taskQueue[i] EXCEPT !.left = Less(taskQueue[i].left)]
    BY <1>1, <1>3
  <2>2. taskQueue[i] \in Items
    BY <1>3
  <2>3. taskQueue[i].left \in Nat
    BY <2>2 DEF Items
  <2>4. Less(taskQueue[i].left) \in Nat
    BY <2>3, <1>2
  <2> QED BY <2>1, <2>2, <2>3, <2>4 DEF Items
<1>5. DOMAIN taskQueue' = 1..Len(taskQueue) /\ taskQueue' \in Seq(Items)
  <2>1. taskQueue' \in [1..Len(taskQueue) -> Items]
    BY <1>1, <1>3, <1>4
  <2> QED BY <2>1, <1>3
<1>6. Sorted(taskQueue')
  <2>1. SUFFICES ASSUME NEW i \in 1..Len(taskQueue), NEW j \in 1..Len(taskQueue), i < j
                 PROVE  taskQueue'[i].left <= taskQueue'[j].left
                        /\ taskQueue'[i].task # taskQueue'[j].task
    BY <1>5 DEF Sorted
  <2>2. taskQueue[i].left <= taskQueue[j].left /\ taskQueue[i].task # taskQueue[j].task
    BY <2>1, <1>3 DEF Sorted
  <2> QED BY <2>2, <1>2, <1>4
<1>7. Queued' = Queued
  BY <1>3, <1>4, <1>5 DEF Queued
<1>8. until \in [Threads -> Nat] /\ until' \in [Threads -> Nat]
      /\ \A u \in Threads : until'[u] = Less(until[u])
  BY <1>0, <1>1, <1>2 DEF SchedTypeOK
<1>9. SchedTypeOK'
  <2>1. taskQueue' \in Seq([task : Tasks, left : Nat])
    BY <1>5 DEF Items
  <2>2. \A i, j \in DOMAIN taskQueue' : i < j =>
          taskQueue'[i].left <= taskQueue'[j].left /\ taskQueue'[i].task # taskQueue'[j].task
    BY <1>6 DEF Sorted
  <2>3. /\ thread' \in [Threads -> {"top", "wait", "timed", "run", "gone"}]
        /\ task' \in [Threads -> Tasks \cup {NoTask}]
        /\ known' \subseteq Tasks /\ interrupted' \subseteq Threads
    BY <1>0, <1>1 DEF SchedTypeOK
  <2>4. early' \in BOOLEAN
    BY <1>0, <1>1 DEF SchedTypeOK
  <2>5. /\ \A u \in Threads : thread'[u] = "run" <=> task'[u] \in Tasks
        /\ \A y, u \in Threads : task'[y] = task'[u] /\ task'[y] # NoTask => y = u
        /\ \A u \in Threads : task'[u] \notin Queued'
        /\ known' = Queued' \cup ({task'[u] : u \in Threads} \ {NoTask})
    BY <1>0, <1>1, <1>7 DEF SchedTypeOK
  <2> QED BY <2>1, <2>2, <2>3, <2>4, <2>5, <1>8 DEF SchedTypeOK
<1>10. FirstIsDue'
  <2>1. SUFFICES ASSUME \A y, u \in Threads : y = u
                 PROVE  ~early' /\ \A u \in Threads : thread'[u] = "timed" =>
                           taskQueue' # << >> /\ taskQueue'[1].left <= until'[u]
    BY DEF FirstIsDue
  <2>2. ~early'
    BY <2>1, <1>0, <1>1 DEF FirstIsDue
  <2>3. ASSUME NEW u \in Threads, thread'[u] = "timed"
        PROVE  taskQueue' # << >> /\ taskQueue'[1].left <= until'[u]
    <3>1. taskQueue # << >> /\ taskQueue[1].left <= until[u]
      BY <2>1, <2>3, <1>0, <1>1 DEF FirstIsDue
    <3>2. 1 \in 1..Len(taskQueue)
      BY <3>1, <1>3
    <3>3. taskQueue' # << >>
      BY <3>2, <1>5
    <3>4. taskQueue[1].left \in Nat /\ taskQueue'[1].left = Less(taskQueue[1].left)
      BY <3>2, <1>4
    <3>5. until[u] \in Nat /\ until'[u] = Less(until[u])
      BY <1>8
    <3> QED BY <3>1, <3>3, <3>4, <3>5, <1>2
  <2> QED BY <2>2, <2>3
<1> QED BY <1>9, <1>10 DEF SchedInv

\* A step of another service leaves the scheduler alone, or interrupts its threads.
LEMMA SchedStutterInv ==
  ASSUME SchedInv, UNCHANGED <<taskQueue, thread, until, task, early, known>>,
         interrupted' \in {interrupted, Threads}
  PROVE  SchedInv'
<1>1. Queued' = Queued
  BY DEF Queued
<1>2. interrupted' \subseteq Threads
  BY DEF SchedInv, SchedTypeOK
<1>3. SchedTypeOK'
  BY <1>1, <1>2 DEF SchedInv, SchedTypeOK
<1>4. FirstIsDue'
  BY DEF SchedInv, FirstIsDue
<1> QED BY <1>3, <1>4 DEF SchedInv

-----------------------------------------------------------------------------
(* Both together.                                                          *)

\* Every step of the node keeps the invariant.
LEMMA NextInv == ASSUME IInv, [Next]_vars PROVE IInv'
<1>0. HttpInv /\ SchedInv
  BY DEF IInv
<1>s. UNCHANGED schedVars => SchedInv'
  BY <1>0, SchedStutterInv DEF schedVars
<1>h. UNCHANGED httpVars => HttpInv'
  BY <1>0, HttpStutterInv
<1>1. CASE \E r \in Requests : Receive(r) /\ UNCHANGED schedVars
  BY <1>1, <1>0, <1>s, ReceiveInv DEF IInv
<1>2. CASE EventStep /\ UNCHANGED schedVars
  BY <1>2, <1>0, <1>s, EnqueueInv, LoopExitInv, SendReplyInv, UseDeletedInv
     DEF EventStep, IInv
<1>3. CASE \E w \in Workers : WorkerStep(w) /\ UNCHANGED schedVars
  BY <1>3, <1>0, <1>s, StartInv, TakeInv, ServeInv, LeaveInv, UseDeletedInv
     DEF WorkerStep, IInv
<1>4. CASE StopAccepting /\ UNCHANGED schedVars
  BY <1>4, <1>0, <1>s, StopAcceptingInv DEF IInv
<1>5. CASE MainStep
  <2>1. CASE InterruptQueue("threads") /\ UNCHANGED schedVars
    BY <2>1, <1>0, <1>s, InterruptQueueInv DEF IInv
  <2>2. CASE InterruptAll
    <3>1. HttpInv'
      BY <2>2, <1>0, StopperInv DEF InterruptAll
    <3>2. SchedInv'
      BY <2>2, <1>0, SchedStutterInv DEF InterruptAll
    <3> QED BY <3>1, <3>2 DEF IInv
  <2>3. CASE JoinAll
    <3>1. HttpInv'
      BY <2>3, <1>0, StopperInv DEF JoinAll
    <3> QED BY <3>1, <2>3, <1>s DEF IInv, JoinAll
  <2>4. CASE StopperStep /\ UNCHANGED schedVars
    BY <2>4, <1>0, <1>s, WaitExitInv, DeleteQueueInv, JoinEventInv DEF StopperStep, IInv
  <2> QED BY <1>5, <2>1, <2>2, <2>3, <2>4 DEF MainStep
<1>6. CASE \E t \in Tasks : ScheduleEvery(t) /\ UNCHANGED httpVars
  BY <1>6, <1>0, <1>h, ScheduleEveryInv DEF IInv
<1>7. CASE \E s \in Threads : ServiceStep(s) /\ UNCHANGED httpVars
  BY <1>7, <1>0, <1>h, EnterWaitInv, TimeoutInv, FinishTaskInv, ThrowInterruptedInv
     DEF ServiceStep, IInv
<1>8. CASE Tick /\ UNCHANGED httpVars
  BY <1>8, <1>0, <1>h, TickInv DEF IInv
<1>9. CASE UNCHANGED vars
  BY <1>9, <1>s, <1>h DEF vars, IInv
<1> QED BY <1>1, <1>2, <1>3, <1>4, <1>5, <1>6, <1>7, <1>8, <1>9 DEF Next

\* The inductive invariant holds in every state of the services.
THEOREM IInvHolds == Spec => []IInv
<1>1. Init => IInv
  BY HttpInitInv, SchedInitInv DEF Init, IInv
<1>2. IInv /\ [Next]_vars => IInv'
  BY NextInv
<1> QED BY <1>1, <1>2, PTL DEF Spec

\* Requests and tasks are accounted for at every moment, the work queue is deleted
\* when no worker serves a request or sleeps, and a server that has stopped has
\* replied to every request it took.
THEOREM AccountedCorrect == Spec => []AllAccounted
<1>1. IInv => AllAccounted
  <2>1. SUFFICES ASSUME IInv PROVE AllAccounted
    OBVIOUS
  <2>2. HttpTypeOK /\ SchedTypeOK /\ StopOrder /\ NobodyAsleep
    BY <2>1 DEF IInv, HttpInv, SchedInv
  <2>3. ASSUME stopper = "stopped", NEW r \in Requests
        PROVE  req[r] \in {"none", "posted", "sent"}
    <3>1. req[r] \in {"none", "dispatch", "queued", "serve", "posted", "sent"}
      BY <2>2 DEF HttpTypeOK
    <3>2. freed /\ queue = << >> /\ event = "gone" /\ \A w \in Workers : worker[w] # "serve"
      BY <2>2, <2>3 DEF StopOrder
    <3>3. req[r] # "dispatch"
      <4>1. got = None
        BY <3>2, <2>2 DEF HttpTypeOK
      <4> QED BY <4>1, <2>2, HttpAssumption DEF HttpTypeOK
    <3>4. req[r] # "queued"
      <4>1. DOMAIN queue = {}
        BY <3>2
      <4> QED BY <4>1, <2>2 DEF HttpTypeOK
    <3>5. req[r] # "serve"
      <4>1. \A w \in Workers : item[w] = None
        BY <3>2, <2>2 DEF HttpTypeOK
      <4> QED BY <4>1, <2>2, HttpAssumption DEF HttpTypeOK
    <3> QED BY <3>1, <3>3, <3>4, <3>5
  <2>4. FreedIdle
    BY <2>2 DEF StopOrder, NobodyAsleep, FreedIdle
  <2> QED BY <2>2, <2>3, <2>4 DEF AllAccounted, TypeOK, NoRequestLeaked
<1> QED BY <1>1, IInvHolds, PTL

\* With one service thread, as the node has, no task runs before its time.
THEOREM TasksNeverEarly == Spec => []NeverEarly
<1>1. IInv => NeverEarly
  <2>1. SUFFICES ASSUME IInv, Cardinality(Threads) = 1 PROVE ~early
    BY DEF NeverEarly
  <2>2. \A s, u \in Threads : s = u
    BY <2>1, FS_Singleton, SchedulerAssumption
  <2> QED BY <2>1, <2>2 DEF IInv, SchedInv, FirstIsDue
<1> QED BY <1>1, IInvHolds, PTL

=============================================================================
