--------------------------- MODULE IndexerProofs ----------------------------
(***************************************************************************)
(* Proofs about MeiliClient for every number of items, chunk size, number  *)
(* of retries and timeout, and about IndexerProcess for every choice of    *)
(* options, ackWaits and deadlines: heartbeats keep a message that is being*)
(* flushed.                                                                *)
(***************************************************************************)
EXTENDS IndexerProcess, TLAPS

-----------------------------------------------------------------------------
(* The client. *)


\* Whether the task at position n of the queue has the item.
Holds(n, item) == queue[n].from <= item /\ item < queue[n].to

\* The items before the chunk being sent are in the tasks the caller knows.
SentCovered ==
  \A item \in 0 .. TotalItems - 1 : item < next => \E k \in DOMAIN tasks : Holds(tasks[k], item)

\* The tasks the caller knows are in the queue, and those it has waited for succeeded.
WaitedSucceeded ==
  /\ \A k \in DOMAIN tasks : tasks[k] \in DOMAIN queue
  /\ waited <= Len(tasks)
  /\ \A k \in 1 .. waited : queue[tasks[k]].status = "succeeded"

\* Waiting starts when all is sent, and success is reported when all is waited for.
Phases ==
  /\ pc \in {"wait", "ok"} => next >= TotalItems
  /\ pc = "ok" => waited = Len(tasks)

\* Nothing in the queue is ahead of the chunk being sent.
QueueOrdered == ChunksInOrder /\ \A n \in DOMAIN queue : queue[n].from <= next

IInv == TypeOK /\ SentCovered /\ WaitedSucceeded /\ Phases /\ QueueOrdered

Statuses == {"enqueued", "succeeded", "failed"}
TaskType == [from : Nat, to : Nat, status : Statuses]

\* A chunk is a task of the right type that holds the items from next to its end.
LEMMA TaskTyped ==
  ASSUME next \in Nat
  PROVE  /\ Task("enqueued") \in TaskType
         /\ Task("enqueued").from = next /\ Task("enqueued").to = ChunkEnd
         /\ ChunkEnd \in Nat
         /\ \A item \in 0 .. TotalItems - 1 :
              item < next + ChunkSize => item < ChunkEnd
BY ClientBounds DEF Task, ChunkEnd, Smaller, TaskType, Statuses

\* The invariant holds initially.
LEMMA InitIInv == Init => IInv
BY ClientBounds DEF Init, IInv, TypeOK, SentCovered, WaitedSucceeded, Phases, QueueOrdered, ChunksInOrder

\* A request that lands puts its chunk behind what is queued.
LEMMA Landing ==
  ASSUME IInv, queue' = Append(queue, Task("enqueued")), next' \in Nat, next <= next'
  PROVE  /\ queue' \in Seq(TaskType)
         /\ DOMAIN queue \subseteq DOMAIN queue'
         /\ Len(queue) + 1 \in DOMAIN queue'
         /\ \A n \in DOMAIN queue : queue'[n] = queue[n]
         /\ queue'[Len(queue) + 1] = Task("enqueued")
         /\ QueueOrdered'
<1>1. queue \in Seq(TaskType) /\ next \in Nat
  BY DEF IInv, TypeOK, TaskType, Statuses
<1>2. Task("enqueued") \in TaskType /\ Task("enqueued").from = next
  BY <1>1, TaskTyped
<1>3. /\ queue' \in Seq(TaskType) /\ Len(queue') = Len(queue) + 1
      /\ DOMAIN queue = 1 .. Len(queue) /\ DOMAIN queue' = 1 .. Len(queue) + 1
      /\ \A n \in DOMAIN queue : queue'[n] = queue[n]
      /\ queue'[Len(queue) + 1] = Task("enqueued")
      /\ Len(queue) \in Nat
  BY <1>1, <1>2
<1>4. ASSUME NEW n \in DOMAIN queue PROVE queue[n].from \in Nat /\ queue[n].from <= next
  <2>1. queue[n] \in TaskType BY <1>1
  <2> QED BY <2>1 DEF IInv, QueueOrdered, TaskType
<1>5. ASSUME NEW n \in DOMAIN queue' PROVE queue'[n].from <= next'
  <2>1. CASE n \in DOMAIN queue BY <2>1, <1>1, <1>3, <1>4
  <2>2. CASE n = Len(queue) + 1 BY <2>2, <1>2, <1>3
  <2> QED BY <2>1, <2>2, <1>3
<1>6. ASSUME NEW m \in DOMAIN queue', NEW n \in DOMAIN queue', m < n
      PROVE  queue'[m].from <= queue'[n].from
  <2>1. m \in DOMAIN queue BY <1>3, <1>6
  <2>2. CASE n \in DOMAIN queue
    BY <2>1, <2>2, <1>3, <1>6 DEF IInv, QueueOrdered, ChunksInOrder
  <2>3. CASE n = Len(queue) + 1 BY <2>1, <2>3, <1>2, <1>3, <1>4
  <2> QED BY <2>2, <2>3, <1>3
<1> QED BY <1>3, <1>5, <1>6 DEF QueueOrdered, ChunksInOrder

\* An answered request: the chunk it sent is the last task the caller knows.
LEMMA SentStep == ASSUME IInv, Sent PROVE IInv'
<1>1. /\ queue \in Seq(TaskType) /\ tasks \in Seq(Nat \ {0}) /\ next \in Nat /\ waited \in Nat
      /\ ChunkSize \in Nat \ {0} /\ TotalItems \in Nat \ {0}
  BY ClientBounds DEF IInv, TypeOK, TaskType, Statuses
<1>2. /\ queue' = Append(queue, Task("enqueued")) /\ tasks' = Append(tasks, Len(queue) + 1)
      /\ next' = next + ChunkSize /\ attempt' = 0 /\ pc = "send" /\ pc' = pc
      /\ waited' = waited /\ left' = left
  BY DEF Sent
<1>3. next' \in Nat /\ next <= next'
  BY <1>1, <1>2
<1>4. /\ queue' \in Seq(TaskType)
      /\ DOMAIN queue \subseteq DOMAIN queue'
      /\ Len(queue) + 1 \in DOMAIN queue'
      /\ \A n \in DOMAIN queue : queue'[n] = queue[n]
      /\ queue'[Len(queue) + 1] = Task("enqueued")
      /\ QueueOrdered'
  BY <1>2, <1>3, Landing
<1>5. /\ tasks' \in Seq(Nat \ {0}) /\ Len(tasks') = Len(tasks) + 1
      /\ DOMAIN tasks = 1 .. Len(tasks) /\ DOMAIN tasks' = 1 .. Len(tasks) + 1
      /\ \A k \in DOMAIN tasks : tasks'[k] = tasks[k]
      /\ tasks'[Len(tasks) + 1] = Len(queue) + 1
      /\ Len(tasks) \in Nat
  <2>1. Len(queue) + 1 \in Nat \ {0} BY <1>1
  <2> QED BY <1>1, <1>2, <2>1
<1>6. TypeOK'
  BY <1>1, <1>2, <1>3, <1>4, <1>5, ClientBounds DEF IInv, TypeOK, TaskType, Statuses
<1>7. SentCovered'
  <2> SUFFICES ASSUME NEW item \in 0 .. TotalItems - 1, item < next'
               PROVE  \E k \in DOMAIN tasks' : Holds(tasks[k], item)'
    BY DEF SentCovered
  <2>1. CASE item < next
    <3>1. PICK k \in DOMAIN tasks : Holds(tasks[k], item)
      BY <2>1 DEF IInv, SentCovered
    <3>2. tasks[k] \in DOMAIN queue BY DEF IInv, WaitedSucceeded
    <3>3. k \in DOMAIN tasks' /\ Holds(tasks[k], item)'
      BY <3>1, <3>2, <1>4, <1>5 DEF Holds
    <3> QED BY <3>3
  <2>2. CASE ~(item < next)
    <3>1. next <= item /\ item < ChunkEnd BY <2>2, <1>1, <1>2, TaskTyped
    <3>2. queue'[Len(queue) + 1].from = next /\ queue'[Len(queue) + 1].to = ChunkEnd
      BY <1>1, <1>4, TaskTyped
    <3>3. Len(tasks) + 1 \in DOMAIN tasks' BY <1>5
    <3>4. tasks'[Len(tasks) + 1] = Len(queue) + 1 BY <1>5
    <3>5. \E k \in DOMAIN tasks' : queue'[tasks'[k]].from <= item /\ item < queue'[tasks'[k]].to
      BY <3>1, <3>2, <3>3, <3>4
    <3> QED BY <3>5 DEF Holds
  <2> QED BY <2>1, <2>2
<1>8. WaitedSucceeded'
  <2>1. ASSUME NEW k \in DOMAIN tasks' PROVE tasks'[k] \in DOMAIN queue'
    <3>1. CASE k \in DOMAIN tasks BY <3>1, <1>4, <1>5 DEF IInv, WaitedSucceeded
    <3>2. CASE k = Len(tasks) + 1 BY <3>2, <1>4, <1>5
    <3> QED BY <3>1, <3>2, <1>5
  <2>2. waited' <= Len(tasks') BY <1>1, <1>2, <1>5 DEF IInv, WaitedSucceeded
  <2>3. ASSUME NEW k \in 1 .. waited' PROVE queue'[tasks'[k]].status = "succeeded"
    <3>1. k \in DOMAIN tasks /\ k \in 1 .. waited
      BY <1>1, <1>2, <1>5 DEF IInv, WaitedSucceeded
    <3>2. tasks[k] \in DOMAIN queue /\ queue[tasks[k]].status = "succeeded"
      BY <3>1 DEF IInv, WaitedSucceeded
    <3> QED BY <3>1, <3>2, <1>4, <1>5
  <2> QED BY <2>1, <2>2, <2>3 DEF WaitedSucceeded
<1>9. Phases' BY <1>2 DEF Phases
<1> QED BY <1>4, <1>6, <1>7, <1>8, <1>9 DEF IInv

\* A failed request changes nothing the caller relies on, whether it landed or not.
LEMMA SendFailsStep ==
  ASSUME IInv, NEW err, NEW landed \in BOOLEAN, SendFails(err, landed) PROVE IInv'
<1>1. /\ queue \in Seq(TaskType) /\ tasks \in Seq(Nat \ {0}) /\ next \in Nat /\ waited \in Nat
      /\ attempt \in 0 .. MaxRetries - 1 /\ MaxRetries \in Nat \ {0}
  BY ClientBounds DEF IInv, TypeOK, TaskType, Statuses
<1>2. /\ queue' = IF landed THEN Append(queue, Task("enqueued")) ELSE queue
      /\ tasks' = tasks /\ next' = next /\ waited' = waited /\ left' = left
      /\ pc = "send" /\ pc' \in {"send", "error"} /\ attempt' \in 0 .. MaxRetries - 1
  BY <1>1 DEF SendFails, Retry
<1>3. /\ queue' \in Seq(TaskType)
      /\ DOMAIN queue \subseteq DOMAIN queue'
      /\ \A n \in DOMAIN queue : queue'[n] = queue[n]
      /\ QueueOrdered'
  <2>1. CASE landed
    <3>1. queue' = Append(queue, Task("enqueued")) BY <2>1, <1>2
    <3>2. next' \in Nat /\ next <= next' BY <1>1, <1>2
    <3> QED BY <3>1, <3>2, Landing
  <2>2. CASE ~landed
    <3>1. queue' = queue BY <2>2, <1>2
    <3> QED BY <3>1, <1>1, <1>2 DEF IInv, QueueOrdered, ChunksInOrder
  <2> QED BY <2>1, <2>2
<1>4. TypeOK'
  BY <1>1, <1>2, <1>3 DEF IInv, TypeOK, TaskType, Statuses
<1>5. SentCovered'
  <2> SUFFICES ASSUME NEW item \in 0 .. TotalItems - 1, item < next'
               PROVE  \E k \in DOMAIN tasks' : Holds(tasks[k], item)'
    BY DEF SentCovered
  <2>1. PICK k \in DOMAIN tasks : Holds(tasks[k], item)
    BY <1>2 DEF IInv, SentCovered
  <2>2. tasks[k] \in DOMAIN queue BY DEF IInv, WaitedSucceeded
  <2> QED BY <2>1, <2>2, <1>2, <1>3 DEF Holds
<1>6. WaitedSucceeded'
  <2>1. \A k \in 1 .. waited : k \in DOMAIN tasks
    BY <1>1 DEF IInv, WaitedSucceeded
  <2> QED BY <2>1, <1>2, <1>3 DEF IInv, WaitedSucceeded
<1>7. Phases' BY <1>2 DEF Phases
<1> QED BY <1>3, <1>4, <1>5, <1>6, <1>7 DEF IInv

\* A task that ends was not waited for before, and keeps its chunk.
LEMMA RunStep == ASSUME IInv, NEW n, Run(n) PROVE IInv'
<1>1. queue \in Seq(TaskType) /\ tasks \in Seq(Nat \ {0}) /\ waited \in Nat
  BY DEF IInv, TypeOK, TaskType, Statuses
<1>2. PICK status \in {"succeeded", "failed"} :
        queue' = [queue EXCEPT ![n].status = status]
  BY Zenon DEF Run
<1>3. /\ n \in DOMAIN queue /\ queue[n].status = "enqueued"
      /\ pc' = pc /\ next' = next /\ attempt' = attempt /\ tasks' = tasks
      /\ waited' = waited /\ left' = left
  BY DEF Run
<1>4. queue[n] \in TaskType BY <1>1, <1>3
<1>5. [queue[n] EXCEPT !.status = status] \in TaskType
  BY <1>2, <1>4 DEF TaskType, Statuses
<1>6. /\ queue' \in Seq(TaskType) /\ DOMAIN queue' = DOMAIN queue
      /\ \A m \in DOMAIN queue : m # n => queue'[m] = queue[m]
      /\ queue'[n] = [queue[n] EXCEPT !.status = status]
  BY <1>1, <1>2, <1>3, <1>5
<1>7. \A m \in DOMAIN queue : queue'[m].from = queue[m].from /\ queue'[m].to = queue[m].to
  BY <1>4, <1>6, Zenon DEF TaskType
<1>8. TypeOK' BY <1>3, <1>6 DEF IInv, TypeOK, TaskType, Statuses
<1>9. SentCovered'
  BY <1>3, <1>7 DEF IInv, SentCovered, WaitedSucceeded, Holds
<1>10. WaitedSucceeded'
  <2>1. ASSUME NEW k \in 1 .. waited PROVE queue'[tasks[k]].status = "succeeded"
    <3>1. k \in DOMAIN tasks BY <1>1 DEF IInv, WaitedSucceeded
    <3>2. tasks[k] \in DOMAIN queue /\ queue[tasks[k]].status = "succeeded"
      BY <3>1 DEF IInv, WaitedSucceeded
    <3> QED BY <3>2, <1>3, <1>6
  <2> QED BY <2>1, <1>3, <1>6 DEF IInv, WaitedSucceeded
<1>11. Phases' BY <1>3 DEF IInv, Phases
<1>12. QueueOrdered' BY <1>3, <1>6, <1>7 DEF IInv, QueueOrdered, ChunksInOrder
<1> QED BY <1>8, <1>9, <1>10, <1>11, <1>12 DEF IInv

\* The caller's steps while it waits leave the queue alone.
LEMMA WaitStep ==
  ASSUME IInv, StartWaiting \/ AwaitTask \/ DeadlineExceeded \/ PollFails \/ AllDone \/ Tick
  PROVE  IInv'
<1>1. /\ queue' = queue /\ tasks' = tasks /\ next' = next /\ attempt' = attempt
  BY DEF StartWaiting, AwaitTask, DeadlineExceeded, PollFails, AllDone, Tick
<1>2. tasks \in Seq(Nat \ {0}) /\ waited \in Nat /\ Len(tasks) \in Nat
  BY DEF IInv, TypeOK
<1>3. SentCovered' /\ QueueOrdered'
  BY <1>1 DEF IInv, SentCovered, QueueOrdered, ChunksInOrder, Holds
<1>4. TypeOK'
  BY <1>1, ClientBounds, SMTT(30) DEF IInv, TypeOK, StartWaiting, AwaitTask, DeadlineExceeded, PollFails, AllDone, Tick
<1>5. WaitedSucceeded'
  <2>1. CASE AwaitTask
    BY <2>1, <1>1, <1>2 DEF AwaitTask, IInv, WaitedSucceeded
  <2>2. CASE StartWaiting \/ DeadlineExceeded \/ PollFails \/ AllDone \/ Tick
    <3>1. waited' = waited BY <2>2 DEF StartWaiting, DeadlineExceeded, PollFails, AllDone, Tick
    <3> QED BY <3>1, <1>1 DEF IInv, WaitedSucceeded
  <2> QED BY <2>1, <2>2
<1>6. Phases'
  BY <1>1 DEF IInv, Phases, StartWaiting, AwaitTask, DeadlineExceeded, PollFails, AllDone, Tick
<1> QED BY <1>3, <1>4, <1>5, <1>6 DEF IInv

\* Every step of a call keeps the invariant.
LEMMA NextStep == IInv /\ [Next]_vars => IInv'
<1> SUFFICES ASSUME IInv, [Next]_vars PROVE IInv' OBVIOUS
<1>1. CASE Sent BY <1>1, SentStep
<1>2. CASE StartWaiting \/ AwaitTask \/ DeadlineExceeded \/ PollFails \/ AllDone \/ Tick BY <1>2, WaitStep
<1>3. ASSUME NEW err \in {"broken", "timeout", "refused"}, NEW landed \in BOOLEAN,
             SendFails(err, landed)
      PROVE  IInv'
  BY <1>3, SendFailsStep
<1>4. ASSUME NEW n \in DOMAIN queue, Run(n) PROVE IInv' BY <1>4, RunStep
<1>5. CASE UNCHANGED vars
  BY <1>5 DEF vars, IInv, TypeOK, SentCovered, WaitedSucceeded, Phases, QueueOrdered,
              ChunksInOrder, Holds
<1> QED BY <1>1, <1>2, <1>3, <1>4, <1>5 DEF Next

\* The invariant gives what success means.
LEMMA InvApplied == IInv => OkMeansApplied
<1> SUFFICES ASSUME IInv, pc = "ok", NEW item \in 0 .. TotalItems - 1
             PROVE  \E n \in DOMAIN queue :
                      queue[n].from <= item /\ item < queue[n].to /\ queue[n].status = "succeeded"
  BY DEF OkMeansApplied
<1>1. item < next
  BY ClientBounds DEF IInv, Phases, TypeOK
<1>2. PICK k \in DOMAIN tasks : Holds(tasks[k], item)
  BY <1>1 DEF IInv, SentCovered
<1>3. k \in 1 .. waited BY DEF IInv, Phases, TypeOK
<1>4. tasks[k] \in DOMAIN queue /\ queue[tasks[k]].status = "succeeded"
  BY <1>3 DEF IInv, WaitedSucceeded
<1> QED BY <1>2, <1>4 DEF Holds

\* The inductive invariant of the call, for every step of Next.
THEOREM ClientInvariance == Spec => []IInv
BY InitIInv, NextStep, PTL DEF Spec

\* A successful call has written every item, whatever the number of items, the chunk size
\* and the retries (processInChunks, withRetry, WaitForTasks).
THEOREM OkAlwaysApplied == Spec => []OkMeansApplied
BY InvApplied, ClientInvariance, PTL

\* The chunks of a call are queued in order, with retries (withRetry).
THEOREM ChunksAlwaysInOrder == Spec => []ChunksInOrder
<1>1. IInv => ChunksInOrder BY DEF IInv, QueueOrdered
<1> QED BY <1>1, ClientInvariance, PTL

-----------------------------------------------------------------------------
(* The process. *)


\* The values of the variables the argument is about.
ProcessTypeOK ==
  /\ options \in Options /\ live \in LiveAckWaits
  /\ checked \in [Consumers -> Nat]
  /\ consumers \in [Consumers -> {"none", "running", "returned"}]
  /\ age \in Nat /\ held \in Nat /\ beat \in Nat /\ missed \in Nat

\* Past its look-up the audit consumer's ackWait has been checked.
CheckedAudit ==
  phase \in {"reindex", "client", "serving"} => CheckAckWait(checked["audit"])

\* Only a process that serves has consumers, and only its audit consumer has a copy.
ServingOnly ==
  /\ \A c \in Consumers : consumers[c] # "none" => phase = "serving"
  /\ copy # "none" => phase = "serving"

\* JetStream last heard of a message that waits in the buffer when it delivered it.  During
\* the flush the next heartbeat comes at most one interval later, or two after a lost one.
AgeBounded ==
  message = "out" =>
    /\ copy = "buffered" => age <= held
    /\ copy = "flushing" /\ missed = 0 => age + beat <= held + options.progress
    /\ copy = "flushing" /\ missed = 1 => age + beat <= held + 2 * options.progress

ProcessInv == ProcessTypeOK /\ CheckedAudit /\ ServingOnly /\ AgeBounded

\* A factor of at least k covers k intervals.
LEMMA Multiples == ASSUME NEW k \in Nat, NEW f \in Nat, NEW p \in Nat, f >= k
                   PROVE  k * p <= f * p
OBVIOUS

-----------------------------------------------------------------------------
\* The process drives the client, or ends its call.
LEMMA ClientSteps ==
  ASSUME [ProcessNext]_allVars PROVE [Next]_vars \/ HangUp
<1>1. CASE UNCHANGED vars BY <1>1
<1>2. CASE CallStep
  <2>1. CASE Call \/ PollFails
    BY <2>1 DEF Call, Next
  <2>2. CASE \E err \in {"broken", "timeout", "refused"}, landed \in BOOLEAN : SendFails(err, landed)
    BY <2>2 DEF Next
  <2> QED BY <1>2, <2>1, <2>2 DEF CallStep
<1>3. CASE RunTask BY <1>3, Zenon DEF RunTask, Next
<1>4. CASE Advance
  <2>1. CASE Tick BY <2>1 DEF Next
  <2> QED BY <1>1, <1>4, <2>1 DEF Advance
<1>5. CASE ~(CallStep \/ RunTask \/ Advance \/ UNCHANGED vars)
  BY <1>5 DEF ProcessNext, allVars, Launch, ServeMetrics, RegisterHandlers, WaitForCacheSync,
     ConnectNATS, StartStep, LookUp, StartConsumers, FeedPolicies, CacheFatal, Cancel, Return,
     Deliver, StartFlush, Heartbeat, Settle, Expire, ReconcileConsumer, Die
<1> QED BY <1>1, <1>2, <1>3, <1>4, <1>5

\* A call that is over leaves the client as it was at first.
LEMMA HangUpStep == ASSUME HangUp PROVE IInv'
BY ClientBounds DEF HangUp, IInv, TypeOK, SentCovered, WaitedSucceeded, Phases, QueueOrdered, ChunksInOrder

\* The invariants hold before the first start.
LEMMA InitProcessInv == ProcessInit => IInv /\ ProcessInv
<1> SUFFICES ASSUME ProcessInit PROVE IInv /\ ProcessInv OBVIOUS
<1>1. IInv BY InitIInv DEF ProcessInit
<1>2. ProcessTypeOK BY ProcessBounds DEF ProcessInit, ProcessTypeOK, Unchecked, NoConsumers
<1>3. CheckedAudit /\ ServingOnly /\ AgeBounded
  BY DEF ProcessInit, CheckedAudit, ServingOnly, AgeBounded, NoConsumers
<1> QED BY <1>1, <1>2, <1>3 DEF ProcessInv

\* A process that ends takes its copy and its heartbeats with it.
LEMMA DieStep == ASSUME ProcessInv, Die PROVE ProcessInv'
<1>1. ProcessTypeOK' BY DEF ProcessInv, ProcessTypeOK, Die, Unchecked, NoConsumers
<1>2. CheckedAudit' /\ ServingOnly' /\ AgeBounded'
  BY DEF Die, CheckedAudit, ServingOnly, AgeBounded, NoConsumers
<1> QED BY <1>1, <1>2 DEF ProcessInv

\* Starting up moves the process on, and the audit consumer's look-up checks its ackWait.
LEMMA StartUpStep ==
  ASSUME ProcessInv,
         Launch \/ ServeMetrics \/ RegisterHandlers \/ WaitForCacheSync \/ ConnectNATS
         \/ LookUp("audit", "reindex") \/ LookUp("reindex", "client") \/ StartConsumers
         \/ FeedPolicies
  PROVE  ProcessInv'
<1>2. CASE Die BY <1>2, DieStep
<1>3. CASE ~Die
  <2>1. /\ options' = options /\ live' = live
        /\ age' = age /\ held' = held /\ beat' = beat /\ missed' = missed
        /\ message' = message /\ copy' = copy
    BY <1>3 DEF Launch, ServeMetrics, RegisterHandlers, WaitForCacheSync, ConnectNATS, StartStep,
           LookUp, StartConsumers, FeedPolicies, Goto, deliveryVars
  <2>2. ProcessTypeOK'
    <3>1. checked' \in [Consumers -> Nat]
      <4>1. live \in [Consumers -> Nat] BY ProcessBounds DEF ProcessInv, ProcessTypeOK
      <4> QED
        BY <1>3, <4>1 DEF Launch, ServeMetrics, RegisterHandlers, WaitForCacheSync, ConnectNATS,
               StartStep, LookUp, StartConsumers, FeedPolicies, ProcessInv, ProcessTypeOK, Consumers
    <3>2. consumers' \in [Consumers -> {"none", "running", "returned"}]
      BY <1>3 DEF Launch, ServeMetrics, RegisterHandlers, WaitForCacheSync, ConnectNATS,
             StartStep, LookUp, StartConsumers, FeedPolicies, ProcessInv, ProcessTypeOK
    <3> QED BY <2>1, <3>1, <3>2 DEF ProcessInv, ProcessTypeOK
  <2>3. CheckedAudit'
    <3>1. CASE LookUp("audit", "reindex")
      BY <1>3, <3>1, <2>1 DEF LookUp, CheckedAudit, CheckAckWait, ProcessInv, ProcessTypeOK, Consumers
    <3>2. CASE LookUp("reindex", "client")
      BY <1>3, <3>2, <2>1 DEF LookUp, CheckedAudit, CheckAckWait, ProcessInv, ProcessTypeOK, Consumers
    <3>3. CASE ~(LookUp("audit", "reindex") \/ LookUp("reindex", "client"))
      BY <1>3, <3>3, <2>1 DEF Launch, ServeMetrics, RegisterHandlers, WaitForCacheSync,
             ConnectNATS, StartStep, StartConsumers, FeedPolicies, Goto, CheckedAudit, CheckAckWait,
             ProcessInv
    <3> QED BY <3>1, <3>2, <3>3
  <2>4. ServingOnly'
    BY <1>3, <2>1 DEF Launch, ServeMetrics, RegisterHandlers, WaitForCacheSync, ConnectNATS,
           StartStep, LookUp, StartConsumers, FeedPolicies, Goto, ProcessInv, ServingOnly
  <2>5. AgeBounded'
    BY <2>1 DEF ProcessInv, AgeBounded
  <2> QED BY <2>2, <2>3, <2>4, <2>5 DEF ProcessInv
<1> QED BY <1>2, <1>3

\* The steps of the message and of the flush.
LEMMA MessageStep ==
  ASSUME ProcessInv,
         Deliver \/ StartFlush \/ Heartbeat \/ Settle \/ Expire \/ Advance
  PROVE  ProcessInv'
<1> DEFINE p == options.progress
<1>1. /\ p \in Nat /\ age \in Nat /\ held \in Nat /\ beat \in Nat /\ missed \in Nat
  BY ProcessBounds DEF ProcessInv, ProcessTypeOK
<1>2. /\ options' = options /\ phase' = phase /\ checked' = checked /\ consumers' = consumers
      /\ live' = live
  BY DEF Deliver, StartFlush, Heartbeat, Settle, Expire, Advance, processVars
<1>3. CheckedAudit' BY <1>2 DEF ProcessInv, CheckedAudit, CheckAckWait
<1>4. ServingOnly'
  BY <1>2 DEF ProcessInv, ServingOnly, Deliver, StartFlush, Heartbeat, Settle, Expire, Advance, Consumers
<1>5. age' \in Nat /\ held' \in Nat /\ beat' \in Nat /\ missed' \in Nat
  BY <1>1 DEF Deliver, StartFlush, Heartbeat, Settle, Expire, Advance, Older
<1>6. ProcessTypeOK' BY <1>2, <1>5 DEF ProcessInv, ProcessTypeOK
<1>8. AgeBounded'
  <2>1. CASE Deliver BY <2>1, <1>1 DEF Deliver, AgeBounded
  <2>2. CASE StartFlush BY <2>2, <1>1, <1>2 DEF StartFlush, AgeBounded, ProcessInv
  <2>3. CASE Heartbeat BY <2>3, <1>1, <1>2 DEF Heartbeat, AgeBounded, ProcessInv
  <2>4. CASE Settle \/ Expire BY <2>4 DEF Settle, Expire, AgeBounded
  <2>5. CASE Advance BY <2>5, <1>1, <1>2 DEF Advance, Older, AgeBounded, ProcessInv
  <2> QED BY <2>1, <2>2, <2>3, <2>4, <2>5
<1> QED BY <1>3, <1>4, <1>6, <1>8 DEF ProcessInv

\* Every step of the process keeps both invariants.
LEMMA ProcessStep == IInv /\ ProcessInv /\ [ProcessNext]_allVars => IInv' /\ ProcessInv'
<1> SUFFICES ASSUME IInv, ProcessInv, [ProcessNext]_allVars PROVE IInv' /\ ProcessInv'
  OBVIOUS
<1>1. [Next]_vars \/ HangUp BY ClientSteps
<1>2. IInv' BY <1>1, NextStep, HangUpStep
<1>3. CASE Launch \/ ServeMetrics \/ RegisterHandlers \/ WaitForCacheSync \/ ConnectNATS
           \/ LookUp("audit", "reindex") \/ LookUp("reindex", "client") \/ StartConsumers
           \/ FeedPolicies
  BY <1>2, <1>3, StartUpStep
<1>4. CASE CacheFatal \/ Cancel \/ Return
  BY <1>2, <1>4, DieStep DEF CacheFatal, Cancel, Return
<1>5. CASE Deliver \/ StartFlush \/ Heartbeat \/ Settle \/ Expire \/ Advance
  BY <1>2, <1>5, MessageStep
<1>6. CASE CallStep \/ RunTask \/ UNCHANGED allVars
  <2>1. UNCHANGED <<processVars, deliveryVars>>
    BY <1>6 DEF CallStep, RunTask, allVars, processVars, deliveryVars
  <2> QED BY <1>2, <2>1 DEF ProcessInv, ProcessTypeOK, CheckedAudit, CheckAckWait, ServingOnly,
             AgeBounded, processVars, deliveryVars
<1>7. CASE ReconcileConsumer
  BY <1>2, <1>7 DEF ReconcileConsumer, ProcessInv, ProcessTypeOK, CheckedAudit, CheckAckWait,
     ServingOnly, AgeBounded, processVars
<1> QED BY <1>2, <1>3, <1>4, <1>5, <1>6, <1>7 DEF ProcessNext

\* The inductive invariant of the process and of the call it makes.
THEOREM ProcessInvariance == ProcessSpec => [](IInv /\ ProcessInv)
BY InitProcessInv, ProcessStep, PTL DEF ProcessSpec

\* JetStream gives up on a message during its flush only after a heartbeat was lost, its
\* ackWait changed, or it had waited in the buffer for an interval (startAckProgress,
\* checkAckWait): for every interval and every ackWait the start-up accepts.
THEOREM HeartbeatsKeep == ProcessSpec => HeartbeatKeeps
<1>1. ProcessInv /\ [ProcessNext]_allVars =>
        [message = "out" /\ message' = "stream" /\ copy = "flushing" /\ copy' = "flushing" =>
           \/ held >= options.progress
           \/ live["audit"] # checked["audit"]
           \/ missed > Spare]_allVars
  <2> SUFFICES ASSUME ProcessInv, ProcessNext, message = "out", message' = "stream",
                      copy = "flushing", copy' = "flushing"
               PROVE  \/ held >= options.progress
                      \/ live["audit"] # checked["audit"]
                      \/ missed > Spare
    OBVIOUS
  <2>1. /\ options.progress \in Nat /\ checked["audit"] \in Nat
        /\ age \in Nat /\ held \in Nat /\ beat \in Nat /\ missed \in Nat
    BY ProcessBounds DEF ProcessInv, ProcessTypeOK, Consumers
  <2>2. Spare \in {0, 1} BY DEF Spare
  <2> SUFFICES ASSUME held < options.progress, live["audit"] = checked["audit"], missed <= Spare
               PROVE  FALSE
    BY <2>1, <2>2, SMTT(30)
  <2>3. Expire
    BY Zenon DEF ProcessNext, Launch, ServeMetrics, RegisterHandlers, WaitForCacheSync, ConnectNATS,
           StartStep, LookUp, StartConsumers, FeedPolicies, CacheFatal, Cancel, Return, Die,
           Deliver, StartFlush, CallStep, RunTask, Heartbeat, Settle, Advance,
           ReconcileConsumer, deliveryVars
  <2>4. age >= checked["audit"] BY <2>3 DEF Expire
  <2>5. 2 * options.progress <= checked["audit"]
    <3>1. HeartbeatHardFloor \in Nat /\ HeartbeatHardFloor >= 2
      BY ProcessBounds, HeartbeatFactors
    <3>2. 2 * options.progress <= HeartbeatHardFloor * options.progress
      BY <2>1, <3>1, Multiples
    <3>3. HeartbeatHardFloor * options.progress <= checked["audit"]
      BY DEF ProcessInv, ServingOnly, CheckedAudit, CheckAckWait
    <3>4. HeartbeatHardFloor * options.progress \in Nat BY <2>1, <3>1
    <3> QED BY <2>1, <3>2, <3>3, <3>4
  <2>6. Spare = 1 => 3 * options.progress <= checked["audit"]
    <3>1. HeartbeatMargin \in Nat /\ HeartbeatMargin >= 3
      BY ProcessBounds, HeartbeatFactors
    <3>2. 3 * options.progress <= HeartbeatMargin * options.progress
      BY <2>1, <3>1, Multiples
    <3>3. Spare = 1 => HeartbeatMargin * options.progress <= checked["audit"] BY DEF Spare
    <3>4. HeartbeatMargin * options.progress \in Nat BY <2>1, <3>1
    <3> QED BY <2>1, <3>2, <3>3, <3>4
  <2>7. CASE missed = 0
    BY <2>1, <2>4, <2>5, <2>7 DEF ProcessInv, AgeBounded
  <2>8. CASE missed = 1
    BY <2>1, <2>2, <2>4, <2>6, <2>8 DEF ProcessInv, AgeBounded
  <2> QED BY <2>1, <2>2, <2>7, <2>8
<1> QED BY <1>1, ProcessInvariance, PTL DEF ProcessSpec, HeartbeatKeeps

\* Every call the process makes, flush after flush and start after start, is one of the
\* client's: success means that every item was written (performFlush).
THEOREM OkAppliedInProcess == ProcessSpec => []OkMeansApplied
BY InvApplied, ProcessInvariance, PTL

=============================================================================
