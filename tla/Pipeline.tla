------------------------------ MODULE Pipeline ------------------------------
(***************************************************************************)
(* The audit path end to end: a JetStream consumer with its prefetch       *)
(* buffer, the batcher of one indexer process, the HTTP requests it has on *)
(* the way to Meilisearch, and Meilisearch's per-index task queues.        *)
(*                                                                         *)
(* Every action is the batcher's action of the same step together with what*)
(* it does to the stream (ack, nak) or to Meilisearch (a request, a task). *)
(* JetStream and Meilisearch are external: they appear as the code relies  *)
(* on them.  A message that is not acked is redelivered after a nak or once*)
(* ackWait expires; a request may be lost or land after its caller gave up;*)
(* an index applies its tasks in the order they were enqueued.             *)
(***************************************************************************)
EXTENDS Batcher

CONSTANTS
  Event,        \* Event[m]: the [dels, ups] key sets message m produces
  MaxPrefetch,  \* size of the consumer's prefetch buffer
  Troubles,     \* what may go wrong: "lose" a request, a failed "call" or "task", a
                \* lost "ack", a "crash", a "shutdown", or an "expiry" of ackWait for a
                \* message the process still holds
  MaxTrouble    \* bound on how often something goes wrong

ASSUME PipelineAssumption ==
  /\ Msg \subseteq Nat
  /\ \A m \in Msg : Event[m] \in Contents /\ Event[m].dels \cap Event[m].ups = {}

VARIABLES
  stream,    \* [Msg -> "new" | "ready" | "out" | "acked"], the consumer's view
  prefetch,  \* messages pulled and not yet handed to the handler
  wire,      \* enqueue requests on their way to Meilisearch
  landed,    \* ids of the requests Meilisearch enqueued as a task
  tasks,     \* [Index -> Seq(request)]: enqueued tasks, oldest first
  succeeded, \* ids of the tasks that finished
  failed,    \* ids of the tasks that failed
  docs,      \* [Key -> last operation applied to the document]
  covered,   \* <<message, key>> pairs an applied task carried or replaced
  run,       \* incarnation of the indexer process
  trouble    \* what went wrong so far (bounded)

streamVars == <<stream, prefetch>>
meiliVars == <<wire, landed, tasks, succeeded, failed, docs, covered>>
pipeVars == <<vars, streamVars, meiliVars, run, trouble>>

Effect ==
  [m \in Msg |-> [k \in Key |->
     IF k \in Event[m].ups THEN [isDelete |-> FALSE, src |-> m]
     ELSE IF k \in Event[m].dels THEN [isDelete |-> TRUE, src |-> m]
     ELSE NoOp]]

Held(m) ==
  \/ m \in Range(prefetch) \/ m \in Range(msgs)
  \/ \E n \in Unsettled : m \in Range(batches[n].msgs)

\* startAckProgress extends ackWait for exactly the messages of running flushes.
Heartbeated(m) == \E n \in InFlight : m \in Range(batches[n].msgs)

\* The request of group g of batch n: what AddDocumentsAsync or
\* DeleteDocumentsAsync is called with, and the messages its batch settles.
Request(n, g) ==
  [id |-> <<run, n, g>>,
   ops |-> [k \in Key |->
              IF k[1] = g[1] /\ IF g[2] = "upsert" THEN IsUpsert(batches[n].ops[k])
                                                   ELSE IsDelete(batches[n].ops[k])
              THEN batches[n].ops[k] ELSE NoOp],
   msgs |-> Range(batches[n].msgs)]

Fault(kind) == kind \in Troubles /\ trouble < MaxTrouble /\ trouble' = trouble + 1
NoFault == UNCHANGED trouble

PipeInit ==
  /\ Init
  /\ stream = [m \in Msg |-> "new"]
  /\ prefetch = <<>>
  /\ wire = {}
  /\ landed = {}
  /\ tasks = [i \in Index |-> <<>>]
  /\ succeeded = {}
  /\ failed = {}
  /\ docs = [k \in Key |-> NoOp]
  /\ covered = {}
  /\ run = 0
  /\ trouble = 0

----------------------------------------------------------------------------
(* The stream. *)

\* The consumer pulls a message: new ones in stream order, returned ones any time.
Pull(m) ==
  /\ Len(prefetch) < MaxPrefetch
  /\ \/ stream[m] = "ready"
     \/ stream[m] = "new" /\ \A x \in Msg : x < m => stream[x] # "new"
  /\ stream' = [stream EXCEPT ![m] = "out"]
  /\ prefetch' = Append(prefetch, m)
  /\ UNCHANGED <<vars, meiliVars, run, trouble>>

\* ackWait expires for a message nothing heartbeats.
Expire(m) ==
  /\ stream[m] = "out"
  /\ ~Heartbeated(m)
  /\ IF Held(m) THEN Fault("expiry") ELSE NoFault
  /\ stream' = [stream EXCEPT ![m] = "ready"]
  /\ UNCHANGED <<vars, prefetch, meiliVars, run>>

\* The Consume callback handles the next message and submits what it produced.
Handle(h) ==
  /\ prefetch # <<>>
  /\ LET m == Head(prefetch) IN Submit(h, m, Event[m].dels, Event[m].ups, TRUE)
  /\ prefetch' = Tail(prefetch)
  /\ UNCHANGED <<stream, meiliVars, run, trouble>>

----------------------------------------------------------------------------
(* Meilisearch. *)

\* The request reaches Meilisearch, which enqueues its task.
Land(r) ==
  /\ wire' = wire \ {r}
  /\ landed' = landed \cup {r.id}
  /\ tasks' = [tasks EXCEPT ![r.id[3][1]] = Append(@, r)]
  /\ UNCHANGED <<vars, streamVars, succeeded, failed, docs, covered, run, trouble>>

\* The request is lost.
Lose(r) ==
  /\ wire' = wire \ {r}
  /\ Fault("lose")
  /\ UNCHANGED <<vars, streamVars, landed, tasks, succeeded, failed, docs, covered, run>>

\* The oldest task of index i finishes, or fails and changes nothing.
Finish(i, ok) ==
  /\ tasks[i] # <<>>
  /\ LET r == Head(tasks[i])
         K == {k \in Key : r.ops[k] # NoOp}
     IN  \/ /\ ok
            /\ docs' = [k \in Key |-> IF k \in K THEN r.ops[k] ELSE docs[k]]
            /\ covered' = covered \cup
                 {c \in r.msgs \X K : Effect[c[1]][c[2]] # NoOp}
            /\ succeeded' = succeeded \cup {r.id}
            /\ NoFault
            /\ UNCHANGED failed
         \/ /\ ~ok
            /\ failed' = failed \cup {r.id}
            /\ Fault("task")
            /\ UNCHANGED <<docs, covered, succeeded>>
  /\ tasks' = [tasks EXCEPT ![i] = Tail(@)]
  /\ UNCHANGED <<vars, streamVars, wire, landed, run>>

----------------------------------------------------------------------------
(* The batcher's steps, with their effect outside. *)

\* The steps that touch neither the stream nor Meilisearch.
Internal ==
  /\ \/ Flush
     \/ StopTicker
     \/ \E l \in Launcher : LaunchStep(l)
     \/ \E n \in Taken : CloseTurn(n)
  /\ UNCHANGED <<streamVars, meiliVars, run, trouble>>

Send(n, g) ==
  /\ AcquireUpload(n, g)
  /\ wire' = wire \cup {Request(n, g)}
  /\ UNCHANGED <<streamVars, landed, tasks, succeeded, failed, docs, covered, run, trouble>>

\* The call succeeds only if its task was enqueued; it may fail either way.
Return(n, g, ok) ==
  /\ EnqueueReturn(n, g, ok)
  /\ IF ok THEN <<run, n, g>> \in landed /\ NoFault
           ELSE \/ Fault("call")
                \/ Request(n, g) \notin wire /\ <<run, n, g>> \notin landed /\ NoFault
  /\ UNCHANGED <<streamVars, meiliVars, run>>

\* WaitForTasks succeeds only if the task finished; it fails if the task failed
\* or the wait timed out.
Poll(n, g, ok) ==
  /\ WaitReturn(n, g, ok)
  /\ IF ok THEN <<run, n, g>> \in succeeded /\ NoFault
           ELSE Fault("call") \/ (<<run, n, g>> \in failed /\ NoFault)
  /\ UNCHANGED <<streamVars, meiliVars, run>>

\* A slip in the batcher: only the batch's last message is nacked, the others
\* are acked with it.
NakLastOnly(n, lost) ==
  LET ms == batches[n].msgs
  IN  /\ Settle(n)
      /\ stream' = [m \in Msg |->
           IF m \notin Range(ms) \ lost \/ stream[m] = "acked" THEN stream[m]
           ELSE IF phase'[n] = "acked" \/ m # ms[Len(ms)] THEN "acked" ELSE "ready"]
      /\ IF lost = {} THEN NoFault ELSE Fault("ack")
      /\ UNCHANGED <<prefetch, meiliVars, run>>

\* The batch's messages are all acked or all nacked; an ack or nak is sent
\* without confirmation and may be lost.
Conclude(n, lost) ==
  /\ Settle(n)
  /\ stream' = [m \in Msg |->
       IF m \notin Range(batches[n].msgs) \ lost \/ stream[m] = "acked" THEN stream[m]
       ELSE IF phase'[n] = "acked" THEN "acked" ELSE "ready"]
  /\ IF lost = {} THEN NoFault ELSE Fault("ack")
  /\ UNCHANGED <<prefetch, meiliVars, run>>

\* NewBatcher and a new consumer in the process that starts next.
Reset ==
  /\ prefetch' = <<>>
  /\ pending' = [k \in Key |-> NoOp]
  /\ pendingUpserts' = 0
  /\ msgs' = <<>>
  /\ msgSeqs' = {}
  /\ lastEnqueue' = 0
  /\ batches' = [n \in 1..0 |-> 0]
  /\ phase' = [n \in 1..0 |-> 0]
  /\ grp' = [n \in 1..0 |-> 0]
  /\ launcher' = [l \in Launcher |-> 0]
  /\ flushSem' = 0
  /\ sem' = 0
  /\ ctxDone' = FALSE
  /\ tickerAlive' = TRUE

\* A slip at shutdown: what is still buffered is acked on the way out.
ExitAcking ==
  /\ IF ctxDone THEN NoFault ELSE Fault("crash")
  /\ run' = run + 1
  /\ Reset
  /\ stream' = [m \in Msg |-> IF ctxDone /\ m \in Range(msgs) THEN "acked" ELSE stream[m]]
  /\ UNCHANGED meiliVars

\* The process exits, by SIGTERM or by crashing, and a new one starts.  What it
\* held is out until ackWait expires; its requests stay on the wire.
Exit ==
  /\ IF ctxDone THEN NoFault ELSE Fault("crash")
  /\ run' = run + 1
  /\ Reset
  /\ UNCHANGED <<stream, meiliVars>>

Shutdown ==
  /\ Cancel
  /\ Fault("shutdown")
  /\ UNCHANGED <<streamVars, meiliVars, run>>

PipeNext ==
  \/ \E m \in Msg : Pull(m) \/ Expire(m)
  \/ \E h \in Handlers : Handle(h)
  \/ Internal
  \/ \E n \in Taken, g \in Group : Send(n, g) \/ \E ok \in BOOLEAN : Return(n, g, ok) \/ Poll(n, g, ok)
  \/ \E r \in wire : Land(r) \/ Lose(r)
  \/ \E i \in Index, ok \in BOOLEAN : Finish(i, ok)
  \/ \E n \in Taken : \E lost \in SUBSET Range(batches[n].msgs) : Conclude(n, lost)
  \/ Shutdown
  \/ Exit

PipeSpec == PipeInit /\ [][PipeNext]_pipeVars

\* JetStream redelivers what is due, Meilisearch works through its queues, calls
\* and waits return, a cancelled process exits; faults need not happen.
PipeFairness ==
  /\ \A m \in Msg : WF_pipeVars(Pull(m)) /\ WF_pipeVars(~Held(m) /\ Expire(m))
  /\ \A h \in Handlers : WF_pipeVars(Handle(h))
  /\ WF_pipeVars(Flush /\ Internal)
  /\ \A l \in Launcher : WF_pipeVars(LaunchStep(l) /\ Internal)
  /\ \A n \in 1..MaxBatches :
       /\ WF_pipeVars(n \in Taken /\ CloseTurn(n) /\ Internal)
       /\ WF_pipeVars(n \in Taken /\ \E lost \in SUBSET Range(batches[n].msgs) : Conclude(n, lost))
  /\ \A n \in 1..MaxBatches, g \in Group :
       WF_pipeVars(n \in Taken /\ (Send(n, g) \/ \E ok \in BOOLEAN : Return(n, g, ok) \/ Poll(n, g, ok)))
  /\ WF_pipeVars(\E r \in wire : Land(r))
  /\ \A i \in Index : WF_pipeVars(\E ok \in BOOLEAN : Finish(i, ok))
  /\ WF_pipeVars(ctxDone /\ Exit)

FairPipeSpec == PipeSpec /\ PipeFairness

----------------------------------------------------------------------------
(* Properties. *)

\* At-least-once: a message is acked only if a task that Meilisearch finished
\* carried each of its operations, or the one that was submitted later for the same
\* document and replaced it in the buffer (after a redelivery that can be the one of
\* an older event: see Converged).  A crash, a lost request, a failed task or a
\* redelivery never makes the indexer ack a message whose operations no finished task
\* accounts for.
AckedCovered ==
  \A m \in Msg, k \in Key :
    stream[m] = "acked" /\ Effect[m][k] # NoOp => <<m, k>> \in covered

Quiescent ==
  /\ \A m \in Msg : stream[m] = "acked"
  /\ wire = {} /\ \A i \in Index : tasks[i] = <<>>

Latest(k) ==
  LET S == {m \in Msg : Effect[m][k] # NoOp}
  IN  CHOOSE m \in S : \A x \in S : x <= m

\* Once every message is acked and Meilisearch is idle, each document is what
\* the newest event about it says (command.go:224-226: redelivery "costs
\* throughput rather than correctness").
Converged ==
  Quiescent => \A k \in Key :
    (\E m \in Msg : Effect[m][k] # NoOp) => docs[k] = Effect[Latest(k)][k]

\* The same, while nothing goes wrong.
ConvergedUndisturbed == trouble = 0 => Converged

\* While nothing goes wrong, no task replaces a document by an older state
\* of it, however flushes overlap (batcher.go:150-155).
NeverOlder ==
  [][trouble' = 0 => \A k \in Key : docs[k] # NoOp /\ docs'[k] # docs[k] =>
       docs'[k].src > docs[k].src]_pipeVars

\* Every message is eventually acked, once faults stop.
EventuallyAcked == \A m \in Msg : <>(stream[m] = "acked")

Contract == INSTANCE IndexContract WITH
  acked <- {m \in Msg : stream[m] = "acked"}

\* The pipeline implements the contract, whatever fails.
ImplementsContract == Contract!Spec

=============================================================================
