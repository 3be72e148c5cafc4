----------------------------- MODULE MeiliClient ----------------------------
(***************************************************************************)
(* One call of the Meilisearch client that writes documents and waits for  *)
(* them (pkg/meilisearch/sdk_client.go): AddDocumentsAsync or              *)
(* DeleteDocumentsAsync, in chunks with retries, then WaitForTasks with one*)
(* deadline.  Meilisearch, outside, queues a task per request it gets and  *)
(* runs them in order.                                                     *)
(***************************************************************************)
EXTENDS Integers, Sequences

CONSTANTS TotalItems, ChunkSize, MaxRetries, WaitTimeout

ASSUME ClientBounds ==
  /\ TotalItems \in Nat \ {0} /\ ChunkSize \in Nat \ {0} /\ MaxRetries \in Nat \ {0}
  /\ WaitTimeout \in Nat

VARIABLES pc,        \* "send", "wait", "ok" or "error"
          next,      \* the first item of the chunk being sent
          attempt,   \* requests of that chunk so far
          tasks,     \* the tasks of the chunks sent, as positions in queue
          waited,    \* how many of them have succeeded
          queue,     \* Meilisearch's tasks: [from, to, status]
          left       \* the time left until the deadline of the wait

vars == <<pc, next, attempt, tasks, waited, queue, left>>

Smaller(a, b) == IF a < b THEN a ELSE b
ChunkEnd == Smaller(next + ChunkSize, TotalItems)
Task(status) == [from |-> next, to |-> ChunkEnd, status |-> status]

Init == /\ pc = "send" /\ next = 0 /\ attempt = 0
        /\ tasks = <<>> /\ waited = 0 /\ queue = <<>>
        /\ left = WaitTimeout

\* The request is answered with its task.
Sent ==
  /\ pc = "send" /\ next < TotalItems
  /\ queue' = Append(queue, Task("enqueued"))
  /\ tasks' = Append(tasks, Len(queue) + 1)
  /\ next' = next + ChunkSize
  /\ attempt' = 0
  /\ UNCHANGED <<pc, waited, left>>

\* Only a broken connection is retried, with the same chunk.
Retry(err) ==
  IF err = "broken" /\ attempt + 1 < MaxRetries
  THEN attempt' = attempt + 1 /\ UNCHANGED <<pc, next>>
  ELSE pc' = "error" /\ UNCHANGED <<attempt, next>>

\* The request fails; Meilisearch may have queued it before the answer was lost.
SendFails(err, landed) ==
  /\ pc = "send" /\ next < TotalItems
  /\ landed => err # "refused"
  /\ queue' = IF landed THEN Append(queue, Task("enqueued")) ELSE queue
  /\ Retry(err)
  /\ UNCHANGED <<tasks, waited, left>>

StartWaiting ==
  /\ pc = "send" /\ next >= TotalItems
  /\ pc' = "wait"
  /\ UNCHANGED <<next, attempt, tasks, waited, queue, left>>

\* Faulty variant: a task that ended counts as done.
AwaitTaskEnded ==
  /\ pc = "wait" /\ waited < Len(tasks)
  /\ queue[tasks[waited + 1]].status # "enqueued"
  /\ waited' = waited + 1
  /\ UNCHANGED <<pc, next, attempt, tasks, queue, left>>

\* waitForTaskCompletion: the next task has ended.
AwaitTask ==
  /\ pc = "wait" /\ waited < Len(tasks)
  /\ LET status == queue[tasks[waited + 1]].status IN
       /\ status # "enqueued"
       /\ IF status = "succeeded"
          THEN waited' = waited + 1 /\ UNCHANGED pc
          ELSE pc' = "error" /\ UNCHANGED waited
  /\ UNCHANGED <<next, attempt, tasks, queue, left>>

\* Faulty variant: the timeout is passed as the poll interval.
DeadlineIgnored == FALSE /\ UNCHANGED vars

\* All tasks share one deadline; a timeout of zero leaves the wait unbounded.
DeadlineExceeded ==
  /\ pc = "wait" /\ WaitTimeout > 0 /\ waited < Len(tasks) /\ left = 0
  /\ pc' = "error"
  /\ UNCHANGED <<next, attempt, tasks, waited, queue, left>>

\* A poll fails although the deadline has not passed.
PollFails ==
  /\ pc = "wait" /\ waited < Len(tasks)
  /\ pc' = "error"
  /\ UNCHANGED <<next, attempt, tasks, waited, queue, left>>

AllDone ==
  /\ pc = "wait" /\ waited = Len(tasks)
  /\ pc' = "ok"
  /\ UNCHANGED <<next, attempt, tasks, waited, queue, left>>

\* Meilisearch runs its tasks in order, also those of a caller that has given up; to the
\* caller a canceled task is one that failed.
Run(n) ==
  /\ n \in DOMAIN queue /\ queue[n].status = "enqueued"
  /\ \A k \in 1 .. n - 1 : queue[k].status # "enqueued"
  /\ \E status \in {"succeeded", "failed"} : queue' = [queue EXCEPT ![n].status = status]
  /\ UNCHANGED <<pc, next, attempt, tasks, waited, left>>

Tick == /\ pc = "wait" /\ left > 0 /\ left' = left - 1
        /\ UNCHANGED <<pc, next, attempt, tasks, waited, queue>>

Next ==
  \/ Sent \/ StartWaiting \/ AwaitTask \/ DeadlineExceeded \/ PollFails \/ AllDone \/ Tick
  \/ \E err \in {"broken", "timeout", "refused"}, landed \in BOOLEAN : SendFails(err, landed)
  \/ \E n \in DOMAIN queue : Run(n)

Spec == Init /\ [][Next]_vars

\* The caller's goroutine and the clock go on; nothing is assumed of Meilisearch.
Call == Sent \/ StartWaiting \/ AwaitTask \/ DeadlineExceeded \/ AllDone
FairSpec == Spec /\ WF_vars(Call) /\ WF_vars(Tick)

-----------------------------------------------------------------------------
(* Properties. *)

\* The type of every variable.
TypeOK ==
  /\ pc \in {"send", "wait", "ok", "error"}
  /\ next \in Nat /\ waited \in Nat /\ left \in 0 .. WaitTimeout
  /\ attempt \in 0 .. MaxRetries - 1
  /\ queue \in Seq([from : Nat, to : Nat, status : {"enqueued", "succeeded", "failed"}])
  /\ tasks \in Seq(Nat \ {0})

\* Success means that every item was written: each is in the chunk of a task that
\* succeeded, although chunks are retried and the last one is shorter (processInChunks,
\* withRetry and WaitForTasks together; the batch is acked on this answer).
OkMeansApplied ==
  pc = "ok" => \A item \in 0 .. TotalItems - 1 :
    \E n \in DOMAIN queue :
      queue[n].from <= item /\ item < queue[n].to /\ queue[n].status = "succeeded"

\* The chunks of a call are queued in order: a repeated request never lands behind a later
\* chunk (withRetry stays with its chunk).
ChunksInOrder ==
  \A m, n \in DOMAIN queue : m < n => queue[m].from <= queue[n].from

=============================================================================
