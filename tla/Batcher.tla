------------------------------ MODULE Batcher ------------------------------
(***************************************************************************)
(* The batching core of the resource indexer (internal/indexer/batcher.go):*)
(* the buffer of latest operations per document, the batches taken from it,*)
(* the turn that orders their Meilisearch enqueue calls, the in-flight     *)
(* flush slots, the upload semaphore, and the settlement (ack or nak) of a *)
(* batch's messages.                                                       *)
(*                                                                         *)
(* Concurrency is the code's: every goroutine that calls Submit (Handlers, *)
(* one per JetStream consumer), the ticker goroutine of runBatcher, one    *)
(* performFlush goroutine per launched batch, and inside it one goroutine  *)
(* per (index, kind) task group.  b.mu makes Submit's buffering and        *)
(* takeBatch one atomic step; launchFlush runs after the unlock.           *)
(*                                                                         *)
(* Batches are numbered in the order takeBatch took them.  Batch n's       *)
(* turn.prev is the done channel of batch n - 1, and 0 stands for the      *)
(* closed channel NewBatcher starts with.                                  *)
(***************************************************************************)
EXTENDS Integers, Sequences, FiniteSets, Functions

CONSTANTS
  Index,        \* index UIDs
  DocID,        \* document UIDs
  Msg,          \* stream messages, identified by their stream sequence
  Contents,     \* the [dels, ups] pairs of key sets one Submit may carry
  Handlers,     \* goroutines that call Submit (JetStream callbacks)
  Ticker,       \* the runBatcher goroutine
  NoOp,         \* absence of a buffered operation
  BatchSize,    \* BatchConfig.BatchSize
  MaxInFlight,  \* cap(flushSem)
  MaxUploads,   \* cap(sem)
  MaxBatches    \* bound of the model: how many batches are ever taken

Key == Index \X DocID                    \* "indexUID/docID"
Kind == {"upsert", "delete"}
Group == Index \X Kind                   \* one Meilisearch call of a flush
Op == [isDelete : BOOLEAN, src : Msg]    \* a document is named by its source
Launcher == Handlers \cup {Ticker}

ASSUME SizesAssumption ==
  /\ BatchSize \in Nat \ {0}
  /\ MaxInFlight \in Nat \ {0}
  /\ MaxUploads \in Nat \ {0}
  /\ MaxBatches \in Nat

ASSUME SetsAssumption ==
  /\ IsFiniteSet(Index)
  /\ IsFiniteSet(DocID)
  /\ IsFiniteSet(Handlers)
  /\ Ticker \notin Handlers
  /\ NoOp \notin Op
  /\ \A c \in Contents : c.dels \subseteq Key /\ c.ups \subseteq Key

VARIABLES
  pending,         \* [Key -> Op or NoOp]: latest buffered operation per key
  pendingUpserts,  \* the running count of upserts among them
  msgs,            \* messages waiting for the next batch's settlement
  msgSeqs,         \* stream sequences already in msgs
  lastEnqueue,     \* number of the most recently taken batch
  batches,         \* batches[n]: the operations and messages of batch n
  phase,           \* where batch n is in launchFlush / performFlush
  grp,             \* grp[n][g]: where the task group g of batch n is
  launcher,        \* the batch a launcher goroutine is blocked on, 0 if none
  flushSem,        \* occupied in-flight flush slots
  sem,             \* occupied upload slots
  ctxDone,         \* the context handed to Start is cancelled
  tickerAlive      \* runBatcher has not returned

buffer == <<pending, pendingUpserts, msgs, msgSeqs>>
taken  == <<lastEnqueue, batches>>
vars == <<buffer, taken, phase, grp, launcher, flushSem, sem, ctxDone,
          tickerAlive>>

Phases == {"turn", "slot", "enqueue", "wait", "acked", "nacked", "abandoned"}
GroupStates == {"none", "queued", "upload", "polling", "ok", "failed"}

Batch == [ops : [Key -> Op \cup {NoOp}], msgs : Seq(Msg)]

----------------------------------------------------------------------------
(* Reading the state. *)

Taken == 1..lastEnqueue

IsUpsert(op) == op # NoOp /\ ~op.isDelete
IsDelete(op) == op # NoOp /\ op.isDelete

UpsertKeys(p) == {k \in Key : IsUpsert(p[k])}

\* turn.done of batch n is closed: it has enqueued its tasks, or given up.
Closed(n) == n # 0 => phase[n] \in {"wait", "acked", "nacked", "abandoned"}

\* Batch n got past awaitTurn, so it may issue enqueue calls.
Started(n) == phase[n] \in {"slot", "enqueue", "wait", "acked", "nacked"}

InFlight == {n \in Taken : phase[n] \in {"enqueue", "wait"}}
Unsettled == {n \in Taken : phase[n] \in {"turn", "slot", "enqueue", "wait"}}
Uploading == {x \in Taken \X Group : grp[x[1]][x[2]] = "upload"}

----------------------------------------------------------------------------
(* NewBatcher: lastEnqueue starts closed, the buffer is empty. *)
Init ==
  /\ pending = [k \in Key |-> NoOp]
  /\ pendingUpserts = 0
  /\ msgs = <<>>
  /\ msgSeqs = {}
  /\ lastEnqueue = 0
  /\ batches = [n \in 1..0 |-> 0]
  /\ phase = [n \in 1..0 |-> 0]
  /\ grp = [n \in 1..0 |-> 0]
  /\ launcher = [l \in Launcher |-> 0]
  /\ flushSem = 0
  /\ sem = 0
  /\ ctxDone = FALSE
  /\ tickerAlive = TRUE

\* The function f with one more value v at the new batch number.
Extend(f, v) ==
  [n \in 1..(lastEnqueue + 1) |-> IF n = lastEnqueue + 1 THEN v ELSE f[n]]

\* The buffered operations after setPending of every delete, then every upsert.
Buffered(m, dels, ups) ==
  [k \in Key |-> IF k \in ups THEN [isDelete |-> FALSE, src |-> m]
                 ELSE IF k \in dels THEN [isDelete |-> TRUE, src |-> m]
                 ELSE pending[k]]

\* pendingUpserts after the same setPending calls: a replaced upsert leaves
\* the count, a new one enters it.
CountAfter(dels, ups) ==
  LET upserts == UpsertKeys(pending)
  IN  pendingUpserts - Cardinality(dels \cap upserts)
        - Cardinality(ups \cap (upserts \ dels)) + Cardinality(ups)

\* trackMessage: a message whose metadata cannot be read is always appended.
Tracked(m, metaOK) ==
  IF metaOK /\ m \in msgSeqs THEN msgs ELSE Append(msgs, m)

\* A slip in takeBatch: the pending map is not reset.
TakeBatchKeepingPending(l, p, ms) ==
  /\ lastEnqueue' = lastEnqueue + 1
  /\ batches' = Extend(batches, [ops |-> p, msgs |-> ms])
  /\ phase' = Extend(phase, "turn")
  /\ grp' = Extend(grp, [g \in Group |-> "none"])
  /\ launcher' = [launcher EXCEPT ![l] = lastEnqueue + 1]
  /\ pending' = p
  /\ pendingUpserts' = 0
  /\ msgs' = <<>>
  /\ msgSeqs' = {}

\* takeBatch by goroutine l, of the buffer p and the messages ms.
TakeBatch(l, p, ms) ==
  /\ lastEnqueue' = lastEnqueue + 1
  /\ batches' = Extend(batches, [ops |-> p, msgs |-> ms])
  /\ phase' = Extend(phase, "turn")
  /\ grp' = Extend(grp, [g \in Group |-> "none"])
  /\ launcher' = [launcher EXCEPT ![l] = lastEnqueue + 1]
  /\ pending' = [k \in Key |-> NoOp]
  /\ pendingUpserts' = 0
  /\ msgs' = <<>>
  /\ msgSeqs' = {}

\* The flush triggers Submit evaluates once, after buffering a whole message.
Due(ms, n) == Len(ms) >= BatchSize \/ n >= BatchSize

\* Submit(msg, upserts, deletes) by handler h: one lock hold.
Submit(h, m, dels, ups, metaOK) ==
  /\ launcher[h] = 0
  /\ lastEnqueue < MaxBatches
  /\ dels \cup ups # {}
  /\ LET p  == Buffered(m, dels, ups)
         n  == CountAfter(dels, ups)
         ms == Tracked(m, metaOK)
     IN  \/ /\ Due(ms, n)
            /\ TakeBatch(h, p, ms)
         \/ /\ ~Due(ms, n)
            /\ pending' = p
            /\ pendingUpserts' = n
            /\ msgs' = ms
            /\ msgSeqs' = IF metaOK THEN msgSeqs \cup {m} ELSE msgSeqs
            /\ UNCHANGED <<taken, phase, grp, launcher>>
  /\ UNCHANGED <<flushSem, sem, ctxDone, tickerAlive>>

\* A tick of runBatcher: flush takes whatever is buffered.
Flush ==
  /\ tickerAlive
  /\ launcher[Ticker] = 0
  /\ msgs # <<>> \/ \E k \in Key : pending[k] # NoOp
  /\ TakeBatch(Ticker, pending, msgs)
  /\ UNCHANGED <<flushSem, sem, ctxDone, tickerAlive>>

\* runBatcher returns once its context is done.
StopTicker ==
  /\ ctxDone
  /\ tickerAlive
  /\ launcher[Ticker] = 0
  /\ tickerAlive' = FALSE
  /\ UNCHANGED <<buffer, taken, phase, grp, launcher, flushSem, sem, ctxDone>>

\* The context handed to Start is cancelled (SIGTERM).
Cancel ==
  /\ ~ctxDone
  /\ ctxDone' = TRUE
  /\ UNCHANGED <<buffer, taken, phase, grp, launcher, flushSem, sem, tickerAlive>>

----------------------------------------------------------------------------
(* launchFlush, by the goroutine that took the batch. *)

\* A slip in awaitTurn: the turn is not awaited.
AwaitNothing(l) ==
  LET n == launcher[l]
  IN  /\ n # 0
      /\ phase[n] = "turn"
      /\ phase' = [phase EXCEPT ![n] = "slot"]
      /\ UNCHANGED <<buffer, taken, grp, launcher, flushSem, sem, ctxDone,
                     tickerAlive>>

\* awaitTurn returns true: the previous batch closed its turn.
AwaitTurn(l) ==
  LET n == launcher[l]
  IN  /\ n # 0
      /\ phase[n] = "turn"
      /\ Closed(n - 1)
      /\ phase' = [phase EXCEPT ![n] = "slot"]
      /\ UNCHANGED <<buffer, taken, grp, launcher, flushSem, sem, ctxDone,
                     tickerAlive>>

\* The groups performFlush starts: one call per index and kind present.
StartGroups(ops) ==
  [g \in Group |->
     IF \E k \in Key : /\ k[1] = g[1]
                       /\ IF g[2] = "upsert" THEN IsUpsert(ops[k])
                                             ELSE IsDelete(ops[k])
     THEN "queued" ELSE "none"]

\* acquireFlushSlot returns true: performFlush starts, the launcher returns.
AcquireFlushSlot(l) ==
  LET n == launcher[l]
  IN  /\ n # 0
      /\ phase[n] = "slot"
      /\ flushSem < MaxInFlight
      /\ flushSem' = flushSem + 1
      /\ phase' = [phase EXCEPT ![n] = "enqueue"]
      /\ grp' = [grp EXCEPT ![n] = StartGroups(batches[n].ops)]
      /\ launcher' = [launcher EXCEPT ![l] = 0]
      /\ UNCHANGED <<buffer, taken, sem, ctxDone, tickerAlive>>

\* awaitTurn or acquireFlushSlot saw the context done: the batch is abandoned,
\* neither acked nor nacked, and its turn is closed.
Abandon(l) ==
  LET n == launcher[l]
  IN  /\ n # 0
      /\ ctxDone
      /\ phase' = [phase EXCEPT ![n] = "abandoned"]
      /\ launcher' = [launcher EXCEPT ![l] = 0]
      /\ UNCHANGED <<buffer, taken, grp, flushSem, sem, ctxDone, tickerAlive>>

----------------------------------------------------------------------------
(* performFlush. *)

SetGroup(n, g, s) == grp' = [grp EXCEPT ![n] = [@ EXCEPT ![g] = s]]

\* A slip in run: the upload semaphore is not taken.
UploadWithoutSlot(n, g) ==
  /\ grp[n][g] = "queued"
  /\ SetGroup(n, g, "upload")
  /\ sem' = sem + 1
  /\ UNCHANGED <<buffer, taken, phase, launcher, flushSem, ctxDone, tickerAlive>>

\* A group's goroutine takes an upload slot and issues its enqueue call.
AcquireUpload(n, g) ==
  /\ grp[n][g] = "queued"
  /\ sem < MaxUploads
  /\ sem' = sem + 1
  /\ SetGroup(n, g, "upload")
  /\ UNCHANGED <<buffer, taken, phase, launcher, flushSem, ctxDone, tickerAlive>>

\* A slip in run: a failed call returns before the slot is released.
EnqueueReturnLeaking(n, g, ok) ==
  /\ grp[n][g] = "upload"
  /\ sem' = IF ok THEN sem - 1 ELSE sem
  /\ SetGroup(n, g, IF ok THEN "polling" ELSE "failed")
  /\ UNCHANGED <<buffer, taken, phase, launcher, flushSem, ctxDone, tickerAlive>>

\* The enqueue call returns; on error the group is finished as failed.
EnqueueReturn(n, g, ok) ==
  /\ grp[n][g] = "upload"
  /\ sem' = sem - 1
  /\ SetGroup(n, g, IF ok THEN "polling" ELSE "failed")
  /\ UNCHANGED <<buffer, taken, phase, launcher, flushSem, ctxDone, tickerAlive>>

\* A slip in performFlush: the turn closes while calls are outstanding.
CloseTurnEarly(n) ==
  /\ phase[n] = "enqueue"
  /\ phase' = [phase EXCEPT ![n] = "wait"]
  /\ UNCHANGED <<buffer, taken, grp, launcher, flushSem, sem, ctxDone,
                 tickerAlive>>

\* enqueueWG.Wait returns: every group has enqueued or failed, the turn closes.
CloseTurn(n) ==
  /\ phase[n] = "enqueue"
  /\ \A g \in Group : grp[n][g] \notin {"queued", "upload"}
  /\ phase' = [phase EXCEPT ![n] = "wait"]
  /\ UNCHANGED <<buffer, taken, grp, launcher, flushSem, sem, ctxDone,
                 tickerAlive>>

\* WaitForTasks returns for one group.
WaitReturn(n, g, ok) ==
  /\ grp[n][g] = "polling"
  /\ SetGroup(n, g, IF ok THEN "ok" ELSE "failed")
  /\ UNCHANGED <<buffer, taken, phase, launcher, flushSem, sem, ctxDone,
                 tickerAlive>>

\* A slip in performFlush: failures are logged, the batch is acked anyway.
SettleAckingFailures(n) ==
  /\ phase[n] = "wait"
  /\ \A g \in Group : grp[n][g] \in {"none", "ok", "failed"}
  /\ phase' = [phase EXCEPT ![n] = "acked"]
  /\ flushSem' = flushSem - 1
  /\ UNCHANGED <<buffer, taken, grp, launcher, sem, ctxDone, tickerAlive>>

\* wg.Wait returns: nak the whole batch if any group failed, else ack it, and
\* release the flush slot.
Settle(n) ==
  /\ phase[n] = "wait"
  /\ \A g \in Group : grp[n][g] \in {"none", "ok", "failed"}
  /\ phase' = [phase EXCEPT ![n] =
                 IF \E g \in Group : grp[n][g] = "failed" THEN "nacked" ELSE "acked"]
  /\ flushSem' = flushSem - 1
  /\ UNCHANGED <<buffer, taken, grp, launcher, sem, ctxDone, tickerAlive>>

----------------------------------------------------------------------------
LaunchStep(l) == AwaitTurn(l) \/ AcquireFlushSlot(l) \/ Abandon(l)

GroupStep(n, g) ==
  \/ AcquireUpload(n, g)
  \/ \E ok \in BOOLEAN : EnqueueReturn(n, g, ok) \/ WaitReturn(n, g, ok)

Next ==
  \/ \E h \in Handlers, m \in Msg, c \in Contents, metaOK \in BOOLEAN :
       Submit(h, m, c.dels, c.ups, metaOK)
  \/ Flush
  \/ StopTicker
  \/ Cancel
  \/ \E l \in Launcher : LaunchStep(l)
  \/ \E n \in Taken : CloseTurn(n) \/ Settle(n)
  \/ \E n \in Taken, g \in Group : GroupStep(n, g)

Spec == Init /\ [][Next]_vars

----------------------------------------------------------------------------
(* Properties. *)

\* The type of every variable: the buffer, the batches taken so far and the two semaphores.
TypeOK ==
  /\ pending \in [Key -> Op \cup {NoOp}]
  /\ pendingUpserts \in Nat
  /\ msgs \in Seq(Msg)
  /\ msgSeqs \in SUBSET Msg
  /\ lastEnqueue \in Nat
  /\ batches \in [Taken -> Batch]
  /\ phase \in [Taken -> Phases]
  /\ grp \in [Taken -> [Group -> GroupStates]]
  /\ launcher \in [Launcher -> 0..lastEnqueue]
  /\ flushSem \in Int
  /\ sem \in Int
  /\ ctxDone \in BOOLEAN
  /\ tickerAlive \in BOOLEAN

\* The incremental counter of setPending equals the upserts really buffered.
\* takeBatch sizes both slices of a batch from it (a negative capacity panics)
\* and Submit's size trigger reads it.
PendingUpsertsExact == pendingUpserts = Cardinality(UpsertKeys(pending))

\* Between two calls the buffer is always below both flush triggers, so a
\* batch never carries more than BatchSize messages: what bounds its memory.
BufferBounded ==
  /\ Len(msgs) < BatchSize
  /\ pendingUpserts < BatchSize
  /\ \A n \in Taken : Len(batches[n].msgs) <= BatchSize

\* An operation and the message it came from are in the same batch (or both
\* still in the buffer): Submit's claim that a message is never split, so the
\* ack of a message never leaves one of its operations behind.
NoSplit ==
  /\ \A k \in Key : pending[k] # NoOp => pending[k].src \in Range(msgs)
  /\ \A n \in Taken, k \in Key :
       batches[n].ops[k] # NoOp => batches[n].ops[k].src \in Range(batches[n].msgs)

\* At most MaxInFlight flushes run, and no more than one further batch per
\* launcher goroutine is held while it blocks in launchFlush.
InFlightBound ==
  /\ Cardinality(InFlight) <= MaxInFlight
  /\ Cardinality(Unsettled) <= MaxInFlight + Cardinality(Launcher)

\* No more than MaxUploads enqueue calls are outstanding, over all flushes.
UploadBound == Cardinality(Uploading) <= MaxUploads

\* A batch past its turn follows every earlier batch's enqueue calls, except
\* across a batch that shutdown abandoned: an abandoned batch closes its turn
\* without having waited for its predecessors.
EnqueueOrder ==
  \A n \in Taken : \A m \in 1..(n - 1) :
    Started(n) => \/ Closed(m)
                  \/ \E k \in (m + 1)..(n - 1) : phase[k] = "abandoned"

CallsIssued(n) == \E g \in Group : grp[n][g] \notin {"none", "queued"}
CallsReturned(n) ==
  /\ phase[n] \notin {"turn", "slot", "abandoned"}
  /\ \A g \in Group : grp[n][g] \notin {"queued", "upload"}

\* Until shutdown, the order of batcher.go:150-155 holds without exception:
\* a batch issues an enqueue call only after every enqueue call of every
\* earlier batch has returned.
OrderBeforeShutdown ==
  ~ctxDone => \A n \in Taken : \A m \in 1..(n - 1) : CallsIssued(n) => CallsReturned(m)

\* A batch is acked only if every one of its operations was enqueued in a task
\* that Meilisearch finished successfully.
AckedAfterSuccess ==
  \A n \in Taken, k \in Key :
    phase[n] = "acked" /\ batches[n].ops[k] # NoOp =>
      grp[n][<<k[1], IF batches[n].ops[k].isDelete THEN "delete" ELSE "upsert">>] = "ok"

----------------------------------------------------------------------------
(* The inductive invariant of the proofs: what each goroutine's position    *)
(* says about the batch it works on.                                        *)

\* A batch waits in launchFlush exactly while one launcher goroutine is
\* blocked on it.
Launching ==
  /\ \A l \in Launcher : launcher[l] # 0 => phase[launcher[l]] \in {"turn", "slot"}
  /\ \A l1, l2 \in Launcher : launcher[l1] # 0 /\ launcher[l1] = launcher[l2] => l1 = l2
  /\ \A n \in Taken : phase[n] \in {"turn", "slot"} => \E l \in Launcher : launcher[l] = n

\* Only shutdown abandons a batch.
AbandonedAtShutdown == \A n \in Taken : phase[n] = "abandoned" => ctxDone

\* A batch's task groups exist once it has a slot, have left the enqueue call
\* once its turn is closed, and are finished once it is settled.
GroupsMatchPhase ==
  \A n \in Taken : \A g \in Group :
    /\ phase[n] \in {"turn", "slot", "abandoned"} => grp[n][g] = "none"
    /\ phase[n] \in {"enqueue", "wait", "acked", "nacked"} =>
         (grp[n][g] = "none" <=> StartGroups(batches[n].ops)[g] = "none")
    /\ phase[n] = "wait" => grp[n][g] \notin {"queued", "upload"}
    /\ phase[n] = "nacked" => grp[n][g] \in {"none", "ok", "failed"}
    /\ phase[n] = "acked" => grp[n][g] \in {"none", "ok"}

\* Each semaphore counts the goroutines that hold it, never beyond its size.
SlotsExact ==
  /\ flushSem = Cardinality(InFlight) /\ flushSem <= MaxInFlight
  /\ sem = Cardinality(Uploading) /\ sem <= MaxUploads

\* msgSeqs names only messages that really wait in msgs, so a redelivery that
\* trackMessage drops is still settled with its batch.
SeqsTracked == msgSeqs \subseteq Range(msgs)

\* All of it together, as the proofs use it.
IndInv ==
  /\ TypeOK
  /\ PendingUpsertsExact
  /\ BufferBounded
  /\ SeqsTracked
  /\ NoSplit
  /\ Launching
  /\ AbandonedAtShutdown
  /\ GroupsMatchPhase
  /\ SlotsExact
  /\ EnqueueOrder

=============================================================================
