--------------------------- MODULE PipelineProofs ---------------------------
(***************************************************************************)
(* The pipeline implements IndexContract, and acks only what is in the     *)
(* index: for any stream of messages, any number of indexes, documents,    *)
(* batches and slots, and any number of lost requests, failed tasks, lost  *)
(* acks, redeliveries, crashes and restarts.                               *)
(***************************************************************************)
EXTENDS Pipeline, BatcherProofs

Requests == [id : Nat \X Nat \X Group, ops : [Key -> Op \cup {NoOp}], msgs : SUBSET Msg]

\* The part of the type of the state that the argument needs.
PipeTyped ==
  /\ stream \in [Msg -> {"new", "ready", "out", "acked"}]
  /\ prefetch \in Seq(Msg)
  /\ wire \subseteq Requests
  /\ tasks \in [Index -> Seq(Requests)]
  /\ run \in Nat

\* Every operation is the effect of a message on its document.
OpsTrue(ops) == \A k \in Key : ops[k] # NoOp => \E m \in Msg : ops[k] = Effect[m][k]

\* Every document that a message of S affects has an operation.
OpsFull(ops, S) == \A m \in S, k \in Key : Effect[m][k] # NoOp => ops[k] # NoOp

\* The buffer and the batches hold the effects of their messages, or newer ones.
BatchesTrue ==
  /\ OpsTrue(pending) /\ OpsFull(pending, Range(msgs))
  /\ \A n \in Taken : OpsTrue(batches[n].ops) /\ OpsFull(batches[n].ops, Range(batches[n].msgs))

\* A request, on the wire or in a queue, carries true operations; one of the running process
\* is that of a batch it took.
RequestTrue(r) ==
  /\ OpsTrue(r.ops)
  /\ r.id[1] <= run
  /\ r.id[1] = run => r.id[2] \in Taken /\ r = Request(r.id[2], r.id[3])

Enqueued == {r \in Requests : \E i \in Index : \E j \in 1 .. Len(tasks[i]) : r = tasks[i][j]}

RequestsTrue == \A r \in wire \cup Enqueued : RequestTrue(r)

\* The task of group g of batch n has covered the messages of the batch.
Applied(n, g) ==
  \A m \in Range(batches[n].msgs), k \in Key :
    Request(n, g).ops[k] # NoOp /\ Effect[m][k] # NoOp => <<m, k>> \in covered

\* A finished task is of a batch that was taken, and has covered its messages.
SucceededApplied ==
  /\ succeeded \subseteq Nat \X Nat \X Group
  /\ \A x \in succeeded : x[1] <= run /\ (x[1] = run => x[2] \in Taken /\ Applied(x[2], x[3]))

\* A group that is ok is one whose task finished.
OkSucceeded == \A n \in Taken, g \in Group : grp[n][g] = "ok" => <<run, n, g>> \in succeeded

PipeInv ==
  /\ IndInv /\ PipeTyped /\ BatchesTrue /\ RequestsTrue /\ SucceededApplied /\ OkSucceeded
  /\ AckedCovered

-----------------------------------------------------------------------------

\* The invariant holds in the initial states.
LEMMA InitPipeInv == PipeInit => PipeInv
<1> SUFFICES ASSUME PipeInit PROVE PipeInv
  OBVIOUS
<1>1. IndInv
  BY InitInd DEF PipeInit
<1>2. Taken = {} /\ msgs = <<>> /\ pending = [k \in Key |-> NoOp]
  BY DEF PipeInit, Init, Taken
<1>3. PipeTyped
  BY DEF PipeInit, PipeTyped
<1>4. BatchesTrue
  BY <1>2 DEF BatchesTrue, OpsTrue, OpsFull, Range
<1>5. RequestsTrue
  <2>1. wire = {} /\ \A i \in Index : Len(tasks[i]) = 0
    BY DEF PipeInit
  <2> QED
    BY <2>1 DEF RequestsTrue, Enqueued
<1>6. SucceededApplied /\ OkSucceeded /\ AckedCovered
  BY <1>2 DEF PipeInit, SucceededApplied, OkSucceeded, AckedCovered
<1> QED
  BY <1>1, <1>3, <1>4, <1>5, <1>6 DEF PipeInv

-----------------------------------------------------------------------------
(* The requests and what they carry. *)

\* A request is well formed and carries the effects its batch holds.
LEMMA RequestFacts ==
  ASSUME IndInv, PipeTyped, BatchesTrue, NEW n \in Taken, NEW g \in Group
  PROVE  /\ Request(n, g) \in Requests
         /\ Request(n, g).id = <<run, n, g>>
         /\ RequestTrue(Request(n, g))
<1> DEFINE b == batches[n]
           o == Request(n, g).ops
<1>1. b \in Batch /\ n \in Nat
  BY DEF IndInv, TypeOK, Taken
<1>2. b.ops \in [Key -> Op \cup {NoOp}] /\ b.msgs \in Seq(Msg)
  BY <1>1 DEF Batch
<1>3. Range(b.msgs) \in SUBSET Msg
  BY <1>2 DEF Range
<1>4. \A k \in Key : o[k] = b.ops[k] \/ o[k] = NoOp
  BY DEF Request
<1>5. o \in [Key -> Op \cup {NoOp}]
  BY <1>2 DEF Request
<1>6. <<run, n, g>> \in Nat \X Nat \X Group
  BY <1>1 DEF PipeTyped
<1>7. Request(n, g) = [id |-> <<run, n, g>>, ops |-> o, msgs |-> Range(b.msgs)]
  BY DEF Request
<1>8. OpsTrue(b.ops)
  BY DEF BatchesTrue
<1>9. OpsTrue(o)
  BY <1>4, <1>8 DEF OpsTrue
<1> HIDE DEF o, b
<1>10. Request(n, g) \in Requests
  BY <1>3, <1>5, <1>6, <1>7 DEF Requests
<1>11. /\ Request(n, g).id[1] = run /\ Request(n, g).id[2] = n /\ Request(n, g).id[3] = g
       /\ Request(n, g).id = <<run, n, g>>
  BY <1>7
<1>12. run <= run
  BY DEF PipeTyped
<1> QED
  BY <1>9, <1>10, <1>11, <1>12 DEF RequestTrue, o

\* While the process runs, what was true of a batch and its requests stays true.
LEMMA RequestKept ==
  ASSUME run' = run, Taken \subseteq Taken', covered \subseteq covered',
         \A n \in Taken : batches'[n] = batches[n]
  PROVE  /\ \A n \in Taken, g \in Group : Request(n, g)' = Request(n, g)
         /\ \A n \in Taken, g \in Group : Applied(n, g) => Applied(n, g)'
         /\ \A r \in Requests : RequestTrue(r) => RequestTrue(r)'
<1>1. \A n \in Taken, g \in Group : Request(n, g)' = Request(n, g)
  BY DEF Request
<1>2. ASSUME NEW n \in Taken, NEW g \in Group, Applied(n, g)
      PROVE  Applied(n, g)'
  <2>1. Request(n, g)' = Request(n, g) /\ batches'[n] = batches[n]
    BY <1>1
  <2> HIDE DEF Request
  <2> QED
    BY <1>2, <2>1 DEF Applied
<1>3. ASSUME NEW r \in Requests, RequestTrue(r)
      PROVE  RequestTrue(r)'
  <2>1. r.id[3] \in Group
    BY DEF Requests
  <2>2. r.id[1] = run => r = Request(r.id[2], r.id[3])'
    BY <1>1, <1>3, <2>1 DEF RequestTrue
  <2>3. OpsTrue(r.ops) /\ r.id[1] <= run /\ (r.id[1] = run => r.id[2] \in Taken)
    BY <1>3 DEF RequestTrue
  <2> QED
    BY <2>2, <2>3 DEF RequestTrue, OpsTrue
<1> QED
  BY <1>1, <1>2, <1>3

\* The same, over the wire, the queues and the finished tasks, when no task finishes.
LEMMA MeiliKept ==
  ASSUME IndInv, PipeTyped, RequestsTrue, SucceededApplied,
         run' = run, Taken \subseteq Taken', UNCHANGED <<tasks, succeeded, covered>>,
         \A n \in Taken : batches'[n] = batches[n],
         NEW new \in SUBSET Requests, wire' \subseteq wire \cup new,
         \A r \in new : RequestTrue(r)
  PROVE  RequestsTrue' /\ SucceededApplied'
<1>1. /\ \A n \in Taken, g \in Group : Applied(n, g) => Applied(n, g)'
      /\ \A r \in Requests : RequestTrue(r) => RequestTrue(r)'
  BY RequestKept
<1>2. Enqueued' = Enqueued
  BY DEF Enqueued
<1>3. \A r \in wire' \cup Enqueued' : r \in Requests /\ RequestTrue(r)
  BY <1>2 DEF PipeTyped, RequestsTrue, Enqueued
<1>4. RequestsTrue'
  BY <1>1, <1>3 DEF RequestsTrue
<1>5. ASSUME NEW x \in succeeded
      PROVE  x[1] <= run /\ (x[1] = run => x[2] \in Taken' /\ Applied(x[2], x[3])')
  <2>1. x[3] \in Group /\ x[1] <= run /\ (x[1] = run => x[2] \in Taken /\ Applied(x[2], x[3]))
    BY DEF SucceededApplied
  <2> QED
    BY <1>1, <2>1
<1>6. SucceededApplied'
  BY <1>5 DEF SucceededApplied
<1> QED
  BY <1>4, <1>6

-----------------------------------------------------------------------------
(* The batcher's part of a step. *)

\* The next message has content the batcher accepts.
LEMMA NextMessage ==
  ASSUME PipeTyped, prefetch # <<>>
  PROVE  /\ Head(prefetch) \in Msg /\ Tail(prefetch) \in Seq(Msg)
         /\ Event[Head(prefetch)] \in Contents
<1>1. Head(prefetch) \in Msg /\ Tail(prefetch) \in Seq(Msg)
  BY HeadTailProperties DEF PipeTyped
<1> QED
  BY <1>1, PipelineAssumption, Zenon

\* A new process starts in the batcher's initial state; any other step is a batcher step or
\* leaves the batcher alone.
LEMMA BatcherPart ==
  ASSUME IndInv, PipeTyped, [PipeNext]_pipeVars
  PROVE  IndInv'
<1> USE DEF pipeVars
<1>1. CASE UNCHANGED vars
  BY <1>1, IndStep
<1>2. CASE \E m \in Msg : Pull(m) \/ Expire(m)
  BY <1>1, <1>2, ZenonT(40) DEF Pull, Expire
<1>3. CASE \E r \in wire : Land(r) \/ Lose(r)
  BY <1>1, <1>3 DEF Land, Lose
<1>4. CASE \E i \in Index, ok \in BOOLEAN : Finish(i, ok)
  BY <1>1, <1>4 DEF Finish
<1>5. CASE \E h \in Handlers : Handle(h)
  <2>1. PICK h \in Handlers : Handle(h)
    BY <1>5
  <2> DEFINE m == Head(prefetch)
  <2>2. m \in Msg /\ Event[m] \in Contents
    BY <2>1, NextMessage DEF Handle
  <2>3. Submit(h, m, Event[m].dels, Event[m].ups, TRUE)
    BY <2>1, Zenon DEF Handle
  <2> HIDE DEF m
  <2>4. \E c \in Contents, ok \in BOOLEAN : Submit(h, m, c.dels, c.ups, ok)
    BY <2>2, <2>3, Zenon
  <2>5. Next
    BY <2>2, <2>4 DEF Next
  <2> QED
    BY <2>5, IndStep
<1>6. CASE Internal
  <2>1. Next
    BY <1>6 DEF Internal, Next
  <2> QED
    BY <2>1, IndStep
<1>7. ASSUME NEW n \in Taken, NEW g \in Group,
             Send(n, g) \/ \E ok \in BOOLEAN : Return(n, g, ok) \/ Poll(n, g, ok)
      PROVE  IndInv'
  <2>1. GroupStep(n, g)
    BY <1>7 DEF Send, Return, Poll, GroupStep
  <2>2. Next
    BY <2>1, ZenonT(40) DEF Next
  <2> QED
    BY <2>2, IndStep
<1>8. CASE \E n \in Taken : \E lost \in SUBSET Range(batches[n].msgs) : Conclude(n, lost)
  <2>1. Next
    BY <1>8 DEF Conclude, Next
  <2> QED
    BY <2>1, IndStep
<1>9. CASE Shutdown
  <2>1. Next
    BY <1>9 DEF Shutdown, Next
  <2> QED
    BY <2>1, IndStep
<1>10. CASE Exit
  <2>1. Init'
    BY <1>10 DEF Exit, Reset, Init
  <2>2. Init' => IndInv'
    BY InitInd, PTL
  <2> QED
    BY <2>1, <2>2
<1> QED
  BY <1>1, <1>2, <1>3, <1>4, <1>5, <1>6, <1>7, <1>8, <1>9, <1>10, ZenonT(40) DEF PipeNext

\* Buffering a message adds its effects to the buffer and the message to those it settles.
LEMMA BufferedTrue ==
  ASSUME IndInv, BatchesTrue, NEW m \in Msg
  PROVE  LET p  == Buffered(m, Event[m].dels, Event[m].ups)
             ms == Tracked(m, TRUE)
         IN  /\ p \in [Key -> Op \cup {NoOp}] /\ ms \in Seq(Msg)
             /\ OpsTrue(p) /\ OpsFull(p, Range(ms))
<1> DEFINE p  == Buffered(m, Event[m].dels, Event[m].ups)
           ms == Tracked(m, TRUE)
<1>1. Event[m].dels \in SUBSET Key /\ Event[m].ups \in SUBSET Key
  BY PipelineAssumption, ContentsType
<1>2. p \in [Key -> Op \cup {NoOp}]
  BY <1>1, BufferedType DEF IndInv
<1>3. ms \in Seq(Msg)
  BY TrackedFacts, Zenon DEF IndInv
<1>4. Range(ms) \subseteq Range(msgs) \cup {m}
  <2>1. msgs \in Seq(Msg)
    BY DEF IndInv, TypeOK
  <2>2. CASE ms = Append(msgs, m)
    <3> DEFINE t == Append(msgs, m)
    <3>1. /\ t \in Seq(Msg) /\ Len(t) = Len(msgs) + 1
          /\ \A i \in 1 .. Len(msgs) : t[i] = msgs[i]
          /\ t[Len(msgs) + 1] = m
      BY <2>1, AppendProperties
    <3>2. /\ DOMAIN t = 1 .. (Len(msgs) + 1) /\ DOMAIN msgs = 1 .. Len(msgs)
          /\ Len(msgs) \in Nat
      BY <2>1, <3>1
    <3> HIDE DEF t
    <3>3. Range(t) \subseteq Range(msgs) \cup {m}
      BY <3>1, <3>2 DEF Range
    <3> QED
      BY <2>2, <3>3, Zenon DEF t
  <2> QED
    BY <2>2 DEF Tracked
<1>5. ASSUME NEW k \in Key
      PROVE  /\ Effect[m][k] # NoOp => p[k] = Effect[m][k]
             /\ Effect[m][k] = NoOp => p[k] = pending[k]
  <2> DEFINE u == [isDelete |-> FALSE, src |-> m]
             e == [isDelete |-> TRUE, src |-> m]
  <2>1. u \in Op /\ e \in Op
    BY DEF Op
  <2>2. u # NoOp /\ e # NoOp
    BY <2>1, SetsAssumption, Zenon
  <2> HIDE DEF u, e
  <2>3. p[k] = IF k \in Event[m].ups THEN u ELSE IF k \in Event[m].dels THEN e ELSE pending[k]
    BY DEF Buffered, u, e
  <2>4. Effect[m][k] = IF k \in Event[m].ups THEN u ELSE IF k \in Event[m].dels THEN e ELSE NoOp
    BY DEF Effect, u, e
  <2> HIDE DEF p
  <2> QED
    BY <2>2, <2>3, <2>4
<1> HIDE DEF p, ms
<1>6. OpsTrue(p)
  BY <1>5 DEF BatchesTrue, OpsTrue
<1>7. OpsFull(p, Range(ms))
  BY <1>4, <1>5 DEF BatchesTrue, OpsFull
<1> QED
  BY <1>2, <1>3, <1>6, <1>7, Zenon DEF p, ms

\* A batch that is taken carries what the buffer held; the earlier ones are not touched.
LEMMA TakenTrue ==
  ASSUME IndInv, BatchesTrue, OkSucceeded,
         NEW l \in Launcher, NEW p \in [Key -> Op \cup {NoOp}], NEW ms \in Seq(Msg),
         OpsTrue(p), OpsFull(p, Range(ms)), TakeBatch(l, p, ms), UNCHANGED <<succeeded, run>>
  PROVE  /\ BatchesTrue' /\ OkSucceeded'
         /\ Taken \subseteq Taken' /\ \A n \in Taken : batches'[n] = batches[n]
<1> DEFINE new == lastEnqueue + 1
<1>1. /\ Taken' = Taken \cup {new} /\ new \notin Taken
      /\ \A n \in Taken : grp'[n] = grp[n] /\ batches'[n] = batches[n]
  BY TakeBatchFacts, Zenon DEF IndInv
<1>2. lastEnqueue \in Nat
  BY DEF IndInv, TypeOK
<1>3. /\ batches' = Extend(batches, [ops |-> p, msgs |-> ms])
      /\ grp' = Extend(grp, [g \in Group |-> "none"])
      /\ msgs' = <<>> /\ pending' = [k \in Key |-> NoOp]
  BY DEF TakeBatch
<1>4. batches'[new] = [ops |-> p, msgs |-> ms] /\ grp'[new] = [g \in Group |-> "none"]
  BY <1>2, <1>3, ExtendFacts
<1>5. batches'[new].ops = p /\ batches'[new].msgs = ms /\ \A g \in Group : grp'[new][g] = "none"
  BY <1>4, SMTT(30)
<1>6. OpsTrue(pending') /\ OpsFull(pending', Range(msgs'))
  BY <1>3 DEF OpsTrue, OpsFull, Range
<1> HIDE DEF new
<1>7. \A n \in Taken' : OpsTrue(batches'[n].ops) /\ OpsFull(batches'[n].ops, Range(batches'[n].msgs))
  BY <1>1, <1>5, Zenon DEF BatchesTrue
<1>8. BatchesTrue'
  BY <1>6, <1>7, Zenon DEF BatchesTrue, OpsTrue, OpsFull
<1>9. OkSucceeded'
  BY <1>1, <1>5, Zenon DEF OkSucceeded
<1> QED
  BY <1>1, <1>8, <1>9

\* What buffering, or a tick, does to the batches.
LEMMA BufferMove ==
  ASSUME IndInv, PipeTyped, BatchesTrue, OkSucceeded, UNCHANGED <<succeeded, run>>,
         Flush \/ \E h \in Handlers : Handle(h)
  PROVE  /\ BatchesTrue' /\ OkSucceeded'
         /\ Taken \subseteq Taken' /\ \A n \in Taken : batches'[n] = batches[n]
<1>1. CASE Flush
  <2>1. Ticker \in Launcher /\ TakeBatch(Ticker, pending, msgs)
    BY <1>1 DEF Flush, Launcher
  <2>2. pending \in [Key -> Op \cup {NoOp}] /\ msgs \in Seq(Msg)
    BY DEF IndInv, TypeOK
  <2> QED
    BY <2>1, <2>2, TakenTrue DEF BatchesTrue
<1>2. ASSUME NEW h \in Handlers, Handle(h)
      PROVE  /\ BatchesTrue' /\ OkSucceeded'
             /\ Taken \subseteq Taken' /\ \A n \in Taken : batches'[n] = batches[n]
  <2> DEFINE m  == Head(prefetch)
             p  == Buffered(m, Event[m].dels, Event[m].ups)
             ms == Tracked(m, TRUE)
             n  == CountAfter(Event[m].dels, Event[m].ups)
  <2>1. m \in Msg
    BY <1>2, NextMessage DEF Handle
  <2>2. Submit(h, m, Event[m].dels, Event[m].ups, TRUE)
    BY <1>2, Zenon DEF Handle
  <2>3. \/ TakeBatch(h, p, ms)
        \/ pending' = p /\ msgs' = ms /\ UNCHANGED <<taken, grp>>
    BY <2>2, Zenon DEF Submit
  <2> HIDE DEF m
  <2>4. /\ p \in [Key -> Op \cup {NoOp}] /\ ms \in Seq(Msg)
        /\ OpsTrue(p) /\ OpsFull(p, Range(ms))
    BY <2>1, BufferedTrue, Zenon
  <2> HIDE DEF p, ms
  <2>5. CASE TakeBatch(h, p, ms)
    BY <2>4, <2>5, TakenTrue DEF Launcher
  <2>6. CASE pending' = p /\ msgs' = ms /\ UNCHANGED <<taken, grp>>
    <3>1. Taken' = Taken /\ batches' = batches /\ grp' = grp
      BY <2>6 DEF taken, Taken
    <3>2. OpsTrue(pending') /\ OpsFull(pending', Range(msgs'))
      BY <2>4, <2>6, ZenonT(40)
    <3>3. BatchesTrue'
      BY <3>1, <3>2 DEF BatchesTrue, OpsTrue, OpsFull
    <3>4. OkSucceeded'
      BY <3>1 DEF OkSucceeded
    <3> QED
      BY <3>1, <3>3, <3>4
  <2> QED
    BY <2>3, <2>5, <2>6
<1> QED
  BY <1>1, <1>2, Zenon

\* A step that takes no batch, and sees a group succeed only once its task finished.
LEMMA FlushKept ==
  ASSUME BatchesTrue, OkSucceeded, UNCHANGED <<buffer, taken, run>>, succeeded \subseteq succeeded',
         \A n \in Taken, g \in Group :
           grp'[n][g] = "ok" => grp[n][g] = "ok" \/ <<run, n, g>> \in succeeded
  PROVE  BatchesTrue' /\ OkSucceeded' /\ Taken' = Taken /\ batches' = batches
<1>1. Taken' = Taken /\ batches' = batches /\ pending' = pending /\ msgs' = msgs
  BY DEF buffer, taken, Taken
<1>2. BatchesTrue'
  BY <1>1 DEF BatchesTrue, OpsTrue, OpsFull
<1>3. OkSucceeded'
  BY <1>1 DEF OkSucceeded
<1> QED
  BY <1>1, <1>2, <1>3

-----------------------------------------------------------------------------
(* Each step keeps the invariant. *)

\* What is left of the invariant once the batcher's part is settled.
Rest == PipeTyped /\ BatchesTrue /\ RequestsTrue /\ SucceededApplied /\ OkSucceeded /\ AckedCovered

\* A step of the batcher that Meilisearch and the stream do not see.
LEMMA InternalStep ==
  ASSUME PipeInv, Internal \/ Shutdown \/ \E h \in Handlers : Handle(h)
  PROVE  Rest'
<1> USE DEF PipeInv
<1>1. UNCHANGED <<stream, meiliVars, run>>
  BY Zenon DEF Internal, Shutdown, Handle, streamVars
<1>2. UNCHANGED <<stream, wire, tasks, succeeded, covered, run>>
  BY <1>1 DEF meiliVars
<1>3. prefetch' \in Seq(Msg)
  <2>1. CASE Internal \/ Shutdown
    BY <2>1 DEF Internal, Shutdown, streamVars, PipeTyped
  <2>2. CASE \E h \in Handlers : Handle(h)
    BY <2>2, NextMessage DEF Handle
  <2> QED
    BY <2>1, <2>2
<1>4. /\ BatchesTrue' /\ OkSucceeded'
      /\ Taken \subseteq Taken' /\ \A n \in Taken : batches'[n] = batches[n]
  <2>1. CASE Flush \/ \E h \in Handlers : Handle(h)
    BY <1>2, <2>1, BufferMove, Zenon
  <2>2. CASE StopTicker \/ Cancel
    BY <1>2, <2>2, FlushKept, Zenon DEF StopTicker, Cancel
  <2>3. ASSUME NEW l \in Launcher, LaunchStep(l)
        PROVE  /\ BatchesTrue' /\ OkSucceeded'
               /\ Taken \subseteq Taken' /\ \A n \in Taken : batches'[n] = batches[n]
    <3>1. UNCHANGED <<buffer, taken>>
      BY <2>3 DEF LaunchStep, AwaitTurn, AcquireFlushSlot, Abandon
    <3>2. AwaitTurn(l) \/ AcquireFlushSlot(l) \/ Abandon(l)
      BY <2>3 DEF LaunchStep
    <3>3. /\ \A n \in Taken : n # launcher[l] => grp'[n] = grp[n]
          /\ grp' = grp \/ grp'[launcher[l]] = StartGroups(batches[launcher[l]].ops)
      BY <3>2, LaunchMove
    <3>4. \A g \in Group : StartGroups(batches[launcher[l]].ops)[g] # "ok"
      BY DEF StartGroups
    <3>5. \A n \in Taken, g \in Group : grp'[n][g] = "ok" => grp[n][g] = "ok"
      BY <3>3, <3>4, ZenonT(40)
    <3> QED
      BY <1>2, <3>1, <3>5, FlushKept, ZenonT(40)
  <2>4. ASSUME NEW n \in Taken, CloseTurn(n)
        PROVE  /\ BatchesTrue' /\ OkSucceeded'
               /\ Taken \subseteq Taken' /\ \A b \in Taken : batches'[b] = batches[b]
    BY <1>2, <2>4, FlushKept DEF CloseTurn
  <2> QED
    BY <2>1, <2>2, <2>3, <2>4, Zenon DEF Internal, Shutdown
<1>5. RequestsTrue' /\ SucceededApplied'
  <2>1. {} \in SUBSET Requests /\ wire' \subseteq wire \cup {} /\ \A r \in {} : RequestTrue(r)
    BY <1>2
  <2> QED
    BY <1>2, <1>4, <2>1, MeiliKept, Zenon
<1>6. PipeTyped'
  BY <1>2, <1>3, ZenonT(40) DEF PipeTyped
<1>7. AckedCovered'
  BY <1>2 DEF AckedCovered
<1> QED
  BY <1>4, <1>5, <1>6, <1>7 DEF Rest

\* A message is pulled, or its ackWait expires.
LEMMA StreamStep ==
  ASSUME PipeInv, NEW m \in Msg, Pull(m) \/ Expire(m)
  PROVE  Rest' /\ UNCHANGED <<covered, docs>>
              /\ {x \in Msg : stream'[x] = "acked"} = {x \in Msg : stream[x] = "acked"}
<1> USE DEF PipeInv
<1>1. UNCHANGED <<vars, meiliVars, run>>
  BY DEF Pull, Expire
<1>2. /\ UNCHANGED <<buffer, taken, grp>>
      /\ UNCHANGED <<wire, tasks, succeeded, covered, docs, run>>
  BY <1>1, Zenon DEF vars, meiliVars
<1>3. BatchesTrue' /\ OkSucceeded' /\ Taken' = Taken /\ batches' = batches
  BY <1>2, FlushKept
<1>4. RequestsTrue' /\ SucceededApplied'
  <2>1. {} \in SUBSET Requests /\ wire' \subseteq wire \cup {} /\ \A r \in {} : RequestTrue(r)
    BY <1>2
  <2> QED
    BY <1>2, <1>3, <2>1, MeiliKept, Zenon
<1>5. /\ stream[m] # "acked"
      /\ stream' = [stream EXCEPT ![m] = "out"] \/ stream' = [stream EXCEPT ![m] = "ready"]
      /\ prefetch' = prefetch \/ prefetch' = Append(prefetch, m)
  BY DEF Pull, Expire
<1>6. PipeTyped'
  BY <1>2, <1>5, SMTT(30) DEF PipeTyped
<1>7. {x \in Msg : stream'[x] = "acked"} = {x \in Msg : stream[x] = "acked"}
  BY <1>5 DEF PipeTyped
<1>8. AckedCovered'
  BY <1>2, <1>7, Zenon DEF AckedCovered
<1> QED
  BY <1>2, <1>3, <1>4, <1>6, <1>7, <1>8, ZenonT(40) DEF Rest

\* A group sends its request, or learns what became of it.
LEMMA CallStep ==
  ASSUME PipeInv, NEW n \in Taken, NEW g \in Group,
         Send(n, g) \/ \E ok \in BOOLEAN : Return(n, g, ok) \/ Poll(n, g, ok)
  PROVE  Rest' /\ UNCHANGED <<stream, covered, docs>>
<1> USE DEF PipeInv
<1>1. GroupStep(n, g)
  BY DEF Send, Return, Poll, GroupStep
<1>2. UNCHANGED <<buffer, taken>>
  BY <1>1, GroupStepKeeps
<1>3. /\ UNCHANGED <<stream, prefetch, tasks, succeeded, covered, docs, run>>
      /\ wire' \subseteq wire \cup {Request(n, g)}
  BY Zenon DEF Send, Return, Poll, streamVars, meiliVars
<1>4. \A b \in Taken, x \in Group :
        grp'[b][x] = "ok" => grp[b][x] = "ok" \/ <<run, b, x>> \in succeeded
  <2>1. \A b \in Taken, x \in Group : <<b, x>> # <<n, g>> => grp'[b][x] = grp[b][x]
    BY <1>1, GroupMove, ZenonT(40)
  <2>2. grp'[n][g] = "ok" => <<run, n, g>> \in succeeded
    <3>1. grp \in [Taken -> [Group -> GroupStates]]
      BY DEF IndInv, TypeOK
    <3>2. CASE Send(n, g)
      BY <3>1, <3>2, Zenon DEF Send, AcquireUpload, SetGroup
    <3>3. ASSUME NEW ok \in BOOLEAN, Return(n, g, ok)
          PROVE  grp'[n][g] # "ok"
      BY <3>1, <3>3, Zenon DEF Return, EnqueueReturn, SetGroup
    <3>4. ASSUME NEW ok \in BOOLEAN, Poll(n, g, ok)
          PROVE  grp'[n][g] = "ok" => <<run, n, g>> \in succeeded
      BY <3>1, <3>4, SMTT(30) DEF Poll, WaitReturn, SetGroup
    <3> QED
      BY <3>2, <3>3, <3>4, Zenon
  <2> QED
    BY <2>1, <2>2, SMTT(20)
<1>5. BatchesTrue' /\ OkSucceeded' /\ Taken' = Taken /\ batches' = batches
  BY <1>2, <1>3, <1>4, FlushKept, SMTT(30)
<1>6. Request(n, g) \in Requests /\ RequestTrue(Request(n, g))
  BY RequestFacts
<1>7. RequestsTrue' /\ SucceededApplied'
  <2>1. PICK q \in Requests : q = Request(n, g)
    BY <1>6
  <2>2. {q} \in SUBSET Requests /\ wire' \subseteq wire \cup {q} /\ \A r \in {q} : RequestTrue(r)
    BY <1>3, <1>6, <2>1
  <2> QED
    BY <1>3, <1>5, <2>2, MeiliKept, ZenonT(40)
<1>8. PipeTyped'
  BY <1>3, <1>6, ZenonT(40) DEF PipeTyped
<1>9. AckedCovered'
  BY <1>3 DEF AckedCovered
<1> QED
  BY <1>3, <1>5, <1>7, <1>8, <1>9, Zenon DEF Rest

\* A request lands or is lost.
LEMMA WireStep ==
  ASSUME PipeInv, NEW r \in wire, Land(r) \/ Lose(r)
  PROVE  Rest' /\ UNCHANGED <<stream, covered, docs>>
<1> USE DEF PipeInv
<1>1. UNCHANGED <<vars, stream, prefetch, succeeded, covered, docs, run>> /\ wire' = wire \ {r}
  BY Zenon DEF Land, Lose, streamVars
<1>2. UNCHANGED <<buffer, taken, grp>>
  BY <1>1, Zenon DEF vars
<1>3. BatchesTrue' /\ OkSucceeded' /\ Taken' = Taken /\ batches' = batches
  BY <1>1, <1>2, FlushKept, ZenonT(40)
<1>4. /\ \A n \in Taken, g \in Group : Applied(n, g) => Applied(n, g)'
      /\ \A q \in Requests : RequestTrue(q) => RequestTrue(q)'
  BY <1>1, <1>3, RequestKept
<1>5. r \in Requests /\ RequestTrue(r)
  BY DEF PipeTyped, RequestsTrue
<1>6. tasks' \in [Index -> Seq(Requests)] /\ Enqueued' \subseteq Enqueued \cup {r}
  <2>1. CASE UNCHANGED tasks
    BY <2>1, Zenon DEF PipeTyped, Enqueued
  <2>2. CASE Land(r)
    <3> DEFINE i == r.id[3][1]
               s == tasks[i]
    <3>1. i \in Index
      BY <1>5 DEF Requests, Group
    <3>2. s \in Seq(Requests)
      BY <3>1, Zenon DEF PipeTyped
    <3>3. tasks' = [tasks EXCEPT ![i] = Append(s, r)]
      BY <2>2 DEF Land
    <3> HIDE DEF i
    <3>4. /\ tasks'[i] = Append(s, r) /\ \A x \in Index : x # i => tasks'[x] = tasks[x]
          /\ tasks' \in [Index -> Seq(Requests)]
      BY <1>5, <3>1, <3>2, <3>3, SMTT(30) DEF PipeTyped
    <3>5. /\ Append(s, r) \in Seq(Requests) /\ Len(Append(s, r)) = Len(s) + 1
          /\ \A j \in 1 .. Len(s) : Append(s, r)[j] = s[j]
          /\ Append(s, r)[Len(s) + 1] = r
      BY <1>5, <3>2, AppendProperties, SMTT(30)
    <3>6. ASSUME NEW x \in Index, NEW j \in 1 .. Len(tasks'[x])
          PROVE  tasks'[x][j] = r \/ \E y \in 1 .. Len(tasks[x]) : tasks'[x][j] = tasks[x][y]
      <4>1. CASE x # i
        BY <3>4, <4>1, Zenon
      <4>2. CASE x = i
        BY <3>2, <3>4, <3>5, <4>2, SMTT(30)
      <4> QED
        BY <4>1, <4>2, Zenon
    <3> QED
      BY <3>4, <3>6, SMTT(30) DEF Enqueued
  <2> QED
    BY <2>1, <2>2 DEF Lose
<1>7. RequestsTrue'
  <2>1. \A q \in wire' \cup Enqueued' : q \in Requests /\ RequestTrue(q)
    BY <1>1, <1>5, <1>6, ZenonT(40) DEF PipeTyped, RequestsTrue, Enqueued
  <2> QED
    BY <1>4, <2>1 DEF RequestsTrue
<1>8. SucceededApplied'
  <2>1. \A x \in succeeded : /\ x[1] <= run /\ x[3] \in Group
                             /\ x[1] = run => x[2] \in Taken /\ Applied(x[2], x[3])
    BY DEF SucceededApplied
  <2>2. \A x \in succeeded : x[1] = run => x[2] \in Taken' /\ Applied(x[2], x[3])'
    BY <1>3, <1>4, <2>1, ZenonT(40)
  <2> QED
    BY <1>1, <2>1, <2>2 DEF SucceededApplied
<1>9. PipeTyped' /\ AckedCovered'
  BY <1>1, <1>6, SMTT(20) DEF PipeTyped, AckedCovered
<1> QED
  BY <1>1, <1>3, <1>7, <1>8, <1>9, SMTT(30) DEF Rest

\* The oldest element of a queue, and what is left behind it.
LEMMA QueueHead ==
  ASSUME NEW S, NEW s \in Seq(S), s # <<>>
  PROVE  /\ Head(s) \in S /\ Head(s) = s[1] /\ 1 \in 1 .. Len(s) /\ Len(s) \in Nat
         /\ Tail(s) \in Seq(S) /\ Len(Tail(s)) = Len(s) - 1
         /\ \A j \in 1 .. Len(Tail(s)) : Tail(s)[j] = s[j + 1]
<1>1. Len(s) \in Nat /\ Len(s) # 0
  BY SMTT(30)
<1> QED
  BY <1>1, HeadTailProperties

\* A request carries the messages of its batch.
LEMMA RequestMsgs ==
  ASSUME NEW n, NEW g
  PROVE  Request(n, g).msgs = Range(batches[n].msgs)
BY DEF Request

\* The documents a request writes.
Keys(r) == {k \in Key : r.ops[k] # NoOp}

\* The oldest task of an index finishes or fails.  One that finishes covers the messages of its
\* batch on the documents it writes, each with the effect of a message.
LEMMA FinishStep ==
  ASSUME PipeInv, NEW i \in Index, NEW ok \in BOOLEAN, Finish(i, ok)
  PROVE  /\ Rest' /\ stream' = stream
         /\ UNCHANGED <<covered, docs>> \/ \E K \in SUBSET Key : Contract!Apply(K)
<1> USE DEF PipeInv
<1> DEFINE r == Head(tasks[i])
<1>1. /\ UNCHANGED <<vars, stream, prefetch, wire, run>>
      /\ tasks[i] # <<>> /\ tasks' = [tasks EXCEPT ![i] = Tail(@)]
      /\ \/ /\ docs' = [k \in Key |-> IF k \in Keys(r) THEN r.ops[k] ELSE docs[k]]
            /\ covered' = covered \cup {c \in r.msgs \X Keys(r) : Effect[c[1]][c[2]] # NoOp}
            /\ succeeded' = succeeded \cup {r.id}
         \/ UNCHANGED <<docs, covered, succeeded>>
  <2>1. UNCHANGED <<vars, stream, prefetch, wire, run>>
    BY Zenon DEF Finish, streamVars
  <2>2. tasks[i] # <<>> /\ tasks' = [tasks EXCEPT ![i] = Tail(@)]
    BY Zenon DEF Finish
  <2>3. \/ /\ docs' = [k \in Key |-> IF k \in Keys(r) THEN r.ops[k] ELSE docs[k]]
           /\ covered' = covered \cup {c \in r.msgs \X Keys(r) : Effect[c[1]][c[2]] # NoOp}
           /\ succeeded' = succeeded \cup {r.id}
        \/ UNCHANGED <<docs, covered, succeeded>>
    BY Zenon DEF Finish, Keys
  <2> QED
    BY <2>1, <2>2, <2>3, Zenon
<1>2. UNCHANGED <<buffer, taken, grp>>
  BY <1>1, Zenon DEF vars
<1>3. succeeded \subseteq succeeded' /\ covered \subseteq covered'
  BY <1>1, Zenon
<1>4. BatchesTrue' /\ OkSucceeded' /\ Taken' = Taken /\ batches' = batches
  BY <1>1, <1>2, <1>3, FlushKept, ZenonT(40)
<1>5. /\ \A n \in Taken, g \in Group : Request(n, g)' = Request(n, g)
      /\ \A n \in Taken, g \in Group : Applied(n, g) => Applied(n, g)'
      /\ \A q \in Requests : RequestTrue(q) => RequestTrue(q)'
  BY <1>1, <1>3, <1>4, RequestKept, Zenon
<1>6. tasks[i] \in Seq(Requests) /\ tasks \in [Index -> Seq(Requests)]
  BY Zenon DEF PipeTyped
<1>7. /\ r \in Requests /\ r = tasks[i][1] /\ 1 \in 1 .. Len(tasks[i])
      /\ Tail(tasks[i]) \in Seq(Requests) /\ Len(Tail(tasks[i])) = Len(tasks[i]) - 1
      /\ \A j \in 1 .. Len(Tail(tasks[i])) : Tail(tasks[i])[j] = tasks[i][j + 1]
      /\ Len(tasks[i]) \in Nat
  BY <1>1, <1>6, QueueHead, ZenonT(40)
<1>8. RequestTrue(r)
  BY <1>7 DEF RequestsTrue, Enqueued
<1>9. tasks' \in [Index -> Seq(Requests)] /\ Enqueued' \subseteq Enqueued
  <2>1. /\ tasks'[i] = Tail(tasks[i]) /\ \A x \in Index : x # i => tasks'[x] = tasks[x]
        /\ tasks' \in [Index -> Seq(Requests)]
    BY <1>1, <1>6, <1>7, Zenon
  <2>2. ASSUME NEW x \in Index, NEW j \in 1 .. Len(tasks'[x])
        PROVE  \E y \in 1 .. Len(tasks[x]) : tasks'[x][j] = tasks[x][y]
    <3>1. CASE x # i
      BY <2>1, <3>1
    <3>2. CASE x = i
      <4>1. j + 1 \in 1 .. Len(tasks[i]) /\ tasks'[i][j] = tasks[i][j + 1]
        BY <1>7, <2>1, <3>2, SMTT(30)
      <4> QED
        BY <3>2, <4>1, Zenon
    <3> QED
      BY <3>1, <3>2, ZenonT(40)
  <2>3. ASSUME NEW q \in Enqueued'
        PROVE  q \in Enqueued
    <3>1. PICK x \in Index : \E j \in 1 .. Len(tasks'[x]) : q = tasks'[x][j] /\ q \in Requests
      BY DEF Enqueued
    <3>2. \E y \in 1 .. Len(tasks[x]) : q = tasks[x][y]
      BY <2>2, <3>1
    <3> QED
      BY <3>1, <3>2 DEF Enqueued
  <2> QED
    BY <2>1, <2>3, Zenon
<1>10. RequestsTrue'
  <2>1. \A q \in wire' \cup Enqueued' : q \in Requests /\ RequestTrue(q)
    BY <1>1, <1>9, Zenon DEF PipeTyped, RequestsTrue, Enqueued
  <2> QED
    BY <1>5, <2>1, SMTT(30) DEF RequestsTrue
<1>11. PipeTyped' /\ AckedCovered'
  BY <1>1, <1>3, <1>9, Zenon DEF PipeTyped, AckedCovered
<1>12. PICK q \in Requests : q = r
  BY <1>7, Zenon
<1>13. \/ /\ docs' = [k \in Key |-> IF k \in Keys(q) THEN q.ops[k] ELSE docs[k]]
         /\ covered' = covered \cup {c \in q.msgs \X Keys(q) : Effect[c[1]][c[2]] # NoOp}
         /\ succeeded' = succeeded \cup {q.id}
      \/ UNCHANGED <<docs, covered, succeeded>>
  BY <1>1, <1>12
<1>14. RequestTrue(q)
  BY <1>8, <1>12, Zenon
<1>15. SucceededApplied'
  <2>1. \A x \in succeeded : /\ x[1] <= run /\ x[3] \in Group
                             /\ x[1] = run => x[2] \in Taken /\ Applied(x[2], x[3])
    BY DEF SucceededApplied
  <2>2. \A x \in succeeded : x[1] <= run /\ (x[1] = run => x[2] \in Taken' /\ Applied(x[2], x[3])')
    BY <1>4, <1>5, <2>1
  <2>3. q.id \in Nat \X Nat \X Group /\ q.id[3] \in Group
    BY Zenon DEF Requests
  <2>4. CASE UNCHANGED <<docs, covered, succeeded>>
    BY <1>1, <2>2, <2>4, Zenon DEF SucceededApplied
  <2>5. CASE /\ covered' = covered \cup {c \in q.msgs \X Keys(q) : Effect[c[1]][c[2]] # NoOp}
             /\ succeeded' = succeeded \cup {q.id}
    <3>1. q.id[1] <= run
      BY <1>14, Zenon DEF RequestTrue
    <3>2. ASSUME q.id[1] = run
          PROVE  q.id[2] \in Taken' /\ Applied(q.id[2], q.id[3])'
      <4>1. PICK n \in Taken, g \in Group : n = q.id[2] /\ g = q.id[3] /\ q = Request(n, g)
        BY <1>14, <2>3, <3>2, SMTT(30) DEF RequestTrue
      <4>2. q.msgs = Range(batches[n].msgs)
        BY <4>1, RequestMsgs, ZenonT(40)
      <4>3. ASSUME NEW m \in Range(batches[n].msgs), NEW k \in Key,
                   q.ops[k] # NoOp, Effect[m][k] # NoOp
            PROVE  <<m, k>> \in covered'
        <5>1. <<m, k>> \in q.msgs \X Keys(q)
          BY <4>2, <4>3, Zenon DEF Keys
        <5> QED
          BY <2>5, <4>3, <5>1
      <4>4. Request(n, g)' = q /\ batches'[n] = batches[n]
        BY <1>4, <1>5, <4>1, ZenonT(40)
      <4>5. Applied(n, g)'
        BY <4>3, <4>4, Zenon DEF Applied
      <4> QED
        BY <1>4, <4>1, <4>5, ZenonT(40)
    <3>3. \A x \in succeeded' : x[1] <= run /\ (x[1] = run => x[2] \in Taken' /\ Applied(x[2], x[3])')
      BY <2>2, <2>5, <3>1, <3>2, ZenonT(40)
    <3>4. succeeded' \subseteq Nat \X Nat \X Group
      BY <2>3, <2>5, Zenon DEF SucceededApplied
    <3> QED
      BY <1>1, <3>3, <3>4, Zenon DEF SucceededApplied
  <2> QED
    BY <1>13, <2>4, <2>5, ZenonT(40)
<1>16. UNCHANGED <<covered, docs>> \/ \E K \in SUBSET Key : Contract!Apply(K)
  <2>1. CASE UNCHANGED <<docs, covered, succeeded>>
    BY <2>1
  <2>2. CASE /\ docs' = [k \in Key |-> IF k \in Keys(q) THEN q.ops[k] ELSE docs[k]]
             /\ covered' = covered \cup {c \in q.msgs \X Keys(q) : Effect[c[1]][c[2]] # NoOp}
    <3>1. Keys(q) \in SUBSET Key /\ \A k \in Keys(q) : q.ops[k] # NoOp
      BY DEF Keys
    <3>2. \A k \in Keys(q) : \E m \in Msg : q.ops[k] = Effect[m][k]
      BY <1>14, <3>1, Zenon DEF RequestTrue, OpsTrue
    <3>3. \A k \in Key \ Keys(q) : docs'[k] = docs[k]
      BY <2>2, Zenon
    <3>4. \A k \in Keys(q) : docs'[k] # NoOp /\ \E m \in Msg : docs'[k] = Effect[m][k]
      BY <2>2, <3>1, <3>2, ZenonT(40)
    <3>5. \A c \in covered' \ covered : c[2] \in Keys(q) /\ Effect[c[1]][c[2]] # NoOp
      BY <2>2, SMTT(30)
    <3>6. {m \in Msg : stream'[m] = "acked"} = {m \in Msg : stream[m] = "acked"}
      BY <1>1, SMTT(20)
    <3>7. Contract!Apply(Keys(q))
      BY <1>3, <3>3, <3>4, <3>5, <3>6, ZenonT(40) DEF Contract!Apply
    <3> QED
      BY <3>1, <3>7
  <2> QED
    BY <1>13, <2>1, <2>2, ZenonT(40)
<1>17. Rest'
  BY <1>4, <1>10, <1>11, <1>15, Zenon DEF Rest
<1>18. stream' = stream
  BY <1>1, Zenon
<1> QED
  BY <1>16, <1>17, <1>18, Zenon

\* An acked batch has covered every effect of its messages.
LEMMA AckedBatch ==
  ASSUME PipeInv, NEW n \in Taken, Settle(n), phase'[n] = "acked",
         NEW m \in Range(batches[n].msgs), NEW k \in Key, Effect[m][k] # NoOp
  PROVE  <<m, k>> \in covered
<1> USE DEF PipeInv
<1> DEFINE o == batches[n].ops[k]
           g == <<k[1], IF o.isDelete THEN "delete" ELSE "upsert">>
<1>1. o # NoOp
  BY DEF BatchesTrue, OpsFull
<1>2. batches[n].ops \in [Key -> Op \cup {NoOp}]
  BY Zenon DEF IndInv, TypeOK, Batch
<1>3. o \in Op
  BY <1>1, <1>2, Zenon
<1>4. o.isDelete \in BOOLEAN
  BY <1>3, ZenonT(40) DEF Op
<1>5. g \in Group /\ g[1] = k[1] /\ g[2] = IF o.isDelete THEN "delete" ELSE "upsert"
  BY SMTT(20) DEF Group, Key, Kind
<1>6. Request(n, g).ops[k] = o
  BY <1>1, <1>4, <1>5, ZenonT(40) DEF Request, IsUpsert, IsDelete
<1>7. grp[n][g] = "ok"
  <2>1. Next
    BY Zenon DEF Next
  <2>2. IndInv'
    BY <2>1, IndStep, SMTT(30)
  <2>3. AckedAfterSuccess'
    <3>1. IndInv' => AckedAfterSuccess'
      BY AckedInd, PTL
    <3> QED
      BY <2>2, <3>1
  <2>4. Taken' = Taken /\ batches' = batches /\ grp' = grp
    BY FlushMove, SMTT(20)
  <2> QED
    BY <1>1, <2>3, <2>4, SMTT(20) DEF AckedAfterSuccess
<1>8. <<run, n, g>> \in succeeded
  BY <1>5, <1>7, Zenon DEF OkSucceeded
<1>9. \A x \in succeeded : x[1] = run => Applied(x[2], x[3])
  BY Zenon DEF SucceededApplied
<1> HIDE DEF g, o
<1>10. Applied(n, g)
  <2>1. <<run, n, g>>[1] = run /\ <<run, n, g>>[2] = n /\ <<run, n, g>>[3] = g
    OBVIOUS
  <2> QED
    BY <1>8, <1>9, <2>1, ZenonT(40)
<1> QED
  BY <1>1, <1>6, <1>10, ZenonT(40) DEF Applied

\* A batch is settled: the contract sees its messages acked, or nothing.
LEMMA ConcludeStep ==
  ASSUME PipeInv, NEW n \in Taken, NEW lost \in SUBSET Range(batches[n].msgs), Conclude(n, lost)
  PROVE  Rest' /\ UNCHANGED <<covered, docs>> /\ \E S \in SUBSET Msg : Contract!Ack(S)
<1> USE DEF PipeInv
<1> DEFINE S == IF phase'[n] = "acked" THEN Range(batches[n].msgs) \ lost ELSE {}
<1>1. /\ Settle(n) /\ UNCHANGED <<prefetch, wire, tasks, succeeded, covered, docs, run>>
      /\ stream' = [m \in Msg |->
           IF m \notin Range(batches[n].msgs) \ lost \/ stream[m] = "acked" THEN stream[m]
           ELSE IF phase'[n] = "acked" THEN "acked" ELSE "ready"]
  BY ZenonT(40) DEF Conclude, meiliVars
<1>2. UNCHANGED <<buffer, taken, grp>>
  BY <1>1, SMTT(20) DEF Settle
<1>3. BatchesTrue' /\ OkSucceeded' /\ Taken' = Taken /\ batches' = batches
  BY <1>1, <1>2, FlushKept, ZenonT(40)
<1>4. RequestsTrue' /\ SucceededApplied'
  <2>1. {} \in SUBSET Requests /\ wire' \subseteq wire \cup {} /\ \A r \in {} : RequestTrue(r)
    BY <1>1, Zenon
  <2> QED
    BY <1>1, <1>3, <2>1, MeiliKept, ZenonT(40)
<1>5. batches[n].msgs \in Seq(Msg)
  BY ZenonT(40) DEF IndInv, TypeOK, Batch
<1>6. S \in SUBSET Msg
  BY <1>5, SMTT(20) DEF Range
<1>7. \A m \in S, k \in Key : Effect[m][k] # NoOp => <<m, k>> \in covered
  BY <1>1, AckedBatch, ZenonT(40)
<1>8. {m \in Msg : stream'[m] = "acked"} = {m \in Msg : stream[m] = "acked"} \cup S
  BY <1>1, <1>6, SMTT(20)
<1>9. stream' \in [Msg -> {"new", "ready", "out", "acked"}]
  BY <1>1, Zenon DEF PipeTyped
<1> HIDE DEF S
<1>10. \E T \in SUBSET Msg : Contract!Ack(T)
  <2>1. PICK T \in SUBSET Msg : T = S
    BY <1>6, SMTT(20)
  <2>2. Contract!Ack(T)
    BY <1>1, <1>7, <1>8, <2>1, ZenonT(40) DEF Contract!Ack
  <2> QED
    BY <2>2
<1>11. PipeTyped'
  BY <1>1, <1>9, ZenonT(40) DEF PipeTyped
<1>12. AckedCovered'
  BY <1>1, <1>7, <1>8, ZenonT(40) DEF AckedCovered
<1> QED
  BY <1>1, <1>3, <1>4, <1>10, <1>11, <1>12, ZenonT(40) DEF Rest

\* The process exits: the requests it left belong to an earlier run of it.
LEMMA ExitStep ==
  ASSUME PipeInv, Exit
  PROVE  Rest' /\ UNCHANGED <<stream, covered, docs>>
<1> USE DEF PipeInv
<1>1. /\ UNCHANGED <<stream, wire, tasks, succeeded, covered, docs>> /\ run' = run + 1
      /\ prefetch' = <<>> /\ pending' = [k \in Key |-> NoOp] /\ msgs' = <<>> /\ lastEnqueue' = 0
  BY DEF Exit, Reset, meiliVars
<1>2. Taken' = {} /\ run \in Nat /\ run' \in Nat
  BY <1>1 DEF Taken, PipeTyped
<1>3. PipeTyped'
  BY <1>1, <1>2, SMTT(30) DEF PipeTyped
<1>4. BatchesTrue' /\ OkSucceeded'
  BY <1>1, <1>2, SMTT(30) DEF BatchesTrue, OkSucceeded, OpsTrue, OpsFull, Range
<1>5. Enqueued' = Enqueued
  BY <1>1, Zenon DEF Enqueued
<1>6. ASSUME NEW r \in Requests, RequestTrue(r)
      PROVE  RequestTrue(r)'
  <2>1. r.id[1] \in Nat /\ r.id[1] <= run /\ OpsTrue(r.ops)
    BY <1>6, Zenon DEF RequestTrue, Requests
  <2>2. r.id[1] <= run' /\ r.id[1] # run'
    BY <1>1, <1>2, <2>1
  <2> QED
    BY <2>1, <2>2 DEF RequestTrue, OpsTrue
<1>7. RequestsTrue'
  <2>1. \A r \in wire' \cup Enqueued' : r \in Requests /\ RequestTrue(r)
    BY <1>1, <1>5, Zenon DEF PipeTyped, RequestsTrue, Enqueued
  <2> QED
    BY <1>6, <2>1, Zenon DEF RequestsTrue
<1>8. SucceededApplied'
  <2>1. \A x \in succeeded : x[1] \in Nat /\ x[1] <= run
    BY DEF SucceededApplied
  <2>2. \A x \in succeeded : x[1] <= run' /\ x[1] # run'
    BY <1>1, <1>2, <2>1, SMTT(30)
  <2> QED
    BY <1>1, <2>2 DEF SucceededApplied
<1>9. AckedCovered'
  BY <1>1 DEF AckedCovered
<1> QED
  BY <1>1, <1>3, <1>4, <1>7, <1>8, <1>9, ZenonT(40) DEF Rest

-----------------------------------------------------------------------------
(* The theorems. *)

\* Every step keeps the invariant.
LEMMA PipeStep == PipeInv /\ [PipeNext]_pipeVars => PipeInv'
<1> SUFFICES ASSUME PipeInv, [PipeNext]_pipeVars PROVE PipeInv'
  OBVIOUS
<1>1. IndInv'
  BY BatcherPart DEF PipeInv
<1>2. CASE UNCHANGED pipeVars
  <2>1. /\ UNCHANGED <<pending, msgs, lastEnqueue, batches, grp>>
        /\ UNCHANGED <<stream, prefetch, wire, tasks, succeeded, covered, run>>
    BY <1>2, SMTT(20) DEF pipeVars, vars, buffer, taken, streamVars, meiliVars
  <2>2. /\ PipeTyped' /\ BatchesTrue' /\ AckedCovered' /\ Taken' = Taken
        /\ OkSucceeded'
    BY <2>1, ZenonT(60) DEF PipeInv, PipeTyped, BatchesTrue, OpsTrue, OpsFull, AckedCovered, Taken, OkSucceeded
  <2>3. RequestsTrue' /\ SucceededApplied'
    <3>1. {} \in SUBSET Requests /\ wire' \subseteq wire \cup {} /\ \A r \in {} : RequestTrue(r)
      BY <2>1
    <3> QED
      BY <2>1, <2>2, <3>1, MeiliKept, Zenon DEF PipeInv
  <2> QED
    BY <1>1, <2>2, <2>3, ZenonT(40) DEF PipeInv
<1>3. CASE PipeNext
  <2>1. Rest'
    BY <1>3, InternalStep, StreamStep, CallStep, WireStep, FinishStep, ConcludeStep, ExitStep, Zenon
       DEF PipeNext
  <2> QED
    BY <1>1, <2>1 DEF Rest, PipeInv
<1> QED
  BY <1>2, <1>3

\* The invariant holds in every reachable state of the pipeline.
THEOREM PipeInvariance == PipeSpec => []PipeInv
BY InitPipeInv, PipeStep, PTL DEF PipeSpec

\* A message is acked only when every effect it has is in the index, or was replaced by one that
\* is: performFlush's all-or-nothing settlement, over any number of crashes, lost requests,
\* failed tasks and redeliveries.
THEOREM AckedAlwaysCovered == PipeSpec => []AckedCovered
<1>1. PipeInv => AckedCovered
  BY DEF PipeInv
<1> QED
  BY <1>1, PipeInvariance, PTL

\* The pipeline implements the index contract: its steps are tasks that apply real effects, acks
\* of messages whose effects were applied, or invisible.
THEOREM PipelineRefines == PipeSpec => ImplementsContract
<1>1. PipeInit => Contract!Init
  BY SMTT(20) DEF PipeInit, Contract!Init
<1> DEFINE acked == {m \in Msg : stream[m] = "acked"}
<1>2. PipeInv /\ [PipeNext]_pipeVars => [Contract!Next]_<<acked, covered, docs>>
  <2> SUFFICES ASSUME PipeInv, [PipeNext]_pipeVars,
                      ~(acked' = acked /\ covered' = covered /\ docs' = docs)
               PROVE  Contract!Next
    OBVIOUS
  <2>1. CASE UNCHANGED pipeVars
    BY <2>1 DEF pipeVars, streamVars, meiliVars
  <2>2. CASE Internal \/ Shutdown \/ \E h \in Handlers : Handle(h)
    BY <2>2, Zenon DEF Internal, Shutdown, Handle, streamVars, meiliVars
  <2>3. CASE \E m \in Msg : Pull(m) \/ Expire(m)
    BY <2>3, StreamStep, Zenon
  <2>4. CASE \/ \E n \in Taken, g \in Group :
                  Send(n, g) \/ \E ok \in BOOLEAN : Return(n, g, ok) \/ Poll(n, g, ok)
             \/ \E r \in wire : Land(r) \/ Lose(r)
             \/ Exit
    BY <2>4, CallStep, WireStep, ExitStep, ZenonT(40)
  <2>5. CASE \E i \in Index, ok \in BOOLEAN : Finish(i, ok)
    BY <2>5, FinishStep, ZenonT(40) DEF Contract!Next
  <2>6. CASE \E n \in Taken : \E lost \in SUBSET Range(batches[n].msgs) : Conclude(n, lost)
    BY <2>6, ConcludeStep DEF Contract!Next
  <2> QED
    BY <2>1, <2>2, <2>3, <2>4, <2>5, <2>6, ZenonT(40) DEF PipeNext
<1> QED
  BY <1>1, <1>2, PipeInvariance, PTL DEF PipeSpec, ImplementsContract, Contract!Spec
=============================================================================
