--------------------------- MODULE IndexerProcess ---------------------------
(***************************************************************************)
(* The indexer as a process (cmd/search/indexer/command.go): it validates  *)
(* its options, starts up step by step, and consumes until it is told to   *)
(* stop or a consumer does not start; every exit is followed by a new      *)
(* start.  One message is followed from JetStream, which gives up on it    *)
(* ackWait after it last heard of it, through the buffer and the flush of  *)
(* its batch, which heartbeats it, to its ack or nak, and through the      *)
(* redeliveries after that.  A flush is a client's call of MeiliClient;    *)
(* Pipeline has many messages and flushes, without time.                   *)
(***************************************************************************)
EXTENDS MeiliClient

CONSTANTS ConsumerAckWait,       \* the ackWait the options are validated against
          HeartbeatMargin, HeartbeatHardFloor,
          Options,               \* [progress, inRange]: the heartbeat interval, and whether
                                 \* every other option passes its own check
          LiveAckWaits,          \* the ackWaits the consumers may really have
          MaxTrouble, MaxHeld, MaxFlushes   \* bounds; trouble is a lost heartbeat
                                            \* or a change of an ackWait

Consumers == {"audit", "reindex"}

ASSUME ProcessBounds ==
  /\ {ConsumerAckWait, HeartbeatMargin, HeartbeatHardFloor, MaxTrouble, MaxHeld, MaxFlushes}
       \subseteq Nat
  /\ \A o \in Options : o.progress \in Nat
  /\ LiveAckWaits \subseteq [Consumers -> Nat]

\* What a flush needs of the two factors: heartbeatHardFloor is 2 and heartbeatMargin 3.
ASSUME HeartbeatFactors == HeartbeatHardFloor >= 2 /\ HeartbeatMargin >= 3

VARIABLES options,     \* the flags of the process
          phase,       \* "down", a step of the start-up, or "serving"
          checked,     \* the ackWait of each consumer as the start-up read it
          consumers,   \* each consumer's goroutine: "none", "running" or "returned"
          fed,         \* the informer's handlers have filled the policy caches
          live,        \* the ackWait of each consumer in JetStream
          message,     \* JetStream's message: "stream", "out" or "acked"
          age,         \* time since JetStream delivered it or last heard of it
          copy,        \* the process's copy of it: "none", "buffered" or "flushing"
          held,        \* how long the copy was buffered
          beat,        \* time until the next heartbeat
          missed,      \* heartbeats in a row that did not reach JetStream
          trouble,     \* heartbeats lost and changes of live so far
          flushes      \* flushes of the message so far

processVars == <<options, phase, checked, consumers, fed>>
deliveryVars == <<live, message, age, copy, held, beat, missed, trouble, flushes>>
allVars == <<vars, processVars, deliveryVars>>

NoConsumers == [c \in Consumers |-> "none"]
Unchecked == [c \in Consumers |-> 0]

\* A flush is still to come; time ends with the last one.
FlushAhead == flushes < MaxFlushes
Going == FlushAhead \/ copy = "flushing"

ProcessInit ==
  /\ Init
  /\ options \in Options /\ phase = "down"
  /\ live \in LiveAckWaits /\ checked = Unchecked
  /\ consumers = NoConsumers /\ fed = FALSE
  /\ message = "stream" /\ age = 0
  /\ copy = "none" /\ held = 0 /\ beat = 0 /\ missed = 0 /\ trouble = 0
  /\ flushes = 0

-----------------------------------------------------------------------------
(* Start-up. *)

\* Validate: the other options are in their ranges, and heartbeats fit the shipped ackWait.
Validate(o) ==
  o.inRange /\ o.progress > 0 /\ HeartbeatMargin * o.progress <= ConsumerAckWait

\* Faulty variant: one heartbeat has to fit.
CheckAckWaitOnce(ackWait) == options.progress <= ackWait

\* checkAckWait: fewer than HeartbeatHardFloor heartbeats are an error, fewer than
\* HeartbeatMargin only a warning.
CheckAckWait(ackWait) == HeartbeatHardFloor * options.progress <= ackWait

\* The client's call is over.  What it queued can only make Meilisearch later for the next
\* call, and it may be late anyway.
HangUp ==
  /\ pc' = "send" /\ next' = 0 /\ attempt' = 0
  /\ tasks' = <<>> /\ waited' = 0 /\ queue' = <<>> /\ left' = WaitTimeout

\* Everything of the process is gone: buffers, flushes, their calls and their heartbeats.
Die ==
  /\ phase' = "down" /\ consumers' = NoConsumers /\ fed' = FALSE
  /\ checked' = Unchecked
  /\ copy' = "none" /\ held' = 0 /\ beat' = 0 /\ missed' = 0 /\ HangUp
  /\ UNCHANGED <<options, live, message, age, trouble, flushes>>

Goto(step) == phase' = step /\ UNCHANGED <<options, fed>>

\* The pod's container starts; without valid options it exits at once.
Launch ==
  /\ phase = "down" /\ FlushAhead
  /\ phase' = IF Validate(options) THEN "metrics" ELSE "down"
  /\ UNCHANGED <<vars, options, checked, consumers, fed, deliveryVars>>

\* The step from one phase to the next; any of its calls may fail, which ends the process.
StartStep(from, to) ==
  /\ phase = from
  /\ \/ Goto(to) /\ UNCHANGED <<vars, checked, consumers, deliveryVars>>
     \/ Die

ServeMetrics == StartStep("metrics", "caches")

\* Two policy caches on one informer, and their handlers.
RegisterHandlers == StartStep("caches", "sync")

\* The store of the informer is in sync.
WaitForCacheSync == StartStep("sync", "nats")

ConnectNATS == StartStep("nats", "audit")

\* Stream and consumer are looked up, and the heartbeats are held against its ackWait.
LookUp(c, to) ==
  /\ phase = c
  /\ \/ /\ CheckAckWait(live[c])
        /\ Goto(to)
        /\ checked' = [checked EXCEPT ![c] = live[c]]
        /\ UNCHANGED <<vars, consumers, deliveryVars>>
     \/ Die

\* The client is built, the batchers and the two consumers are started.  A consumer whose
\* Consume fails returns; another one runs until the process is told to stop.
StartConsumers ==
  /\ phase = "client"
  /\ \/ /\ Goto("serving")
        /\ consumers' \in [Consumers -> {"running", "returned"}]
        /\ UNCHANGED <<vars, checked, deliveryVars>>
     \/ Die

\* The handlers run behind the informer's store, which alone WaitForCacheSync waits for.
FeedPolicies ==
  /\ phase \notin {"down", "metrics", "caches"} /\ ~fed /\ fed' = TRUE
  /\ UNCHANGED <<vars, options, phase, checked, consumers, deliveryVars>>

-----------------------------------------------------------------------------
(* The end of the process. *)

\* The shared cache stops with an error: klog.Fatalf.
CacheFatal == phase \notin {"down", "metrics", "caches"} /\ Die

\* The process is told to stop: the select at the end of Run returns, and with it main.
Cancel == phase = "serving" /\ Die

\* The select at the end of Run takes the first consumer's result.
Return == phase = "serving" /\ (\E c \in Consumers : consumers[c] = "returned") /\ Die

-----------------------------------------------------------------------------
(* The message. *)

\* The audit consumer takes the message into the buffer; without a policy there is nothing
\* to index and it is acked.  A second copy waits until the first one is settled.
Deliver ==
  /\ consumers["audit"] = "running" /\ message = "stream" /\ copy = "none" /\ FlushAhead
  /\ IF fed THEN message' = "out" /\ copy' = "buffered"
     ELSE message' = "acked" /\ UNCHANGED copy
  /\ age' = 0 /\ held' = 0
  /\ UNCHANGED <<vars, processVars, live, beat, missed, trouble, flushes>>

\* The flush of its batch: a first heartbeat follows after one interval.
StartFlush ==
  /\ copy = "buffered" /\ FlushAhead
  /\ copy' = "flushing" /\ beat' = options.progress /\ missed' = 0
  /\ flushes' = flushes + 1
  /\ UNCHANGED <<vars, processVars, live, message, age, held, trouble>>

\* The goroutine of the flush is in the client's call.
CallStep ==
  /\ copy = "flushing"
  /\ \/ Call \/ PollFails
     \/ \E err \in {"broken", "timeout", "refused"}, landed \in BOOLEAN : SendFails(err, landed)
  /\ UNCHANGED <<processVars, deliveryVars>>

RunTask == copy = "flushing" /\ (\E n \in DOMAIN queue : Run(n)) /\ UNCHANGED <<processVars, deliveryVars>>

\* A tick of startAckProgress: InProgress reaches JetStream or is lost, which is ignored.
Heartbeat ==
  /\ copy = "flushing" /\ beat = 0 /\ beat' = options.progress
  /\ \/ /\ age' = 0 /\ missed' = 0 /\ UNCHANGED trouble
     \/ /\ trouble < MaxTrouble /\ trouble' = trouble + 1
        /\ missed' = missed + 1
        /\ UNCHANGED age
  /\ UNCHANGED <<vars, processVars, live, message, copy, held, flushes>>

\* The call has returned: the heartbeats end, then the message is acked or naked.
Settle ==
  /\ copy = "flushing" /\ pc \in {"ok", "error"}
  /\ message' = (IF pc = "ok" THEN "acked" ELSE "stream") /\ age' = 0
  /\ copy' = "none" /\ held' = 0 /\ beat' = 0 /\ missed' = 0 /\ HangUp
  /\ UNCHANGED <<processVars, live, trouble, flushes>>

\* JetStream, ackWait after it last heard of the message.
Expire ==
  /\ Going /\ message = "out" /\ age >= live["audit"]
  /\ message' = "stream" /\ age' = 0
  /\ UNCHANGED <<vars, processVars, live, copy, held, beat, missed, trouble, flushes>>

\* The consumer's manifest is reconciled.
ReconcileConsumer ==
  /\ Going /\ trouble < MaxTrouble /\ trouble' = trouble + 1
  /\ live' \in LiveAckWaits \ {live}
  /\ UNCHANGED <<vars, processVars, message, age, copy, held, beat, missed, flushes>>

\* Time passes for JetStream, the buffer, the heartbeats and the client's deadline alike; a
\* heartbeat that is due goes first.
Older(t) == IF t < ConsumerAckWait THEN t + 1 ELSE t
Advance ==
  /\ Going
  /\ copy = "flushing" => beat > 0
  /\ copy = "buffered" => held < MaxHeld
  /\ age' = IF message = "out" THEN Older(age) ELSE age
  /\ held' = IF copy = "buffered" THEN held + 1 ELSE held
  /\ beat' = IF copy = "flushing" THEN beat - 1 ELSE beat
  /\ IF copy = "flushing" /\ pc = "wait" /\ left > 0 THEN Tick ELSE UNCHANGED vars
  /\ UNCHANGED <<processVars, live, message, copy, missed, trouble, flushes>>

-----------------------------------------------------------------------------
ProcessNext ==
  \/ Launch \/ ServeMetrics \/ RegisterHandlers \/ WaitForCacheSync \/ ConnectNATS
  \/ LookUp("audit", "reindex") \/ LookUp("reindex", "client") \/ StartConsumers
  \/ FeedPolicies \/ CacheFatal \/ Cancel \/ Return
  \/ Deliver \/ StartFlush \/ CallStep \/ RunTask \/ Heartbeat \/ Settle \/ Expire
  \/ ReconcileConsumer \/ Advance

ProcessSpec == ProcessInit /\ [][ProcessNext]_allVars

\* The goroutine of the flush and the clock with its ticker go on; nothing is assumed of
\* Meilisearch, of JetStream, or of the start-up's calls.
FlushStep == copy = "flushing" /\ ((Call /\ UNCHANGED <<processVars, deliveryVars>>) \/ Settle)
ProcessFairness == WF_allVars(FlushStep) /\ WF_allVars(Advance \/ Heartbeat)

FairProcessSpec == ProcessSpec /\ ProcessFairness

-----------------------------------------------------------------------------
(* Properties. *)

\* The heartbeats in a row that may be lost.
Spare == IF checked["audit"] >= HeartbeatMargin * options.progress THEN 1 ELSE 0

\* JetStream does not give up on a message while its flush runs, however long Meilisearch
\* takes and also after restarts, if the message was buffered for less than one heartbeat
\* interval, the ackWait is the one the start-up checked, and no heartbeat was lost; with
\* an ackWait of at least HeartbeatMargin intervals one in a row may be lost
\* (startAckProgress with checkAckWait).
HeartbeatKeeps ==
  [][message = "out" /\ message' = "stream" /\ copy = "flushing" /\ copy' = "flushing" =>
       \/ held >= options.progress
       \/ live["audit"] # checked["audit"]
       \/ missed > Spare]_allVars

\* A flush ends: its message is settled, or the process is gone, although Meilisearch may
\* never run a task (the shared deadline of WaitForTasks).
Settles == copy = "flushing" ~> copy # "flushing"

=============================================================================
