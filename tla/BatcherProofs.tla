--------------------------- MODULE BatcherProofs ---------------------------
(***************************************************************************)
(* Proofs that the batcher keeps its safety properties for every number of *)
(* indexes, documents, messages, handlers, slots and batches.  IndInv is   *)
(* the inductive invariant; each lemma below preserves one of its conjuncts*)
(* and IndStep collects them.                                              *)
(***************************************************************************)
EXTENDS Batcher, FiniteSetTheorems, SequenceTheorems, TLAPS

----------------------------------------------------------------------------
(* Facts about the operators. *)

\* Extend keeps every old value and adds the new one.
LEMMA ExtendFacts ==
  ASSUME NEW f, NEW v, lastEnqueue \in Nat
  PROVE  /\ Extend(f, v) = [n \in 1..(lastEnqueue + 1) |-> Extend(f, v)[n]]
         /\ \A n \in Taken : Extend(f, v)[n] = f[n]
         /\ Extend(f, v)[lastEnqueue + 1] = v
BY DEF Extend, Taken

\* An extended function keeps its range.
LEMMA ExtendType ==
  ASSUME NEW f, NEW v, NEW S, lastEnqueue \in Nat,
         f \in [Taken -> S], v \in S
  PROVE  Extend(f, v) \in [1..(lastEnqueue + 1) -> S]
BY DEF Extend, Taken

\* The buffer after a Submit is a buffer, and holds no operation of an unknown
\* message.
LEMMA BufferedType ==
  ASSUME TypeOK, NEW m \in Msg, NEW dels \in SUBSET Key, NEW ups \in SUBSET Key
  PROVE  Buffered(m, dels, ups) \in [Key -> Op \cup {NoOp}]
<1> DEFINE u == [isDelete |-> FALSE, src |-> m]
           e == [isDelete |-> TRUE, src |-> m]
<1>1. u \in Op /\ e \in Op
  BY DEF Op
<1> HIDE DEF u, e
<1>2. Buffered(m, dels, ups) =
        [k \in Key |-> IF k \in ups THEN u ELSE IF k \in dels THEN e ELSE pending[k]]
  BY DEF Buffered, u, e
<1>3. \A k \in Key : pending[k] \in Op \cup {NoOp}
  BY DEF TypeOK
<1> QED  BY <1>1, <1>2, <1>3

\* trackMessage keeps a sequence of messages, at most one longer.
LEMMA TrackedFacts ==
  ASSUME TypeOK, NEW m \in Msg, NEW metaOK \in BOOLEAN
  PROVE  /\ Tracked(m, metaOK) \in Seq(Msg)
         /\ Len(Tracked(m, metaOK)) <= Len(msgs) + 1
         /\ Range(msgs) \subseteq Range(Tracked(m, metaOK))
         /\ m \in Range(Tracked(m, metaOK)) \/ m \in msgSeqs
<1>1. msgs \in Seq(Msg)
  BY DEF TypeOK
<1>2. CASE Tracked(m, metaOK) = msgs /\ m \in msgSeqs
  BY <1>1, <1>2
<1>3. CASE Tracked(m, metaOK) = Append(msgs, m)
  <2> DEFINE t == Append(msgs, m)
  <2>1. /\ t \in Seq(Msg) /\ Len(t) = Len(msgs) + 1
        /\ \A i \in 1..Len(msgs) : t[i] = msgs[i]
        /\ t[Len(msgs) + 1] = m
    BY <1>1, AppendProperties
  <2>2. /\ DOMAIN t = 1..(Len(msgs) + 1) /\ DOMAIN msgs = 1..Len(msgs)
        /\ Len(msgs) \in Nat
    BY <1>1, <2>1
  <2> HIDE DEF t
  <2>3. Range(msgs) \subseteq Range(t) /\ m \in Range(t)
    BY <2>1, <2>2 DEF Range
  <2> QED  BY <1>3, <2>1, <2>2, <2>3 DEF t
<1> QED  BY <1>2, <1>3 DEF Tracked

\* The count setPending maintains is again exact.
LEMMA CountExact ==
  ASSUME TypeOK, PendingUpsertsExact,
         NEW m \in Msg, NEW dels \in SUBSET Key, NEW ups \in SUBSET Key
  PROVE  /\ CountAfter(dels, ups) = Cardinality(UpsertKeys(Buffered(m, dels, ups)))
         /\ CountAfter(dels, ups) \in Nat
<1> DEFINE U == UpsertKeys(pending)
           D == U \ dels
<1>1. IsFiniteSet(Key)
  BY SetsAssumption, FS_Product DEF Key
<1>2. U \in SUBSET Key
  BY DEF UpsertKeys
<1>3. IsFiniteSet(U) /\ IsFiniteSet(ups) /\ IsFiniteSet(dels)
  BY <1>1, <1>2, FS_Subset
<1>4. IsFiniteSet(D) /\ Cardinality(D) = Cardinality(U) - Cardinality(U \cap dels)
  BY <1>3, FS_Difference
<1>5. /\ IsFiniteSet(ups \cup D)
      /\ Cardinality(ups \cup D) = Cardinality(ups) + Cardinality(D) - Cardinality(ups \cap D)
  BY <1>3, <1>4, FS_Union
<1>6. UpsertKeys(Buffered(m, dels, ups)) = ups \cup D
  <2> DEFINE u == [isDelete |-> FALSE, src |-> m]
             e == [isDelete |-> TRUE, src |-> m]
  <2>1. u \in Op /\ e \in Op /\ ~u.isDelete /\ e.isDelete
    BY DEF Op
  <2>2. u # NoOp /\ e # NoOp
    BY <2>1, SetsAssumption, Zenon
  <2>3. IsUpsert(u) /\ ~IsUpsert(e)
    BY <2>1, <2>2 DEF IsUpsert
  <2> HIDE DEF u, e
  <2>4. \A k \in Key : Buffered(m, dels, ups)[k] =
          IF k \in ups THEN u ELSE IF k \in dels THEN e ELSE pending[k]
    BY DEF Buffered, u, e
  <2>5. \A k \in Key : IsUpsert(Buffered(m, dels, ups)[k]) <=> k \in ups \cup D
    BY <2>3, <2>4 DEF UpsertKeys
  <2> QED  BY <1>2, <2>5 DEF UpsertKeys
<1>7. /\ Cardinality(U) \in Nat /\ Cardinality(ups) \in Nat
      /\ Cardinality(ups \cup D) \in Nat /\ Cardinality(D) \in Nat
  BY <1>3, <1>4, <1>5, FS_CardinalityType
<1>8. IsFiniteSet(U \cap dels) /\ IsFiniteSet(ups \cap D)
  BY <1>3, FS_Intersection
<1>9. Cardinality(U \cap dels) \in Nat /\ Cardinality(ups \cap D) \in Nat
  BY <1>8, FS_CardinalityType
<1>10. dels \cap U = U \cap dels
  OBVIOUS
<1> HIDE DEF D
<1>11. CountAfter(dels, ups) =
         Cardinality(U) - Cardinality(U \cap dels) - Cardinality(ups \cap D) + Cardinality(ups)
  BY <1>10 DEF CountAfter, PendingUpsertsExact, D
<1> HIDE DEF U
<1> QED  BY <1>4, <1>5, <1>6, <1>7, <1>9, <1>11

----------------------------------------------------------------------------
(* takeBatch, once for the two actions that call it. *)

\* What a takeBatch leaves of the earlier batches and adds for the new one.
LEMMA TakeBatchFacts ==
  ASSUME TypeOK, NEW l \in Launcher, NEW p \in [Key -> Op \cup {NoOp}],
         NEW ms \in Seq(Msg), TakeBatch(l, p, ms)
  PROVE  /\ lastEnqueue' = lastEnqueue + 1
         /\ lastEnqueue + 1 \notin Taken
         /\ Taken' = Taken \cup {lastEnqueue + 1}
         /\ \A n \in Taken : /\ phase'[n] = phase[n]
                             /\ grp'[n] = grp[n]
                             /\ batches'[n] = batches[n]
         /\ phase'[lastEnqueue + 1] = "turn"
         /\ grp'[lastEnqueue + 1] = [g \in Group |-> "none"]
         /\ batches'[lastEnqueue + 1] = [ops |-> p, msgs |-> ms]
         /\ launcher' = [launcher EXCEPT ![l] = lastEnqueue + 1]
<1>1. lastEnqueue \in Nat
  BY DEF TypeOK
<1>2. Taken' = Taken \cup {lastEnqueue + 1} /\ lastEnqueue + 1 \notin Taken
  BY <1>1 DEF TakeBatch, Taken
<1> QED  BY <1>1, <1>2, ExtendFacts DEF TakeBatch

\* takeBatch yields a well-typed state.
LEMMA TakeBatchType ==
  ASSUME TypeOK, NEW l \in Launcher, NEW p \in [Key -> Op \cup {NoOp}],
         NEW ms \in Seq(Msg), TakeBatch(l, p, ms),
         UNCHANGED <<flushSem, sem, ctxDone, tickerAlive>>
  PROVE  TypeOK'
<1>1. lastEnqueue \in Nat
  BY DEF TypeOK
<1>2. Taken' = 1..(lastEnqueue + 1)
  BY DEF TakeBatch, Taken
<1>3. [ops |-> p, msgs |-> ms] \in Batch
  BY DEF Batch
<1>4. batches' \in [Taken' -> Batch]
  BY <1>1, <1>2, <1>3, ExtendType, ZenonT(40) DEF TakeBatch, TypeOK
<1>5. phase' \in [Taken' -> Phases]
  <2>1. "turn" \in Phases
    BY DEF Phases
  <2> QED  BY <1>1, <1>2, <2>1, ExtendType DEF TakeBatch, TypeOK
<1>6. grp' \in [Taken' -> [Group -> GroupStates]]
  <2>1. [g \in Group |-> "none"] \in [Group -> GroupStates]
    BY DEF GroupStates
  <2> QED  BY <1>1, <1>2, <2>1, ExtendType, Zenon DEF TakeBatch, TypeOK
<1>7. launcher' \in [Launcher -> 0..lastEnqueue']
  BY <1>1 DEF TakeBatch, TypeOK
<1>8. /\ pending' \in [Key -> Op \cup {NoOp}]
      /\ pendingUpserts' \in Nat
      /\ msgs' \in Seq(Msg)
      /\ msgSeqs' \in SUBSET Msg
      /\ lastEnqueue' \in Nat
  BY <1>1 DEF TakeBatch
<1> QED  BY <1>4, <1>5, <1>6, <1>7, <1>8 DEF TypeOK

\* The arguments of Submit have their types.
LEMMA ContentsType ==
  ASSUME NEW c \in Contents
  PROVE  c.dels \in SUBSET Key /\ c.ups \in SUBSET Key
BY SetsAssumption

----------------------------------------------------------------------------
(* The inductive step, conjunct by conjunct. *)

\* Every action keeps the variables in their types.
LEMMA TypeStep ==
  ASSUME IndInv, [Next]_vars
  PROVE  TypeOK'
<1> USE DEF IndInv
<1>1. ASSUME NEW h \in Handlers, NEW m \in Msg, NEW c \in Contents,
             NEW metaOK \in BOOLEAN, Submit(h, m, c.dels, c.ups, metaOK)
      PROVE  TypeOK'
  <2> DEFINE p  == Buffered(m, c.dels, c.ups)
             n  == CountAfter(c.dels, c.ups)
             ms == Tracked(m, metaOK)
  <2>1. p \in [Key -> Op \cup {NoOp}] /\ n \in Nat /\ ms \in Seq(Msg)
    BY ContentsType, BufferedType, CountExact, TrackedFacts, Zenon
  <2>2. h \in Launcher
    BY DEF Launcher
  <2> HIDE DEF p, n, ms
  <2>3. CASE Due(ms, n) /\ TakeBatch(h, p, ms)
    BY <1>1, <2>1, <2>2, <2>3, TakeBatchType DEF Submit
  <2>4. CASE /\ pending' = p /\ pendingUpserts' = n /\ msgs' = ms
             /\ msgSeqs' = IF metaOK THEN msgSeqs \cup {m} ELSE msgSeqs
             /\ UNCHANGED <<taken, phase, grp, launcher>>
    BY <1>1, <2>1, <2>4 DEF Submit, TypeOK, Taken, taken
  <2> QED  BY <1>1, <2>3, <2>4 DEF Submit, p, n, ms
<1>2. CASE Flush
  <2>1. Ticker \in Launcher
    BY DEF Launcher
  <2> QED  BY <1>2, <2>1, TakeBatchType DEF Flush, TypeOK
<1>3. CASE StopTicker \/ Cancel
  BY <1>3, Zenon DEF StopTicker, Cancel, TypeOK, Taken, buffer, taken
<1>4. ASSUME NEW l \in Launcher, AwaitTurn(l) \/ AcquireFlushSlot(l) \/ Abandon(l)
      PROVE  TypeOK'
  <2>1. \A o : StartGroups(o) \in [Group -> GroupStates]
    BY DEF StartGroups, GroupStates
  <2>2. CASE AwaitTurn(l)
    BY <2>2 DEF AwaitTurn, TypeOK, Taken, buffer, taken, Phases
  <2>3. CASE AcquireFlushSlot(l)
    BY <2>1, <2>3 DEF AcquireFlushSlot, TypeOK, Taken, buffer, taken, Phases
  <2>4. CASE Abandon(l)
    BY <2>4 DEF Abandon, TypeOK, Taken, buffer, taken, Phases
  <2> QED  BY <1>4, <2>2, <2>3, <2>4
<1>5. ASSUME NEW n \in Taken, CloseTurn(n) \/ Settle(n)
      PROVE  TypeOK'
  <2>1. \A v \in Phases : phase' = [phase EXCEPT ![n] = v] => phase' \in [Taken -> Phases]
    BY DEF TypeOK
  <2>2. phase' \in [Taken -> Phases]
    BY <1>5, <2>1 DEF CloseTurn, Settle, Phases
  <2>3. flushSem' \in Int
    BY <1>5 DEF CloseTurn, Settle, TypeOK
  <2>4. UNCHANGED <<buffer, taken, grp, launcher, sem, ctxDone, tickerAlive>>
    BY <1>5 DEF CloseTurn, Settle
  <2> QED  BY <2>2, <2>3, <2>4 DEF TypeOK, Taken, buffer, taken
<1>6. ASSUME NEW n \in Taken, NEW g \in Group, GroupStep(n, g)
      PROVE  TypeOK'
  <2>1. \A s \in GroupStates : SetGroup(n, g, s) => grp' \in [Taken -> [Group -> GroupStates]]
    BY SMTT(30) DEF SetGroup, TypeOK
  <2>2. grp' \in [Taken -> [Group -> GroupStates]]
    BY <1>6, <2>1 DEF GroupStep, AcquireUpload, EnqueueReturn, WaitReturn, GroupStates
  <2> QED  BY <1>6, <2>2 DEF GroupStep, AcquireUpload, EnqueueReturn, WaitReturn,
              TypeOK, Taken, buffer, taken
<1>7. CASE UNCHANGED vars
  BY <1>7, Zenon DEF vars, TypeOK, Taken, buffer, taken
<1> QED  BY <1>1, <1>2, <1>3, <1>4, <1>5, <1>6, <1>7 DEF Next, LaunchStep

\* The counter stays exact: setPending corrects it for every replaced upsert.
LEMMA CountStep ==
  ASSUME IndInv, [Next]_vars
  PROVE  PendingUpsertsExact'
<1> USE DEF IndInv
<1>1. Cardinality(UpsertKeys([k \in Key |-> NoOp])) = 0
  <2>1. UpsertKeys([k \in Key |-> NoOp]) = {}
    BY Zenon DEF UpsertKeys, IsUpsert
  <2> QED  BY <2>1, FS_EmptySet
<1>2. ASSUME NEW l, NEW p, NEW ms, TakeBatch(l, p, ms)
      PROVE  PendingUpsertsExact'
  BY <1>1, <1>2, Zenon DEF TakeBatch, PendingUpsertsExact
<1>3. ASSUME NEW h \in Handlers, NEW m \in Msg, NEW c \in Contents,
             NEW metaOK \in BOOLEAN, Submit(h, m, c.dels, c.ups, metaOK)
      PROVE  PendingUpsertsExact'
  <2>1. CountAfter(c.dels, c.ups) = Cardinality(UpsertKeys(Buffered(m, c.dels, c.ups)))
    BY ContentsType, CountExact
  <2> QED  BY <1>2, <1>3, <2>1 DEF Submit, PendingUpsertsExact
<1>4. CASE Flush
  BY <1>2, <1>4 DEF Flush
<1>5. CASE UNCHANGED buffer
  BY <1>5 DEF buffer, PendingUpsertsExact
<1>6. ASSUME NEW n \in Taken, NEW g \in Group, GroupStep(n, g)
      PROVE  UNCHANGED buffer
  BY <1>6, Zenon DEF GroupStep, AcquireUpload, EnqueueReturn, WaitReturn
<1> QED  BY <1>3, <1>4, <1>5, <1>6 DEF Next, LaunchStep, StopTicker, Cancel, AwaitTurn,
            AcquireFlushSlot, Abandon, CloseTurn, Settle, vars

\* The messages a Submit buffers keep the buffer below its triggers or are
\* taken at once, together with every operation they produced.
LEMMA BufferStep ==
  ASSUME IndInv, [Next]_vars
  PROVE  BufferBounded' /\ SeqsTracked' /\ NoSplit'
<1> USE DEF IndInv
<1>1. ASSUME NEW l \in Launcher, NEW p \in [Key -> Op \cup {NoOp}], NEW ms \in Seq(Msg),
             TakeBatch(l, p, ms), Len(ms) <= BatchSize,
             \A k \in Key : p[k] # NoOp => p[k].src \in Range(ms)
      PROVE  BufferBounded' /\ SeqsTracked' /\ NoSplit'
  <2> DEFINE new == lastEnqueue + 1
             bt  == [ops |-> p, msgs |-> ms]
  <2>1. /\ Taken' = Taken \cup {new} /\ batches'[new] = bt
        /\ \A n \in Taken : batches'[n] = batches[n]
    BY <1>1, TakeBatchFacts, SMTT(30)
  <2>2. /\ pending' = [k \in Key |-> NoOp] /\ pendingUpserts' = 0
        /\ msgs' = <<>> /\ msgSeqs' = {}
    BY <1>1 DEF TakeBatch
  <2>3. bt.ops = p /\ bt.msgs = ms
    OBVIOUS
  <2> HIDE DEF new, bt
  <2>4. BufferBounded'
    <3>1. \A n \in Taken' : Len(batches'[n].msgs) <= BatchSize
      BY <1>1, <2>1, <2>3 DEF BufferBounded
    <3>2. Len(<<>>) = 0 /\ BatchSize \in Nat \ {0}
      BY SizesAssumption
    <3> QED  BY <2>2, <3>1, <3>2 DEF BufferBounded
  <2>5. SeqsTracked'
    BY <2>2 DEF SeqsTracked
  <2>6. NoSplit'
    BY <1>1, <2>1, <2>2, <2>3, Zenon DEF NoSplit
  <2> QED  BY <2>4, <2>5, <2>6
<1>2. ASSUME NEW h \in Handlers, NEW m \in Msg, NEW c \in Contents,
             NEW metaOK \in BOOLEAN, Submit(h, m, c.dels, c.ups, metaOK)
      PROVE  BufferBounded' /\ SeqsTracked' /\ NoSplit'
  <2> DEFINE p  == Buffered(m, c.dels, c.ups)
             n  == CountAfter(c.dels, c.ups)
             ms == Tracked(m, metaOK)
  <2>1. p \in [Key -> Op \cup {NoOp}] /\ n \in Nat /\ ms \in Seq(Msg)
    BY ContentsType, BufferedType, CountExact, TrackedFacts
  <2>2. Len(ms) <= Len(msgs) + 1 /\ Range(msgs) \subseteq Range(ms) /\ m \in Range(ms)
    BY TrackedFacts DEF SeqsTracked
  <2>3. \A k \in Key : p[k] # NoOp => p[k].src \in Range(ms)
    <3>1. ASSUME NEW k \in Key PROVE p[k] = pending[k] \/ p[k].src = m
      BY DEF Buffered
    <3> HIDE DEF p, ms
    <3> QED  BY <2>2, <3>1 DEF NoSplit
  <2>4. Len(msgs) \in Nat /\ Len(ms) \in Nat /\ BatchSize \in Nat \ {0}
    BY <2>1, SizesAssumption DEF TypeOK
  <2> HIDE DEF p, n, ms
  <2>5. Len(ms) <= BatchSize
    BY <2>2, <2>4 DEF BufferBounded
  <2>6. CASE Due(ms, n) /\ TakeBatch(h, p, ms)
    <3>1. h \in Launcher
      BY DEF Launcher
    <3> QED  BY <1>1, <2>1, <2>3, <2>5, <2>6, <3>1
  <2>7. CASE /\ ~Due(ms, n)
             /\ pending' = p /\ pendingUpserts' = n /\ msgs' = ms
             /\ msgSeqs' = IF metaOK THEN msgSeqs \cup {m} ELSE msgSeqs
             /\ UNCHANGED <<taken, phase, grp, launcher>>
    <3>1. Taken' = Taken /\ batches' = batches
      BY <2>7 DEF Taken, taken
    <3>2. BufferBounded'
      BY <2>1, <2>4, <2>7, <3>1 DEF BufferBounded, Due
    <3>3. SeqsTracked'
      BY <2>2, <2>7, Zenon DEF SeqsTracked
    <3>4. NoSplit'
      BY <2>3, <2>7, <3>1, ZenonT(40) DEF NoSplit
    <3> QED  BY <3>2, <3>3, <3>4
  <2> QED  BY <1>2, <2>6, <2>7, Zenon DEF Submit, p, n, ms
<1>3. CASE Flush
  <2>1. Ticker \in Launcher /\ Len(msgs) <= BatchSize
    BY SizesAssumption, SMTT(30) DEF Launcher, BufferBounded, TypeOK
  <2> QED  BY <1>1, <1>3, <2>1 DEF Flush, TypeOK, NoSplit
<1>4. CASE UNCHANGED <<buffer, taken>>
  BY <1>4 DEF buffer, taken, Taken, BufferBounded, SeqsTracked, NoSplit
<1>5. ASSUME NEW n \in Taken, NEW g \in Group, GroupStep(n, g)
      PROVE  UNCHANGED <<buffer, taken>>
  BY <1>5 DEF GroupStep, AcquireUpload, EnqueueReturn, WaitReturn
<1> QED  BY <1>2, <1>3, <1>4, <1>5, Zenon DEF Next, LaunchStep, StopTicker, Cancel, AwaitTurn,
            AcquireFlushSlot, Abandon, CloseTurn, Settle, vars

----------------------------------------------------------------------------
(* The phases of the batches. *)

\* A Submit or Flush either takes a batch or leaves the batches alone.
LEMMA TakeOrKeep ==
  ASSUME IndInv,
         \/ Flush
         \/ \E h \in Handlers, m \in Msg, c \in Contents, metaOK \in BOOLEAN :
              Submit(h, m, c.dels, c.ups, metaOK)
  PROVE  /\ UNCHANGED <<flushSem, sem, ctxDone, tickerAlive>>
         /\ \/ UNCHANGED <<taken, phase, grp, launcher>>
            \/ \E l \in Launcher, p \in [Key -> Op \cup {NoOp}], ms \in Seq(Msg) :
                 launcher[l] = 0 /\ TakeBatch(l, p, ms)
<1> USE DEF IndInv
<1>1. CASE Flush
  <2>1. Ticker \in Launcher
    BY Zenon DEF Launcher
  <2> QED  BY <1>1, <2>1 DEF Flush, TypeOK
<1>2. ASSUME NEW h \in Handlers, NEW m \in Msg, NEW c \in Contents,
             NEW metaOK \in BOOLEAN, Submit(h, m, c.dels, c.ups, metaOK)
      PROVE  /\ UNCHANGED <<flushSem, sem, ctxDone, tickerAlive>>
             /\ \/ UNCHANGED <<taken, phase, grp, launcher>>
                \/ \E l \in Launcher, p \in [Key -> Op \cup {NoOp}], ms \in Seq(Msg) :
                     launcher[l] = 0 /\ TakeBatch(l, p, ms)
  <2>1. /\ Buffered(m, c.dels, c.ups) \in [Key -> Op \cup {NoOp}]
        /\ Tracked(m, metaOK) \in Seq(Msg)
    BY ContentsType, BufferedType, TrackedFacts
  <2>2. h \in Launcher
    BY DEF Launcher
  <2> QED  BY <1>2, <2>1, <2>2, Zenon DEF Submit
<1> QED  BY <1>1, <1>2

\* A task group's step moves no batch and no launcher.
LEMMA GroupStepKeeps ==
  ASSUME NEW n, NEW g, GroupStep(n, g)
  PROVE  UNCHANGED <<buffer, taken, phase, launcher, flushSem, ctxDone, tickerAlive>>
BY DEF GroupStep, AcquireUpload, EnqueueReturn, WaitReturn

\* A batch waits exactly while a launcher is blocked on it.
LEMMA LaunchingStep ==
  ASSUME IndInv, [Next]_vars
  PROVE  Launching'
<1> USE DEF IndInv
<1>1. ASSUME NEW l \in Launcher, NEW p \in [Key -> Op \cup {NoOp}], NEW ms \in Seq(Msg),
             launcher[l] = 0, TakeBatch(l, p, ms)
      PROVE  Launching'
  <2> DEFINE new == lastEnqueue + 1
  <2>1. /\ new \notin Taken /\ Taken' = Taken \cup {new}
        /\ \A n \in Taken : phase'[n] = phase[n]
        /\ phase'[new] = "turn"
        /\ launcher' = [launcher EXCEPT ![l] = new]
    BY <1>1, TakeBatchFacts, Zenon
  <2>2. \A x \in Launcher : launcher[x] # 0 => launcher[x] \in Taken
    BY DEF TypeOK, Taken
  <2>3. launcher \in [Launcher -> 0..lastEnqueue] /\ new # 0
    BY DEF TypeOK
  <2> HIDE DEF new
  <2>4. /\ launcher'[l] = new
        /\ \A x \in Launcher : x # l => launcher'[x] = launcher[x]
    BY <2>1, <2>3
  <2>5. \A x \in Launcher : launcher'[x] # 0 => phase'[launcher'[x]] \in {"turn", "slot"}
    BY <2>1, <2>2, <2>4 DEF Launching
  <2>6. \A x, y \in Launcher : launcher'[x] # 0 /\ launcher'[x] = launcher'[y] => x = y
    BY <2>1, <2>2, <2>3, <2>4 DEF Launching
  <2>7. \A n \in Taken' : phase'[n] \in {"turn", "slot"} => \E x \in Launcher : launcher'[x] = n
    <3> SUFFICES ASSUME NEW n \in Taken', phase'[n] \in {"turn", "slot"}
                 PROVE  \E x \in Launcher : launcher'[x] = n
      OBVIOUS
    <3>1. CASE n = new
      BY <2>4, <3>1
    <3>2. CASE n \in Taken
      <4>1. PICK x \in Launcher : launcher[x] = n
        BY <2>1, <3>2 DEF Launching
      <4>2. n # 0
        BY <3>2 DEF Taken, TypeOK
      <4> QED  BY <1>1, <2>4, <4>1, <4>2
    <3> QED  BY <2>1, <3>1, <3>2
  <2> QED  BY <2>5, <2>6, <2>7, Zenon DEF Launching
<1>2. CASE UNCHANGED <<taken, phase, launcher>>
  BY <1>2 DEF Launching, taken, Taken
<1>3. ASSUME NEW l \in Launcher, AwaitTurn(l)
      PROVE  Launching'
  <2>1. launcher[l] \in Taken
    BY <1>3 DEF AwaitTurn, TypeOK, Taken
  <2>2. /\ launcher' = launcher /\ Taken' = Taken
        /\ phase[launcher[l]] = "turn"
        /\ phase'[launcher[l]] = "slot"
        /\ \A n \in Taken : n # launcher[l] => phase'[n] = phase[n]
    BY <1>3, <2>1 DEF AwaitTurn, TypeOK, taken, Taken
  <2>3. \A x \in Launcher : launcher[x] # 0 => launcher[x] \in Taken
    BY DEF TypeOK, Taken
  <2> QED  BY <2>1, <2>2, <2>3 DEF Launching
<1>4. ASSUME NEW l \in Launcher, AcquireFlushSlot(l) \/ Abandon(l)
      PROVE  Launching'
  <2>1. launcher[l] \in Taken /\ launcher[l] # 0
    BY <1>4 DEF AcquireFlushSlot, Abandon, TypeOK, Taken
  <2>2. /\ Taken' = Taken
        /\ phase'[launcher[l]] \in {"enqueue", "abandoned"}
        /\ \A n \in Taken : n # launcher[l] => phase'[n] = phase[n]
        /\ launcher'[l] = 0
        /\ \A x \in Launcher : x # l => launcher'[x] = launcher[x]
    BY <1>4, <2>1, Zenon DEF AcquireFlushSlot, Abandon, TypeOK, taken, Taken
  <2>3. \A x \in Launcher : launcher[x] # 0 => launcher[x] \in Taken
    BY DEF TypeOK, Taken
  <2> QED  BY <2>1, <2>2, <2>3 DEF Launching
<1>5. ASSUME NEW n \in Taken, CloseTurn(n) \/ Settle(n)
      PROVE  Launching'
  <2>1. /\ Taken' = Taken /\ launcher' = launcher
        /\ phase[n] \in {"enqueue", "wait"}
        /\ phase'[n] \in {"wait", "acked", "nacked"}
        /\ \A k \in Taken : k # n => phase'[k] = phase[k]
    BY <1>5 DEF CloseTurn, Settle, TypeOK, taken, Taken
  <2>2. \A x \in Launcher : launcher[x] # 0 => launcher[x] \in Taken
    BY SMTT(30) DEF TypeOK, Taken
  <2> QED  BY <2>1, <2>2, Zenon DEF Launching
<1> QED  BY <1>1, <1>2, <1>3, <1>4, <1>5, TakeOrKeep, GroupStepKeeps
         DEF Next, LaunchStep, StopTicker, Cancel, vars

\* A launcher goroutine moves its own batch one phase further, or abandons it,
\* and leaves the others where they are.
LEMMA LaunchMove ==
  ASSUME IndInv, NEW l \in Launcher, AwaitTurn(l) \/ AcquireFlushSlot(l) \/ Abandon(l)
  PROVE  /\ launcher[l] \in Taken /\ launcher[l] # 0
         /\ Taken' = Taken /\ batches' = batches
         /\ \A n \in Taken : n # launcher[l] => phase'[n] = phase[n] /\ grp'[n] = grp[n]
         /\ \/ /\ AwaitTurn(l) /\ phase[launcher[l]] = "turn"
               /\ phase'[launcher[l]] = "slot" /\ grp' = grp
            \/ /\ AcquireFlushSlot(l) /\ phase[launcher[l]] = "slot"
               /\ phase'[launcher[l]] = "enqueue"
               /\ grp'[launcher[l]] = StartGroups(batches[launcher[l]].ops)
            \/ /\ Abandon(l) /\ phase[launcher[l]] \in {"turn", "slot"}
               /\ phase'[launcher[l]] = "abandoned" /\ grp' = grp
<1> USE DEF IndInv
<1>1. launcher[l] \in Taken /\ launcher[l] # 0
  BY DEF AwaitTurn, AcquireFlushSlot, Abandon, TypeOK, Taken
<1>2. Taken' = Taken /\ batches' = batches
  BY DEF AwaitTurn, AcquireFlushSlot, Abandon, taken, Taken
<1>3. CASE AwaitTurn(l)
  BY <1>1, <1>2, <1>3, Zenon DEF AwaitTurn, TypeOK
<1>4. CASE AcquireFlushSlot(l)
  BY <1>1, <1>2, <1>4, Zenon DEF AcquireFlushSlot, TypeOK
<1>5. CASE Abandon(l)
  BY <1>1, <1>2, <1>5, Zenon DEF Abandon, TypeOK, Launching
<1> QED  BY <1>3, <1>4, <1>5

\* A flush goroutine moves its own batch one phase further and leaves the
\* others where they are.
LEMMA FlushMove ==
  ASSUME IndInv, NEW n \in Taken, CloseTurn(n) \/ Settle(n)
  PROVE  /\ Taken' = Taken /\ batches' = batches /\ grp' = grp
         /\ \A k \in Taken : k # n => phase'[k] = phase[k]
         /\ \/ CloseTurn(n) /\ phase[n] = "enqueue" /\ phase'[n] = "wait"
            \/ Settle(n) /\ phase[n] = "wait" /\ phase'[n] \in {"acked", "nacked"}
<1>1. CASE CloseTurn(n)
  BY <1>1, Zenon DEF IndInv, CloseTurn, TypeOK, taken, Taken
<1>2. CASE Settle(n)
  BY <1>2, Zenon DEF IndInv, Settle, TypeOK, taken, Taken
<1> QED  BY <1>1, <1>2

\* A task group's step changes that group only.
LEMMA GroupMove ==
  ASSUME IndInv, NEW n \in Taken, NEW g \in Group, GroupStep(n, g)
  PROVE  /\ Taken' = Taken /\ batches' = batches /\ phase' = phase
         /\ \A k \in Taken, x \in Group : <<k, x>> # <<n, g>> => grp'[k][x] = grp[k][x]
         /\ \/ /\ AcquireUpload(n, g)
               /\ grp[n][g] = "queued" /\ grp'[n][g] = "upload"
            \/ /\ sem' = sem - 1
               /\ grp[n][g] = "upload" /\ grp'[n][g] \in {"polling", "failed"}
            \/ /\ sem' = sem
               /\ grp[n][g] = "polling" /\ grp'[n][g] \in {"ok", "failed"}
<1>1. Taken' = Taken /\ batches' = batches /\ phase' = phase
  BY GroupStepKeeps DEF taken, Taken
<1>2. ASSUME NEW s, SetGroup(n, g, s)
      PROVE  /\ grp'[n][g] = s
             /\ \A k \in Taken, x \in Group : <<k, x>> # <<n, g>> => grp'[k][x] = grp[k][x]
  BY <1>2, Zenon DEF IndInv, TypeOK, SetGroup
<1>3. CASE AcquireUpload(n, g)
  BY <1>1, <1>2, <1>3, ZenonT(40) DEF AcquireUpload
<1>4. ASSUME NEW ok \in BOOLEAN, EnqueueReturn(n, g, ok)
      PROVE  /\ sem' = sem - 1
             /\ grp[n][g] = "upload" /\ grp'[n][g] \in {"polling", "failed"}
             /\ \A k \in Taken, x \in Group : <<k, x>> # <<n, g>> => grp'[k][x] = grp[k][x]
  BY <1>2, <1>4 DEF EnqueueReturn
<1>5. ASSUME NEW ok \in BOOLEAN, WaitReturn(n, g, ok)
      PROVE  /\ sem' = sem
             /\ grp[n][g] = "polling" /\ grp'[n][g] \in {"ok", "failed"}
             /\ \A k \in Taken, x \in Group : <<k, x>> # <<n, g>> => grp'[k][x] = grp[k][x]
  BY <1>2, <1>5, Zenon DEF WaitReturn
<1> QED  BY <1>1, <1>3, <1>4, <1>5 DEF GroupStep

\* A batch is abandoned only once the context is done, and that is final.
LEMMA AbandonedStep ==
  ASSUME IndInv, [Next]_vars
  PROVE  AbandonedAtShutdown'
<1> USE DEF IndInv
<1>1. ASSUME NEW l \in Launcher, NEW p \in [Key -> Op \cup {NoOp}], NEW ms \in Seq(Msg),
             TakeBatch(l, p, ms), ctxDone' = ctxDone
      PROVE  AbandonedAtShutdown'
  <2>1. /\ Taken' = Taken \cup {lastEnqueue + 1}
        /\ \A n \in Taken : phase'[n] = phase[n]
        /\ phase'[lastEnqueue + 1] = "turn"
    BY <1>1, TakeBatchFacts, Zenon
  <2> QED  BY <1>1, <2>1, Zenon DEF AbandonedAtShutdown
<1>2. CASE UNCHANGED <<taken, phase>> /\ (ctxDone => ctxDone')
  BY <1>2 DEF AbandonedAtShutdown, taken, Taken
<1>3. ASSUME NEW l \in Launcher, AwaitTurn(l) \/ AcquireFlushSlot(l) \/ Abandon(l)
      PROVE  AbandonedAtShutdown'
  <2>1. ctxDone' = ctxDone /\ (Abandon(l) => ctxDone)
    BY <1>3 DEF AwaitTurn, AcquireFlushSlot, Abandon
  <2> QED  BY <1>3, <2>1, LaunchMove DEF AbandonedAtShutdown
<1>4. ASSUME NEW n \in Taken, CloseTurn(n) \/ Settle(n)
      PROVE  AbandonedAtShutdown'
  <2>1. ctxDone' = ctxDone
    BY <1>4 DEF CloseTurn, Settle
  <2> QED  BY <1>4, <2>1, FlushMove, ZenonT(40) DEF AbandonedAtShutdown
<1> QED  BY <1>1, <1>2, <1>3, <1>4, TakeOrKeep, GroupStepKeeps
         DEF Next, LaunchStep, StopTicker, Cancel, vars

\* The enqueue order survives every step that starts no batch and reopens no
\* turn.
LEMMA OrderStable ==
  ASSUME TypeOK, EnqueueOrder, Taken' = Taken,
         \A n \in Taken :
           /\ Started(n)' => Started(n)
           /\ phase[n] \in {"wait", "acked", "nacked"} => phase'[n] \in {"wait", "acked", "nacked"}
           /\ phase[n] = "abandoned" => phase'[n] = "abandoned"
  PROVE  EnqueueOrder'
<1> SUFFICES ASSUME NEW n \in Taken, NEW m \in 1..(n - 1), Started(n)'
             PROVE  \/ Closed(m)'
                    \/ \E k \in (m + 1)..(n - 1) : phase'[k] = "abandoned"
  BY DEF EnqueueOrder
<1>1. m \in Taken /\ m # 0 /\ \A k \in (m + 1)..(n - 1) : k \in Taken
  BY DEF Taken, TypeOK
<1>2. Closed(m) \/ \E k \in (m + 1)..(n - 1) : phase[k] = "abandoned"
  BY DEF EnqueueOrder
<1>3. CASE Closed(m)
  BY <1>1, <1>3 DEF Closed
<1>4. CASE \E k \in (m + 1)..(n - 1) : phase[k] = "abandoned"
  BY <1>1, <1>4, ZenonT(40)
<1> QED  BY <1>2, <1>3, <1>4

\* A batch that passes awaitTurn inherits its predecessor's order.
LEMMA OrderStep ==
  ASSUME IndInv, [Next]_vars
  PROVE  EnqueueOrder'
<1> USE DEF IndInv
<1>1. ASSUME NEW l \in Launcher, NEW p \in [Key -> Op \cup {NoOp}], NEW ms \in Seq(Msg),
             TakeBatch(l, p, ms)
      PROVE  EnqueueOrder'
  <2>1. /\ Taken' = Taken \cup {lastEnqueue + 1}
        /\ \A n \in Taken : phase'[n] = phase[n]
        /\ phase'[lastEnqueue + 1] = "turn"
    BY <1>1, TakeBatchFacts, Zenon
  <2> SUFFICES ASSUME NEW n \in Taken', NEW m \in 1..(n - 1), Started(n)'
               PROVE  \/ Closed(m)'
                      \/ \E k \in (m + 1)..(n - 1) : phase'[k] = "abandoned"
    BY DEF EnqueueOrder
  <2>2. n \in Taken /\ Started(n)
    BY <2>1 DEF Started
  <2>3. m \in Taken /\ m # 0 /\ \A k \in (m + 1)..(n - 1) : k \in Taken
    BY <2>2 DEF Taken, TypeOK
  <2>4. Closed(m) \/ \E k \in (m + 1)..(n - 1) : phase[k] = "abandoned"
    BY <2>2 DEF EnqueueOrder
  <2> QED  BY <2>1, <2>3, <2>4, Zenon DEF Closed
<1>2. CASE UNCHANGED <<taken, phase>>
  <2>1. Taken' = Taken
    BY <1>2 DEF Taken, taken
  <2> QED  BY <1>2, <2>1, OrderStable DEF Started
<1>3. ASSUME NEW l \in Launcher, AwaitTurn(l)
      PROVE  EnqueueOrder'
  <2> DEFINE a == launcher[l]
  <2>1. /\ a \in Taken /\ Taken' = Taken /\ phase[a] = "turn"
        /\ \A n \in Taken : n # a => phase'[n] = phase[n]
    BY <1>3, LaunchMove, Zenon DEF AwaitTurn
  <2>2. Closed(a - 1)
    BY <1>3 DEF AwaitTurn
  <2> HIDE DEF a
  <2> SUFFICES ASSUME NEW n \in Taken, NEW m \in 1..(n - 1), Started(n)'
               PROVE  \/ Closed(m)'
                      \/ \E k \in (m + 1)..(n - 1) : phase'[k] = "abandoned"
    BY <2>1 DEF EnqueueOrder
  <2>3. m \in Taken /\ m # 0 /\ \A k \in (m + 1)..(n - 1) : k \in Taken
    BY DEF Taken, TypeOK
  <2>4. Closed(m) => Closed(m)'
    BY <2>1, <2>3 DEF Closed
  <2>5. \A k \in Taken : phase[k] = "abandoned" => phase'[k] = "abandoned"
    BY <2>1
  <2>6. CASE n # a
    <3>1. Started(n)
      BY <2>1, <2>6 DEF Started
    <3> QED  BY <2>3, <2>4, <2>5, <3>1 DEF EnqueueOrder
  <2>7. CASE n = a
    <3>1. n - 1 \in Taken /\ n - 1 # 0
      BY <2>7 DEF Taken, TypeOK
    <3>2. CASE m = n - 1
      BY <2>2, <2>4, <2>7, <3>2, Zenon
    <3>3. CASE m # n - 1 /\ phase[n - 1] = "abandoned"
      <4>1. n - 1 \in (m + 1)..(n - 1)
        BY <3>3 DEF Taken, TypeOK
      <4> QED  BY <2>5, <3>1, <3>3, <4>1
    <3>4. CASE m # n - 1 /\ phase[n - 1] # "abandoned"
      <4>1. Started(n - 1)
        BY <2>2, <2>7, <3>1, <3>4, Zenon DEF Closed, Started
      <4>2. m \in 1..((n - 1) - 1)
        BY <3>4 DEF Taken, TypeOK
      <4>3. Closed(m) \/ \E k \in (m + 1)..((n - 1) - 1) : phase[k] = "abandoned"
        BY <3>1, <4>1, <4>2, Zenon DEF EnqueueOrder
      <4>4. (m + 1)..((n - 1) - 1) \subseteq (m + 1)..(n - 1)
        BY DEF Taken, TypeOK
      <4> QED  BY <2>3, <2>4, <2>5, <4>3, <4>4
    <3> QED  BY <3>2, <3>3, <3>4
  <2> QED  BY <2>6, <2>7
<1>4. ASSUME NEW l \in Launcher, AcquireFlushSlot(l) \/ Abandon(l)
      PROVE  EnqueueOrder'
  <2>1. ~(phase[launcher[l]] = "turn" /\ phase'[launcher[l]] = "slot")
    BY <1>4, LaunchMove, Zenon DEF AcquireFlushSlot, Abandon, TypeOK
  <2> QED  BY <1>4, <2>1, LaunchMove, OrderStable, Zenon DEF Started
<1>5. ASSUME NEW n \in Taken, CloseTurn(n) \/ Settle(n)
      PROVE  EnqueueOrder'
  BY <1>5, FlushMove, OrderStable, ZenonT(40) DEF Started
<1> QED  BY <1>1, <1>2, <1>3, <1>4, <1>5, TakeOrKeep, GroupStepKeeps
         DEF Next, LaunchStep, StopTicker, Cancel, vars

----------------------------------------------------------------------------
(* Task groups and semaphores. *)

\* What GroupsMatchPhase says of one batch.
GroupsOf(n) ==
  \A g \in Group :
    /\ phase[n] \in {"turn", "slot", "abandoned"} => grp[n][g] = "none"
    /\ phase[n] \in {"enqueue", "wait", "acked", "nacked"} =>
         (grp[n][g] = "none" <=> StartGroups(batches[n].ops)[g] = "none")
    /\ phase[n] = "wait" => grp[n][g] \notin {"queued", "upload"}
    /\ phase[n] = "nacked" => grp[n][g] \in {"none", "ok", "failed"}
    /\ phase[n] = "acked" => grp[n][g] \in {"none", "ok"}

\* The groups of a batch are where its phase says.
LEMMA GroupsStep ==
  ASSUME IndInv, [Next]_vars
  PROVE  GroupsMatchPhase'
<1> USE DEF IndInv
<1>1. GroupsMatchPhase => \A n \in Taken : GroupsOf(n)
  BY Zenon DEF GroupsMatchPhase, GroupsOf
<1>2. SUFFICES \A n \in Taken' : GroupsOf(n)'
  BY Zenon DEF GroupsMatchPhase, GroupsOf
<1>3. ASSUME NEW n \in Taken, phase'[n] = phase[n], grp'[n] = grp[n],
             batches'[n] = batches[n]
      PROVE  GroupsOf(n)'
  <2>1. StartGroups(batches[n].ops)' = StartGroups(batches[n].ops)
    BY <1>3, Zenon DEF StartGroups
  <2> QED  BY <1>1, <1>3, <2>1, ZenonT(60) DEF GroupsOf
<1>4. ASSUME NEW l \in Launcher, NEW p \in [Key -> Op \cup {NoOp}], NEW ms \in Seq(Msg),
             TakeBatch(l, p, ms)
      PROVE  \A n \in Taken' : GroupsOf(n)'
  <2>1. Taken' = Taken \cup {lastEnqueue + 1}
    BY <1>4, TakeBatchFacts, Zenon
  <2>2. ASSUME NEW n \in Taken', n = lastEnqueue + 1
        PROVE  GroupsOf(n)'
    <3>1. phase'[n] = "turn" /\ grp'[n] = [g \in Group |-> "none"]
      BY <1>4, <2>2, TakeBatchFacts, Zenon
    <3> QED  BY <3>1 DEF GroupsOf
  <2> QED  BY <1>3, <1>4, <2>1, <2>2, TakeBatchFacts
<1>5. CASE UNCHANGED <<taken, phase, grp>>
  <2>1. Taken' = Taken
    BY <1>5 DEF Taken, taken
  <2> QED  BY <1>3, <1>5, <2>1 DEF taken
<1>6. ASSUME NEW l \in Launcher, AwaitTurn(l) \/ AcquireFlushSlot(l) \/ Abandon(l)
      PROVE  \A n \in Taken' : GroupsOf(n)'
  <2> DEFINE a == launcher[l]
  <2>1. /\ a \in Taken /\ Taken' = Taken /\ batches' = batches
        /\ \A n \in Taken : n # a => phase'[n] = phase[n] /\ grp'[n] = grp[n]
        /\ \/ /\ phase[a] = "turn" /\ phase'[a] = "slot" /\ grp' = grp
           \/ /\ phase[a] = "slot" /\ phase'[a] = "enqueue"
              /\ grp'[a] = StartGroups(batches[a].ops)
           \/ /\ phase[a] \in {"turn", "slot"} /\ phase'[a] = "abandoned"
              /\ grp' = grp
    BY <1>6, LaunchMove, Zenon
  <2> HIDE DEF a
  <2>2. ASSUME NEW n \in Taken, n = a
        PROVE  GroupsOf(n)'
    <3>1. StartGroups(batches[n].ops)' = StartGroups(batches[n].ops)
      BY <2>1, Zenon DEF StartGroups
    <3> QED  BY <1>1, <2>1, <2>2, <3>1, SMTT(30) DEF GroupsOf
  <2> QED  BY <1>3, <2>1, <2>2
<1>7. ASSUME NEW b \in Taken, CloseTurn(b) \/ Settle(b)
      PROVE  \A n \in Taken' : GroupsOf(n)'
  <2>1. /\ Taken' = Taken /\ batches' = batches /\ grp' = grp
        /\ \A k \in Taken : k # b => phase'[k] = phase[k]
    BY <1>7, FlushMove, Zenon
  <2>2. StartGroups(batches[b].ops)' = StartGroups(batches[b].ops)
    BY <2>1 DEF StartGroups
  <2>3. GroupsOf(b)
    BY <1>1, Zenon
  <2>4. CASE CloseTurn(b)
    <3>1. phase[b] = "enqueue" /\ phase'[b] = "wait"
      BY <2>4, Zenon DEF CloseTurn, TypeOK
    <3>2. \A g \in Group : grp[b][g] \notin {"queued", "upload"}
      BY <2>4, Zenon DEF CloseTurn
    <3>3. GroupsOf(b)'
      BY <2>1, <2>2, <2>3, <3>1, <3>2, Zenon DEF GroupsOf
    <3> QED  BY <1>3, <2>1, <3>3
  <2>5. CASE Settle(b)
    <3>1. phase[b] = "wait" /\ \A g \in Group : grp[b][g] \in {"none", "ok", "failed"}
      BY <2>5, Zenon DEF Settle
    <3>2. \/ phase'[b] = "nacked"
          \/ phase'[b] = "acked" /\ \A g \in Group : grp[b][g] # "failed"
      BY <2>5, Zenon DEF Settle, TypeOK
    <3>3. GroupsOf(b)'
      BY <2>1, <2>2, <2>3, <3>1, <3>2, Zenon DEF GroupsOf
    <3> QED  BY <1>3, <2>1, <3>3
  <2> QED  BY <1>7, <2>4, <2>5
<1>8. ASSUME NEW b \in Taken, NEW g \in Group, GroupStep(b, g)
      PROVE  \A n \in Taken' : GroupsOf(n)'
  <2>1. /\ Taken' = Taken /\ batches' = batches /\ phase' = phase
        /\ \A k \in Taken, x \in Group : <<k, x>> # <<b, g>> => grp'[k][x] = grp[k][x]
        /\ \/ grp[b][g] = "queued" /\ grp'[b][g] = "upload"
           \/ grp[b][g] = "upload" /\ grp'[b][g] \in {"polling", "failed"}
           \/ grp[b][g] = "polling" /\ grp'[b][g] \in {"ok", "failed"}
    BY <1>8, GroupMove, ZenonT(60)
  <2>2. \A n \in Taken : StartGroups(batches[n].ops)' = StartGroups(batches[n].ops)
    BY <2>1, Zenon DEF StartGroups
  <2> QED  BY <1>1, <2>1, <2>2, SMTT(30) DEF GroupsOf
<1> QED  BY <1>4, <1>5, <1>6, <1>7, <1>8, TakeOrKeep
         DEF Next, LaunchStep, StopTicker, Cancel, vars

\* The counted sets are finite.
LEMMA FiniteCounts ==
  ASSUME TypeOK
  PROVE  /\ IsFiniteSet(Taken) /\ IsFiniteSet(InFlight) /\ IsFiniteSet(Uploading)
         /\ Cardinality(InFlight) \in Nat /\ Cardinality(Uploading) \in Nat
<1>1. IsFiniteSet(Taken)
  BY FS_Interval DEF Taken, TypeOK
<1>2. IsFiniteSet({"upsert"} \cup {"delete"}) /\ Kind = {"upsert"} \cup {"delete"}
  BY FS_Singleton, FS_AddElement, Zenon DEF Kind
<1>3. IsFiniteSet(Taken \X Group)
  BY <1>1, <1>2, SetsAssumption, FS_Product, Zenon DEF Group
<1>4. IsFiniteSet(InFlight) /\ IsFiniteSet(Uploading)
  BY <1>1, <1>3, FS_Subset DEF InFlight, Uploading
<1> QED  BY <1>1, <1>4, FS_CardinalityType

\* A slot is taken by the batch or group that enters, and given back by the one
\* that leaves.
LEMMA SlotsStep ==
  ASSUME IndInv, [Next]_vars
  PROVE  SlotsExact'
<1> USE DEF IndInv
<1>0. /\ flushSem \in Int /\ sem \in Int /\ MaxInFlight \in Nat /\ MaxUploads \in Nat
      /\ flushSem = Cardinality(InFlight) /\ flushSem <= MaxInFlight
      /\ sem = Cardinality(Uploading) /\ sem <= MaxUploads
  <2>1. flushSem \in Int /\ sem \in Int
    BY Zenon DEF TypeOK
  <2>2. MaxInFlight \in Nat /\ MaxUploads \in Nat
    BY SizesAssumption
  <2> QED
    BY <2>1, <2>2, Zenon DEF SlotsExact
<1>1. CASE /\ InFlight' = InFlight /\ Uploading' = Uploading
           /\ UNCHANGED <<flushSem, sem>>
  BY <1>1, Zenon DEF SlotsExact
<1>2. ASSUME NEW l \in Launcher, NEW p \in [Key -> Op \cup {NoOp}], NEW ms \in Seq(Msg),
             TakeBatch(l, p, ms), UNCHANGED <<flushSem, sem>>
      PROVE  SlotsExact'
  <2> DEFINE new == lastEnqueue + 1
  <2>1. /\ new \notin Taken /\ Taken' = Taken \cup {new}
        /\ \A n \in Taken : phase'[n] = phase[n] /\ grp'[n] = grp[n]
        /\ phase'[new] = "turn"
        /\ grp'[new] = [g \in Group |-> "none"]
    BY <1>2, TakeBatchFacts, Zenon
  <2> HIDE DEF new
  <2>2. InFlight' = InFlight
    BY <2>1, Zenon DEF InFlight
  <2>3. Uploading' = Uploading
    BY <2>1, ZenonT(40) DEF Uploading
  <2> QED  BY <1>1, <1>2, <2>2, <2>3
<1>3. CASE UNCHANGED <<taken, phase, grp, flushSem, sem>>
  BY <1>1, <1>3, Zenon DEF InFlight, Uploading, Taken, taken
<1>4. ASSUME NEW l \in Launcher, AwaitTurn(l) \/ Abandon(l)
      PROVE  SlotsExact'
  <2>1. /\ UNCHANGED <<flushSem, sem, grp>> /\ Taken' = Taken
        /\ launcher[l] \in Taken
        /\ phase'[launcher[l]] \in {"slot", "abandoned"}
    BY <1>4, LaunchMove, Zenon DEF AwaitTurn, Abandon, TypeOK
  <2>2. /\ phase[launcher[l]] \in {"turn", "slot"}
        /\ \A n \in Taken : n # launcher[l] => phase'[n] = phase[n]
    BY <1>4, LaunchMove, Zenon
  <2>3. InFlight' = InFlight /\ Uploading' = Uploading
    BY <2>1, <2>2, Zenon DEF InFlight, Uploading
  <2> QED  BY <1>1, <2>1, <2>3
<1>5. ASSUME NEW l \in Launcher, AcquireFlushSlot(l)
      PROVE  SlotsExact'
  <2> DEFINE a == launcher[l]
  <2>1. /\ a \in Taken /\ Taken' = Taken /\ batches' = batches
        /\ \A n \in Taken : n # a => phase'[n] = phase[n] /\ grp'[n] = grp[n]
    BY <1>5, LaunchMove, Zenon
  <2>2. /\ phase[a] = "slot" /\ phase'[a] = "enqueue"
        /\ grp'[a] = StartGroups(batches[a].ops)
        /\ flushSem < MaxInFlight /\ flushSem' = flushSem + 1 /\ sem' = sem
    BY <1>5, <2>1, Zenon DEF AcquireFlushSlot, TypeOK
  <2> HIDE DEF a
  <2>3. InFlight' = InFlight \cup {a} /\ a \notin InFlight
    BY <2>1, <2>2, Zenon DEF InFlight
  <2>4. Uploading' = Uploading
    <3>1. \A g \in Group : grp[a][g] = "none"
      BY <2>1, <2>2, Zenon DEF GroupsMatchPhase
    <3>2. \A g \in Group : grp'[a][g] # "upload"
      BY <2>2, Zenon DEF StartGroups
    <3> QED  BY <2>1, <3>1, <3>2, SMTT(30) DEF Uploading
  <2>5. Cardinality(InFlight') = Cardinality(InFlight) + 1
    BY <2>3, FiniteCounts, FS_AddElement, Zenon
  <2>6. flushSem' <= MaxInFlight
    BY <1>0, <2>2
  <2> QED  BY <1>0, <2>2, <2>4, <2>5, <2>6, Zenon DEF SlotsExact
<1>6. ASSUME NEW n \in Taken, CloseTurn(n)
      PROVE  SlotsExact'
  <2>1. /\ Taken' = Taken /\ grp' = grp /\ UNCHANGED <<flushSem, sem>>
        /\ phase[n] = "enqueue" /\ phase'[n] = "wait"
        /\ \A k \in Taken : k # n => phase'[k] = phase[k]
    BY <1>6, FlushMove, Zenon DEF CloseTurn
  <2>2. InFlight' = InFlight /\ Uploading' = Uploading
    BY <2>1, Zenon DEF InFlight, Uploading
  <2> QED  BY <1>1, <2>1, <2>2
<1>7. ASSUME NEW n \in Taken, Settle(n)
      PROVE  SlotsExact'
  <2>1. /\ Taken' = Taken /\ grp' = grp /\ sem' = sem /\ flushSem' = flushSem - 1
        /\ phase[n] = "wait"
        /\ \A k \in Taken : k # n => phase'[k] = phase[k]
    BY <1>7, FlushMove, Zenon DEF Settle
  <2>2. phase'[n] \in {"acked", "nacked"}
    BY <1>7, <2>1, FlushMove, Zenon
  <2>3. InFlight' = InFlight \ {n} /\ n \in InFlight /\ Uploading' = Uploading
    BY <2>1, <2>2, Zenon DEF InFlight, Uploading
  <2>4. Cardinality(InFlight') = Cardinality(InFlight) - 1
    BY <2>3, FiniteCounts, FS_RemoveElement, Zenon
  <2>5. flushSem' <= MaxInFlight
    BY <1>0, <2>1
  <2> QED  BY <1>0, <2>1, <2>3, <2>4, <2>5, Zenon DEF SlotsExact
<1>8. ASSUME NEW n \in Taken, NEW g \in Group, GroupStep(n, g)
      PROVE  SlotsExact'
  <2>1. /\ Taken' = Taken /\ phase' = phase
        /\ \A k \in Taken, x \in Group : <<k, x>> # <<n, g>> => grp'[k][x] = grp[k][x]
    BY <1>8, GroupMove, ZenonT(40)
  <2>2. InFlight' = InFlight /\ flushSem' = flushSem
    BY <1>8, <2>1, GroupStepKeeps, Zenon DEF InFlight
  <2>3. \A x \in Taken \X Group : x # <<n, g>> => (x \in Uploading' <=> x \in Uploading)
    BY <2>1, SMTT(30) DEF Uploading
  <2>4. <<n, g>> \in Taken \X Group
    BY Zenon
  <2>5. Uploading \subseteq Taken \X Group /\ Uploading' \subseteq Taken \X Group
    BY <2>1, Zenon DEF Uploading
  <2>6. /\ <<n, g>> \in Uploading <=> grp[n][g] = "upload"
        /\ <<n, g>> \in Uploading' <=> grp'[n][g] = "upload"
    BY <2>1, <2>4, Zenon DEF Uploading
  <2>7. CASE AcquireUpload(n, g) /\ grp[n][g] = "queued" /\ grp'[n][g] = "upload"
    <3>1. Uploading' = Uploading \cup {<<n, g>>} /\ <<n, g>> \notin Uploading
      BY <2>3, <2>4, <2>5, <2>6, <2>7, Zenon
    <3>2. Cardinality(Uploading') = Cardinality(Uploading) + 1
      BY <3>1, FiniteCounts, FS_AddElement, Zenon
    <3>3. sem < MaxUploads /\ sem' = sem + 1
      BY <2>7, Zenon DEF AcquireUpload
    <3>4. sem' <= MaxUploads
      BY <1>0, <3>3
    <3> QED  BY <1>0, <2>2, <3>2, <3>3, <3>4, Zenon DEF SlotsExact
  <2>8. CASE sem' = sem - 1 /\ grp[n][g] = "upload" /\ grp'[n][g] \in {"polling", "failed"}
    <3>1. Uploading' = Uploading \ {<<n, g>>} /\ <<n, g>> \in Uploading
      BY <2>3, <2>4, <2>5, <2>6, <2>8, Zenon
    <3>2. Cardinality(Uploading') = Cardinality(Uploading) - 1
      BY <3>1, FiniteCounts, FS_RemoveElement, Zenon
    <3>3. sem' <= MaxUploads
      BY <1>0, <2>8
    <3> QED  BY <1>0, <2>2, <2>8, <3>2, <3>3, Zenon DEF SlotsExact
  <2>9. CASE sem' = sem /\ grp[n][g] = "polling" /\ grp'[n][g] \in {"ok", "failed"}
    <3>1. Uploading' = Uploading
      <4>1. <<n, g>> \notin Uploading /\ <<n, g>> \notin Uploading'
        BY <2>6, <2>9, Zenon
      <4>2. \A x : x \in Uploading' <=> x \in Uploading
        BY <2>3, <2>5, <4>1, Zenon
      <4> QED
        BY <4>2, Zenon
    <3> QED  BY <1>1, <2>2, <2>9, <3>1
  <2> QED  BY <1>8, <2>7, <2>8, <2>9, GroupMove
<1> QED  BY <1>2, <1>3, <1>4, <1>5, <1>6, <1>7, <1>8, TakeOrKeep
         DEF Next, LaunchStep, StopTicker, Cancel, vars

----------------------------------------------------------------------------
(* The theorems. *)

\* NewBatcher establishes the inductive invariant.
LEMMA InitInd ==
  Init => IndInv
<1> SUFFICES ASSUME Init PROVE IndInv
  BY Zenon
<1>1. Taken = {}
  BY SMTT(30) DEF Init, Taken
<1>2. TypeOK
  <2>1. 1..0 = {} /\ \A S : [n \in 1..0 |-> 0] \in [1..0 -> S]
    BY SMTT(30)
  <2>2. /\ batches \in [Taken -> Batch]
        /\ phase \in [Taken -> Phases]
        /\ grp \in [Taken -> [Group -> GroupStates]]
    BY <2>1, Zenon DEF Init, Taken
  <2>3. ctxDone \in BOOLEAN /\ tickerAlive \in BOOLEAN
    BY Zenon DEF Init
  <2>4. launcher \in [Launcher -> 0..lastEnqueue]
    BY DEF Init
  <2>5. pending \in [Key -> Op \cup {NoOp}] /\ msgs \in Seq(Msg) /\ msgSeqs \in SUBSET Msg
    BY DEF Init
  <2>6. pendingUpserts \in Nat /\ lastEnqueue \in Nat /\ flushSem \in Int /\ sem \in Int
    BY SMTT(30) DEF Init
  <2> QED  BY <2>2, <2>3, <2>4, <2>5, <2>6, Zenon DEF TypeOK
<1>3. UpsertKeys(pending) = {} /\ InFlight = {} /\ Uploading = {}
  BY <1>1, Zenon DEF Init, UpsertKeys, IsUpsert, InFlight, Uploading
<1>4. PendingUpsertsExact /\ SlotsExact
  <2>1. /\ Cardinality(UpsertKeys(pending)) = 0
        /\ Cardinality(InFlight) = 0 /\ Cardinality(Uploading) = 0
    BY <1>3, FS_EmptySet, Zenon
  <2>2. pendingUpserts = 0 /\ flushSem = 0 /\ sem = 0
    BY Zenon DEF Init
  <2> QED  BY <2>1, <2>2, SizesAssumption, SMTT(30) DEF PendingUpsertsExact, SlotsExact
<1>5. BufferBounded
  <2>1. Len(<<>>) = 0
    BY Zenon
  <2> QED  BY <1>1, <2>1, SizesAssumption, SMTT(30) DEF BufferBounded, Init
<1>6. SeqsTracked /\ NoSplit
  BY <1>1, Zenon DEF SeqsTracked, NoSplit, Init
<1>7. Launching /\ AbandonedAtShutdown /\ GroupsMatchPhase /\ EnqueueOrder
  BY <1>1, Zenon DEF Launching, AbandonedAtShutdown, GroupsMatchPhase, EnqueueOrder, Init
<1> QED  BY <1>2, <1>4, <1>5, <1>6, <1>7, Zenon DEF IndInv

\* Every step preserves the invariant.
LEMMA IndStep == IndInv /\ [Next]_vars => IndInv'
BY TypeStep, CountStep, BufferStep, LaunchingStep, AbandonedStep, GroupsStep, SlotsStep, OrderStep, ZenonT(40)
   DEF IndInv

\* The inductive invariant holds in every reachable state.
THEOREM Invariance == Spec => []IndInv
<1> QED  BY IndStep, InitInd, PTL DEF Spec

\* The batcher's variables keep their types.
THEOREM TypeCorrect == Spec => []TypeOK
<1>1. IndInv => TypeOK
  BY Zenon DEF IndInv
<1> QED  BY <1>1, Invariance, PTL

\* setPending's counter is always the number of buffered upserts, so takeBatch
\* never sizes a slice negatively.
THEOREM CounterExact == Spec => []PendingUpsertsExact
<1>1. IndInv => PendingUpsertsExact
  BY Zenon DEF IndInv
<1> QED  BY <1>1, Invariance, PTL

\* No message is ever split over two batches.
THEOREM NeverSplit == Spec => []NoSplit
<1>1. IndInv => NoSplit
  BY Zenon DEF IndInv
<1> QED  BY <1>1, Invariance, PTL

\* The buffer and every batch stay within BatchSize messages.
THEOREM BufferStaysBounded == Spec => []BufferBounded
<1>1. IndInv => BufferBounded
  BY Zenon DEF IndInv
<1> QED  BY <1>1, Invariance, PTL

\* Batches enqueue in the order they were taken, except across an abandoned one.
THEOREM EnqueuesInOrder == Spec => []EnqueueOrder
<1>1. IndInv => EnqueueOrder
  BY Zenon DEF IndInv
<1> QED  BY <1>1, Invariance, PTL

\* Until the context is cancelled there is no exception to that order.
THEOREM OrderedUntilShutdown == Spec => []OrderBeforeShutdown
<1>1. IndInv => OrderBeforeShutdown
  <2> SUFFICES ASSUME IndInv, ~ctxDone, NEW n \in Taken, NEW m \in 1..(n - 1), CallsIssued(n)
               PROVE  CallsReturned(m)
    BY Zenon DEF OrderBeforeShutdown
  <2>1. m \in Taken /\ m # 0 /\ \A k \in (m + 1)..(n - 1) : k \in Taken
    BY SMTT(30) DEF IndInv, TypeOK, Taken
  <2>2. \A k \in Taken : phase[k] # "abandoned"
    BY Zenon DEF IndInv, AbandonedAtShutdown
  <2>3. Started(n)
    <3>1. phase[n] \in Phases /\ phase[n] \notin {"turn", "slot", "abandoned"}
      BY Zenon DEF IndInv, TypeOK, GroupsMatchPhase, CallsIssued
    <3> QED  BY <3>1, Zenon DEF Phases, Started
  <2>4. Closed(m)
    BY <2>1, <2>2, <2>3, Zenon DEF IndInv, EnqueueOrder
  <2>5. phase[m] \in {"wait", "acked", "nacked"}
    BY <2>1, <2>2, <2>4, Zenon DEF Closed
  <2> QED  BY <2>1, <2>5, Zenon DEF IndInv, GroupsMatchPhase, CallsReturned
<1> QED  BY <1>1, Invariance, PTL

\* The invariant makes an acked batch one whose operations all succeeded.
LEMMA AckedInd == IndInv => AckedAfterSuccess
<1> SUFFICES ASSUME IndInv, NEW n \in Taken, NEW k \in Key,
                    phase[n] = "acked", batches[n].ops[k] # NoOp
             PROVE  grp[n][<<k[1], IF batches[n].ops[k].isDelete
                                   THEN "delete" ELSE "upsert">>] = "ok"
  BY Zenon DEF AckedAfterSuccess
<1> DEFINE o == batches[n].ops
           g == <<k[1], IF o[k].isDelete THEN "delete" ELSE "upsert">>
<1>1. o \in [Key -> Op \cup {NoOp}]
  BY Zenon DEF IndInv, TypeOK, Batch
<1>2. o[k] \in Op
  BY <1>1, Zenon
<1>3. o[k].isDelete \in BOOLEAN
  BY <1>2, Zenon DEF Op
<1>4. g \in Group /\ g[1] = k[1] /\ g[2] = IF o[k].isDelete THEN "delete" ELSE "upsert"
  BY <1>3, Zenon DEF Group, Key, Kind
<1>5. IF g[2] = "upsert" THEN IsUpsert(o[k]) ELSE IsDelete(o[k])
  BY <1>3, <1>4, Zenon DEF IsUpsert, IsDelete
<1> HIDE DEF g
<1>6. StartGroups(o)[g] = "queued"
  BY <1>4, <1>5, Zenon DEF StartGroups
<1>7. grp[n][g] # "none" /\ grp[n][g] \in {"none", "ok"}
  BY <1>4, <1>6, Zenon DEF IndInv, GroupsMatchPhase
<1> QED  BY <1>7, Zenon DEF g

\* A batch is acked only when every operation it carries was applied.
THEOREM AckMeansApplied == Spec => []AckedAfterSuccess
BY AckedInd, Invariance, PTL

\* The upload semaphore bounds the outstanding enqueue calls of all flushes.
THEOREM UploadsBounded == Spec => []UploadBound
<1>1. IndInv => UploadBound
  BY ZenonT(40) DEF IndInv, SlotsExact, UploadBound
<1> QED  BY <1>1, Invariance, PTL

\* The batches in memory are bounded by the flush slots and the launchers.
THEOREM FlushesBounded == Spec => []InFlightBound
<1>1. IndInv => InFlightBound
  <2> SUFFICES ASSUME IndInv PROVE InFlightBound
    BY Zenon
  <2>1. IsFiniteSet(Launcher)
    BY SetsAssumption, FS_AddElement, Zenon DEF Launcher
  <2> DEFINE W == {n \in Taken : phase[n] \in {"turn", "slot"}}
             w == [n \in W |-> CHOOSE l \in Launcher : launcher[l] = n]
  <2>2. \A n \in W : w[n] \in Launcher /\ launcher[w[n]] = n
    BY Zenon DEF IndInv, Launching
  <2>3. w \in Injection(W, Launcher)
    <3>1. w \in [W -> Launcher]
      BY <2>2, Zenon
    <3>2. \A a, b \in W : w[a] = w[b] => a = b
      BY <2>2, ZenonT(40)
    <3> HIDE DEF w, W
    <3> QED  BY <3>1, <3>2, Zenon DEF Injection, IsInjective
  <2>4. IsFiniteSet(W) /\ Cardinality(W) <= Cardinality(Launcher)
    BY <2>1, <2>3, FS_Injection
  <2>5. Unsettled = InFlight \cup W
    BY Zenon DEF Unsettled, InFlight
  <2>6. IsFiniteSet(InFlight) /\ Cardinality(InFlight) \in Nat
    BY FiniteCounts, Zenon DEF IndInv
  <2> HIDE DEF W, w
  <2>7. Cardinality(Unsettled) =
          Cardinality(InFlight) + Cardinality(W) - Cardinality(InFlight \cap W)
    BY <2>4, <2>5, <2>6, FS_Union, ZenonT(40)
  <2>8. IsFiniteSet(InFlight \cap W)
    BY <2>4, FS_Intersection, Zenon
  <2>9. /\ Cardinality(W) \in Nat /\ Cardinality(InFlight \cap W) \in Nat
        /\ Cardinality(Launcher) \in Nat
    BY <2>1, <2>4, <2>8, FS_CardinalityType, ZenonT(40)
  <2>10. Cardinality(InFlight) <= MaxInFlight /\ MaxInFlight \in Nat
    BY SizesAssumption DEF IndInv, SlotsExact
  <2> QED  BY <2>4, <2>6, <2>7, <2>9, <2>10, SMTT(30) DEF InFlightBound
<1> QED  BY <1>1, Invariance, PTL

=============================================================================
