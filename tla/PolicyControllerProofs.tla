----------------------- MODULE PolicyControllerProofs -----------------------
(***************************************************************************)
(* The policy controller stores a spec hash, and reports Ready, only for   *)
(* the spec it has published: for any number of policies, specs, tenants   *)
(* and resources, and any number of failures, edits and restarts.  The     *)
(* settings tasks of an index wait for each other likewise.                *)
(***************************************************************************)
EXTENDS PolicyController, FiniteSetTheorems, SequenceTheorems, TLAPS

Tenants == {r[1] : r \in Resources}

Conditions == [valid : {"ok", "bad"}, idx : {"created", "pending", "failed"},
               srch : {"synced", "updating", "failed"}, filt : {"synced", "updating", "failed"}]

Places == {"idle", "exists", "task", "create", "creating", "searchable", "filterable", "status",
           "publish", "terminate", "clear", "clearing", "drop", "dropping", "release"}

Workers == [pc : Places, p : Policy \cup {Absent}, snap : Objects \cup {Absent}, fresh : BOOLEAN,
            c : Conditions, err : BOOLEAN, wait : {"none", "pending", "succeeded", "failed"}, todo : SUBSET Tenants]

Writes == [p : Policy, spec : Specs, st : Statuses, on : Objects \cup {Absent}]

\* The part of the type of the state that the argument needs.
Typed ==
  /\ store \in [Policy -> Objects \cup {Absent}]
  /\ cache \in [Policy -> Objects \cup {Absent}]
  /\ w \in Workers
  /\ seed \in Nat /\ scope \in Scopes
  /\ admitted \subseteq Writes

\* A working worker holds a policy.
Holding == w.pc # "idle" => w.p \in Policy /\ w.snap \in Objects

\* Optimistic locking: a copy that counts as the latest has the stored spec, and came with
\* the same hash.
CopiesCurrent ==
  /\ \A p \in Policy : p \in latest => cache[p] = store[p]
  /\ w.pc # "idle" /\ w.fresh => store[w.p] \in Objects /\ store[w.p].spec = w.snap.spec
                                /\ store[w.p].given = w.snap.given

\* Every resource was sent for the hash h of policy p, or given up on.
Sent(p, h) == \A r \in Resources : \E m \in sent \cup lost : m.policy = p /\ m.hash = h /\ m.res = r

\* The hash h of policy p is none, or the one g it was created with, or was sent.
Backed(p, h, g) == h \in {NoHash, g} \/ Sent(p, h)

HashSent(p, obj) == obj # Absent => Backed(p, obj.st.hash, obj.given)

\* The hash in every copy of a policy, stored, cached or held, was sent for it.
HashesSent ==
  /\ \A p \in Policy : HashSent(p, store[p]) /\ HashSent(p, cache[p])
  /\ w.pc # "idle" => Backed(w.p, w.snap.st.hash, w.snap.given)

\* While publishing: the tenants that are done are sent for the spec of the worker's copy.
Progress ==
  w.pc = "publish" => \A r \in Resources :
     \/ r[1] \in w.todo \/ w.err
     \/ \E m \in sent \cup lost : m.policy = w.p /\ m.hash = ComputeSpecHash(w.snap.spec) /\ m.res = r

PolicyInv == Typed /\ Holding /\ CopiesCurrent /\ HashesSent /\ Progress

-----------------------------------------------------------------------------

\* The idle worker is a worker.
LEMMA IdleTyped == Idle \in Workers
<1>1. Prepared \in Conditions
  BY DEF Prepared, Conditions
<1> QED
  BY <1>1 DEF Idle, Workers, Places

\* A new policy is an object, with the hash it was created with.
LEMMA NewObjectTyped ==
  ASSUME NEW spec \in Specs, NEW st \in Statuses
  PROVE  /\ NewObject(spec, st) \in Objects /\ NewObject(spec, st).spec = spec
         /\ NewObject(spec, st).st.hash = NewObject(spec, st).given
  BY DEF NewObject, Objects, Statuses

\* The invariant holds in the initial states.
LEMMA InitPolicyInv == Init => PolicyInv
<1> SUFFICES ASSUME Init PROVE PolicyInv
  OBVIOUS
<1>1. Typed
  BY IdleTyped DEF Init, Typed
<1>2. w.pc = "idle"
  BY DEF Init, Idle
<1>3. \A p \in Policy : HashSent(p, store[p]) /\ HashSent(p, cache[p])
  BY DEF Init, HashSent
<1> QED
  BY <1>1, <1>2, <1>3 DEF PolicyInv, Holding, CopiesCurrent, HashesSent, Progress, Init

\* What Observed says of the worker's copy.
LEMMA ObservedFacts ==
  ASSUME PolicyInv, w.pc # "idle"
  PROVE  /\ Observed \in Statuses
         /\ Observed.hash = w.snap.st.hash
         /\ Observed.ready = "yes" => w.snap.st.hash = ComputeSpecHash(w.snap.spec)
<1> w.snap \in Objects /\ w.c \in Conditions /\ w.err \in BOOLEAN
  BY DEF PolicyInv, Typed, Holding, Workers
<1> w.snap.spec \in Specs /\ w.snap.st \in Statuses
  BY DEF Objects
<1> SearchIndex \in Index
  BY DEF SearchIndex, Index
<1> DEFINE c == [w.c EXCEPT !.idx = IF w.err THEN "failed" ELSE @]
<1>1. c \in Conditions
  BY DEF Conditions
<1>2. w.snap.st.hash \in {NoHash} \cup Hashes
  BY DEF Statuses
<1> HIDE DEF c
<1>3. c.valid \in {"ok", "bad"} /\ c.idx \in {"created", "pending", "failed"}
      /\ c.srch \in {"synced", "updating", "failed"} /\ c.filt \in {"synced", "updating", "failed"}
  BY <1>1 DEF Conditions
<1> DEFINE reidx == IF NeedsReindexing THEN "inProgress" ELSE "complete"
           good == /\ c.valid = "ok" /\ c.idx = "created" /\ c.srch = "synced"
                   /\ c.filt = "synced" /\ reidx = "complete"
<1>4. Observed = [index |-> SearchIndex, hash |-> w.snap.st.hash,
                  ready |-> IF good THEN "yes" ELSE "no", valid |-> c.valid, idx |-> c.idx,
                  srch |-> c.srch, filt |-> c.filt, reidx |-> reidx]
  BY DEF Observed, c
<1>5. Observed \in Statuses
  BY <1>2, <1>3, <1>4 DEF Statuses
<1>6. Observed.hash = w.snap.st.hash
  BY <1>4
<1>7. Observed.ready = "yes" => ~NeedsReindexing
  BY <1>4
<1> QED
  BY <1>5, <1>6, <1>7 DEF NeedsReindexing

\* A step that leaves the policies and the messages alone, and the worker where it is, idle,
\* or at another place with the same copy.
LEMMA WorkerMoves ==
  ASSUME PolicyInv, w' \in Workers,
         UNCHANGED <<store, cache, latest, sent, lost, seed, scope>>,
         admitted' \subseteq Writes,
         \/ w'.pc = "idle"
         \/ /\ w.pc # "idle"
            /\ w'.p = w.p /\ w'.snap = w.snap /\ w'.fresh = w.fresh
            /\ w'.pc = "publish" => w.pc = "publish" /\ w'.todo = w.todo /\ w'.err = w.err
  PROVE  PolicyInv'
<1>1. Typed'
  BY DEF PolicyInv, Typed
<1>2. Holding'
  BY DEF PolicyInv, Holding
<1>3. CopiesCurrent'
  BY DEF PolicyInv, CopiesCurrent
<1>4. HashesSent'
  BY DEF PolicyInv, HashesSent, HashSent, Backed, Sent
<1>5. Progress'
  BY ZenonT(40) DEF PolicyInv, Progress, ComputeSpecHash
<1> QED
  BY <1>1, <1>2, <1>3, <1>4, <1>5, Zenon DEF PolicyInv

\* A status update with a hash that was sent keeps what is said of the stored policies.
LEMMA StatusWritten ==
  ASSUME PolicyInv, w.pc # "idle", NEW st \in Statuses, WriteStatus(st),
         Backed(w.p, st.hash, w.snap.given),
         UNCHANGED <<cache, sent, lost>>
  PROVE  /\ store' \in [Policy -> Objects \cup {Absent}]
         /\ \A p \in Policy : HashSent(p, store[p])' /\ HashSent(p, cache[p])'
         /\ \A p \in Policy : p \in latest' => cache'[p] = store'[p]
         /\ store'[w.p] \in Objects /\ store'[w.p].spec = w.snap.spec /\ store'[w.p].st = st
         /\ store'[w.p].given = w.snap.given
         /\ \A p \in Policy \ {w.p} : store'[p] = store[p]
<1> w.p \in Policy /\ store[w.p] \in Objects /\ store[w.p].spec = w.snap.spec
    /\ store[w.p].given = w.snap.given
  BY DEF PolicyInv, Holding, CopiesCurrent, WriteStatus, Accepted
<1> store \in [Policy -> Objects \cup {Absent}]
  BY DEF PolicyInv, Typed
<1>1. store' = [store EXCEPT ![w.p] = [store[w.p] EXCEPT !.st = st]] /\ latest' = latest \ {w.p}
  BY DEF WriteStatus
<1>2. [store[w.p] EXCEPT !.st = st] \in Objects
  BY DEF Objects
<1>3. /\ [store[w.p] EXCEPT !.st = st].st = st /\ [store[w.p] EXCEPT !.st = st].spec = w.snap.spec
      /\ [store[w.p] EXCEPT !.st = st].given = w.snap.given
  BY DEF Objects
<1>4. /\ store' \in [Policy -> Objects \cup {Absent}]
      /\ store'[w.p] \in Objects /\ store'[w.p].spec = w.snap.spec /\ store'[w.p].st = st
      /\ store'[w.p].given = w.snap.given
      /\ \A p \in Policy \ {w.p} : store'[p] = store[p]
  BY <1>1, <1>2, <1>3
<1>5. \A p \in Policy : HashSent(p, store[p])' /\ HashSent(p, cache[p])'
  BY <1>4 DEF PolicyInv, HashesSent, HashSent, Backed, Sent
<1>6. \A p \in Policy : p \in latest' => cache'[p] = store'[p]
  BY <1>1, <1>4 DEF PolicyInv, CopiesCurrent
<1> QED
  BY <1>4, <1>5, <1>6

\* A write by a user, or the removal of an object: the worker's copy is no longer fresh.
LEMMA UserWrites ==
  ASSUME PolicyInv, NEW p \in Policy, NEW obj \in Objects \cup {Absent},
         store' = [store EXCEPT ![p] = obj], Superseded(p), HashSent(p, obj),
         UNCHANGED <<cache, sent, lost, seed, scope>>,
         admitted' \subseteq Writes
  PROVE  PolicyInv'
<1> store \in [Policy -> Objects \cup {Absent}] /\ w \in Workers
  BY DEF PolicyInv, Typed
<1>1. /\ w' \in Workers /\ w'.pc = w.pc /\ w'.p = w.p /\ w'.snap = w.snap
      /\ w'.todo = w.todo /\ w'.err = w.err
      /\ w'.fresh => w.fresh /\ w.p # p
  BY Zenon DEF Superseded, Workers
<1>2. Typed'
  BY <1>1 DEF PolicyInv, Typed
<1>3. Holding'
  BY <1>1 DEF PolicyInv, Holding
<1>4. CopiesCurrent'
  BY <1>1 DEF PolicyInv, Holding, CopiesCurrent, Superseded
<1>5. HashesSent'
  BY <1>1, SMTT(30) DEF PolicyInv, HashesSent, HashSent, Backed, Sent
<1>6. Progress'
  BY <1>1, ZenonT(60) DEF PolicyInv, Progress, ComputeSpecHash
<1> QED
  BY <1>2, <1>3, <1>4, <1>5, <1>6, Zenon DEF PolicyInv

\* Users and the API server preserve the invariant.
LEMMA UserStep ==
  ASSUME PolicyInv
  PROVE  /\ \A p \in scope.names, spec \in scope.specs, st \in scope.statuses :
              Admit(p, spec, st) => PolicyInv'
         /\ \A a \in admitted : Persist(a) => PolicyInv'
         /\ \A p \in Policy : Delete(p) => PolicyInv'
<1> store \in [Policy -> Objects \cup {Absent}] /\ w \in Workers
  BY DEF PolicyInv, Typed
<1> admitted \subseteq Writes
  BY DEF PolicyInv, Typed
<1>1. ASSUME NEW p \in scope.names, NEW spec \in scope.specs, NEW st \in scope.statuses,
             Admit(p, spec, st)
      PROVE  PolicyInv'
  <2>1. p \in Policy /\ spec \in Specs /\ st \in Statuses
    BY ScopeAssumption DEF PolicyInv, Typed, Specs
  <2>2. (IF store[p] = Absent THEN st ELSE store[p].st) \in Statuses
    BY <2>1 DEF Objects
  <2>3. admitted' \subseteq Writes
    BY <1>1, <2>1, <2>2 DEF Admit, Writes
  <2>4. w' = w /\ UNCHANGED <<store, cache, latest, sent, lost, seed, scope>>
    BY <1>1 DEF Admit
  <2> QED
    BY <2>3, <2>4, WorkerMoves
<1>2. ASSUME NEW a \in admitted, Persist(a) PROVE PolicyInv'
  <2>1. a.p \in Policy /\ a.spec \in Specs /\ a.st \in Statuses
    BY DEF Writes
  <2>2. admitted' \subseteq Writes
    BY <1>2 DEF Persist
  <2>3. CASE store[a.p] # a.on
    <3>1. w' = w /\ UNCHANGED <<store, cache, latest, sent, lost, seed, scope>>
      BY <1>2, <2>3, Zenon DEF Persist
    <3> QED
      BY <2>2, <3>1, WorkerMoves, ZenonT(40)
  <2>4. CASE store[a.p] = a.on
    <3> DEFINE obj == IF store[a.p] = Absent THEN NewObject(a.spec, a.st)
                      ELSE [store[a.p] EXCEPT !.spec = a.spec]
    <3>1. store' = [store EXCEPT ![a.p] = obj] /\ Superseded(a.p)
      BY <1>2, <2>4 DEF Persist
    <3>2. obj \in Objects \cup {Absent}
      BY <2>1, NewObjectTyped, SMTT(30) DEF Objects
    <3>3. store[a.p] # Absent => obj.st = store[a.p].st /\ obj.given = store[a.p].given
      BY <2>1 DEF Objects
    <3>4. HashSent(a.p, store[a.p])
      BY <2>1, Zenon DEF PolicyInv, HashesSent
    <3>5. HashSent(a.p, obj)
      BY <2>1, <3>3, <3>4, NewObjectTyped, Zenon DEF HashSent, Backed
    <3>6. UNCHANGED <<cache, sent, lost, seed, scope>>
      BY <1>2, Zenon DEF Persist
    <3> HIDE DEF obj
    <3> QED
      BY <2>1, <2>2, <3>1, <3>2, <3>5, <3>6, UserWrites, ZenonT(40)
  <2> QED
    BY <2>3, <2>4
<1>3. ASSUME NEW p \in Policy, Delete(p) PROVE PolicyInv'
  <2> DEFINE obj == IF store[p].fin THEN [store[p] EXCEPT !.del = TRUE] ELSE Absent
  <2>1. store' = [store EXCEPT ![p] = obj] /\ Superseded(p)
    BY <1>3 DEF Delete
  <2>2. store[p] \in Objects /\ store[p] # Absent
    BY <1>3 DEF Delete
  <2>3. /\ [store[p] EXCEPT !.del = TRUE] \in Objects /\ [store[p] EXCEPT !.del = TRUE].st = store[p].st
        /\ [store[p] EXCEPT !.del = TRUE].given = store[p].given
    BY <2>2, Zenon DEF Objects
  <2>4. HashSent(p, store[p])
    BY DEF PolicyInv, HashesSent
  <2>5. obj \in Objects \cup {Absent} /\ HashSent(p, obj)
    BY <2>2, <2>3, <2>4 DEF HashSent
  <2>6. UNCHANGED <<cache, sent, lost, seed, scope, admitted>>
    BY <1>3, Zenon DEF Delete
  <2> HIDE DEF obj
  <2> QED
    BY <2>1, <2>5, <2>6, UserWrites, Zenon
<1> QED
  BY <1>1, <1>2, <1>3

\* The informer, Meilisearch, the indexer and a restart preserve the invariant.
LEMMA SurroundingsStep ==
  ASSUME PolicyInv,
         \/ Sync \/ Resync \/ Restart
         \/ \E i \in Index, ok \in BOOLEAN : Process(i, ok)
         \/ \E i \in Index : LateWrite(i)
  PROVE  PolicyInv'
<1> w \in Workers /\ admitted \subseteq Writes
  BY DEF PolicyInv, Typed
<1>1. CASE Sync
  <2>1. cache' = store /\ UNCHANGED <<store, admitted, w, sent, lost, seed, scope>>
    BY <1>1, Zenon DEF Sync
  <2>2. Typed' /\ Holding' /\ Progress'
    BY <2>1, ZenonT(40) DEF PolicyInv, Typed, Holding, Progress, ComputeSpecHash
  <2>3. CopiesCurrent' /\ HashesSent'
    BY <2>1 DEF PolicyInv, CopiesCurrent, HashesSent, HashSent, Backed, Sent
  <2> QED
    BY <2>2, <2>3, ZenonT(40) DEF PolicyInv
<1>2. CASE Resync \/ \E i \in Index : LateWrite(i)
  <2>1. w' = w /\ UNCHANGED <<store, cache, latest, admitted, sent, lost, seed, scope>>
    BY <1>2, Zenon DEF Resync, LateWrite
  <2> QED
    BY <2>1, WorkerMoves, ZenonT(40)
<1>3. CASE Restart
  <2>1. /\ cache' = store /\ latest' = Policy /\ w' = Idle
        /\ UNCHANGED <<store, admitted, sent, lost>>
        /\ seed' \in {seed, seed + 1}
        /\ UNCHANGED scope
    BY <1>3 DEF Restart
  <2>2. w'.pc = "idle"
    BY <2>1 DEF Idle
  <2>3. Typed'
    BY <2>1, IdleTyped, SMTT(30) DEF PolicyInv, Typed
  <2> QED
    BY <2>1, <2>2, <2>3, SMTT(30) DEF PolicyInv, Holding, CopiesCurrent, HashesSent, HashSent, Backed, Sent, Progress
<1>4. ASSUME NEW i \in Index, NEW ok \in BOOLEAN, Process(i, ok) PROVE PolicyInv'
  <2>1. UNCHANGED <<store, cache, latest, admitted, sent, lost, seed, scope>>
    BY <1>4, ZenonT(40) DEF Process
  <2>2. w' = w \/ \E result \in {"succeeded", "failed"} : w' = [w EXCEPT !.wait = result]
    BY <1>4, ZenonT(40) DEF Process
  <2>3. /\ w' \in Workers /\ w'.pc = w.pc /\ w'.p = w.p /\ w'.snap = w.snap
        /\ w'.fresh = w.fresh /\ w'.todo = w.todo /\ w'.err = w.err
    BY <2>2, SMTT(30) DEF Workers
  <2> QED
    BY <2>1, <2>3, WorkerMoves, Zenon
<1> QED
  BY <1>1, <1>2, <1>3, <1>4, ZenonT(40)

\* The worker takes a policy, or deals with it at once.
LEMMA BeginStep ==
  ASSUME PolicyInv, NEW p \in Policy, Skip(p) \/ AddFinalizer(p) \/ Start(p) \/ StartFinalizer(p)
  PROVE  PolicyInv'
<1> /\ store \in [Policy -> Objects \cup {Absent}] /\ cache \in [Policy -> Objects \cup {Absent}]
    /\ w \in Workers /\ admitted \subseteq Writes
  BY Zenon DEF PolicyInv, Typed
<1>1. CASE Skip(p)
  <2>1. w' = w /\ UNCHANGED <<store, cache, latest, admitted, sent, lost, seed, scope>>
    BY <1>1, Zenon DEF Skip, World, Outside
  <2> QED
    BY <2>1, WorkerMoves, ZenonT(40)
<1>2. CASE AddFinalizer(p)
  <2>1. CASE ~(p \in latest /\ Valid(store, p, store[p].spec))
    <3>1. w' = w /\ UNCHANGED <<store, cache, latest, admitted, sent, lost, seed, scope>>
      BY <1>2, <2>1, ZenonT(40) DEF AddFinalizer, World, Outside
    <3> QED
      BY <3>1, WorkerMoves
  <2>2. CASE p \in latest /\ Valid(store, p, store[p].spec)
    <3>1. /\ store' = [store EXCEPT ![p] = [store[p] EXCEPT !.fin = TRUE]] /\ latest' = latest \ {p}
          /\ w.pc = "idle" /\ w' = w /\ UNCHANGED <<cache, admitted, sent, lost, seed, scope>>
      BY <1>2, <2>2, ZenonT(40) DEF AddFinalizer, World, Outside
    <3>2. store[p] = cache[p] /\ cache[p] # Absent
      BY <1>2, <2>2, ZenonT(40) DEF PolicyInv, CopiesCurrent, AddFinalizer
    <3>3. /\ [store[p] EXCEPT !.fin = TRUE] \in Objects
          /\ [store[p] EXCEPT !.fin = TRUE].st = store[p].st
          /\ [store[p] EXCEPT !.fin = TRUE].given = store[p].given
      BY <3>2, ZenonT(40) DEF Objects
    <3>4. store' \in [Policy -> Objects \cup {Absent}] /\ store'[p].st = store[p].st
          /\ store'[p].given = store[p].given
          /\ \A q \in Policy \ {p} : store'[q] = store[q]
      BY <3>1, <3>3
    <3>5. Typed' /\ Holding' /\ CopiesCurrent' /\ Progress'
      BY <3>1, <3>4 DEF PolicyInv, Typed, Holding, CopiesCurrent, Progress
    <3>6. \A q \in Policy : HashSent(q, store[q])'
      BY <3>1, <3>2, <3>4, SMTT(30) DEF PolicyInv, HashesSent, HashSent, Backed, Sent
    <3>7. HashesSent'
      BY <3>1, <3>6, SMTT(30) DEF PolicyInv, HashesSent, HashSent, Backed, Sent
    <3> QED
      BY <3>5, <3>7, ZenonT(40) DEF PolicyInv
  <2> QED
    BY <2>1, <2>2, ZenonT(40)
<1>3. CASE Start(p) \/ StartFinalizer(p)
  <2>1. PICK pc \in {"exists", "terminate"} : cache[p] # Absent /\ Begin(p, pc)
    BY <1>3, ZenonT(40) DEF Start, StartFinalizer
  <2>2. UNCHANGED <<store, cache, latest, admitted, sent, lost, seed, scope>>
    BY <2>1, ZenonT(40) DEF Begin, World, Outside
  <2>3. cache[p] \in Objects
    BY <2>1, ZenonT(40)
  <2>4. w' = [Idle EXCEPT !.pc = pc, !.p = p, !.snap = cache[p], !.fresh = p \in latest,
                          !.c.valid = IF Valid(cache, p, cache[p].spec) THEN "ok" ELSE "bad"]
    BY <2>1, ZenonT(40) DEF Begin
  <2>5. Idle.c \in Conditions
    BY IdleTyped, ZenonT(40) DEF Workers
  <2>6. [Idle.c EXCEPT !.valid = IF Valid(cache, p, cache[p].spec) THEN "ok" ELSE "bad"] \in Conditions
    BY <2>5, ZenonT(40) DEF Conditions
  <2>7. /\ w' \in Workers /\ w'.pc = pc /\ w'.p = p /\ w'.snap = cache[p] /\ w'.fresh = (p \in latest)
    <3> DEFINE C == [Idle.c EXCEPT !.valid = IF Valid(cache, p, cache[p].spec) THEN "ok" ELSE "bad"]
               fresh == p \in latest
    <3>1. w' = [Idle EXCEPT !.pc = pc, !.p = p, !.snap = cache[p], !.fresh = fresh, !.c = C]
      BY <2>4, ZenonT(40)
    <3>2. C \in Conditions
      BY <2>6, ZenonT(40)
    <3>3. fresh \in BOOLEAN
      OBVIOUS
    <3> HIDE DEF C, fresh
    <3>4. w' \in Workers /\ w'.pc = pc /\ w'.p = p /\ w'.snap = cache[p] /\ w'.fresh = fresh
      BY <2>3, <3>1, <3>2, <3>3, IdleTyped, ZenonT(60) DEF Workers, Places
    <3> QED
      BY <3>4, ZenonT(40) DEF fresh
  <2>8. Typed' /\ Holding' /\ Progress'
    BY <2>2, <2>3, <2>7, Zenon DEF PolicyInv, Typed, Holding, Progress
  <2>9. CopiesCurrent'
    BY <2>2, <2>3, <2>7, ZenonT(40) DEF PolicyInv, CopiesCurrent
  <2>10. HashesSent'
    BY <2>1, <2>2, <2>7, SMTT(30) DEF PolicyInv, HashesSent, HashSent, Backed, Sent
  <2> QED
    BY <2>8, <2>9, <2>10, Zenon DEF PolicyInv
<1> QED
  BY <1>1, <1>2, <1>3, Zenon

\* The steps of the worker that only call Meilisearch.
LEMMA CallStep ==
  ASSUME PolicyInv,
         \/ CheckIndex \/ CheckCreationTask \/ CreateIndex \/ AwaitCreation
         \/ SearchableAttributes \/ FilterableAttributes
         \/ DeleteAllDocuments \/ AwaitClear \/ DeleteIndex \/ AwaitDrop
  PROVE  PolicyInv'
<1> w \in Workers /\ admitted \subseteq Writes
  BY Zenon DEF PolicyInv, Typed
<1>1. UNCHANGED <<store, cache, latest, admitted, sent, lost, seed, scope>> /\ w.pc # "idle"
  BY Zenon DEF CheckIndex, CheckCreationTask, CreateIndex, AwaitCreation, SearchableAttributes,
         FilterableAttributes, Attributes, DeleteAllDocuments, AwaitClear, DeleteIndex, AwaitDrop,
         Remove, AwaitRemoval, World, Outside
<1> DEFINE Moved == /\ w' \in Workers /\ w'.pc # "publish"
                    /\ w'.p = w.p /\ w'.snap = w.snap /\ w'.fresh = w.fresh
<1>2. CASE CheckIndex \/ CheckCreationTask \/ CreateIndex \/ AwaitCreation
  <2>1. \A idx \in {"created", "pending", "failed"} : [w.c EXCEPT !.idx = idx] \in Conditions
    BY ZenonT(40) DEF Workers, Conditions
  <2>2. ASSUME CheckIndex PROVE Moved
    BY <2>2, ZenonT(60) DEF CheckIndex, Goto, Workers, Places
  <2>3. ASSUME CheckCreationTask PROVE Moved
    BY <2>1, <2>3, ZenonT(60) DEF CheckCreationTask, Goto, Workers, Places
  <2>4. ASSUME IndexFailed PROVE Moved
    <3>1. PICK c : c = [w.c EXCEPT !.idx = "failed"]
      BY Zenon
    <3>2. w' = [w EXCEPT !.pc = "status", !.err = TRUE, !.c = c, !.wait = "none"] /\ c \in Conditions
      BY <2>1, <2>4, <3>1 DEF IndexFailed, Workers
    <3> QED
      BY <3>2, ZenonT(60) DEF Workers, Places
  <2>5. ASSUME CreateIndex PROVE Moved
    <3>1. CASE w' = [w EXCEPT !.pc = "creating", !.wait = "pending"]
      BY <3>1, ZenonT(60) DEF Workers, Places
    <3>2. CASE IndexFailed
      BY <2>4, <3>2
    <3> QED
      BY <2>5, <3>1, <3>2, Zenon DEF CreateIndex
  <2>6. ASSUME AwaitCreation PROVE Moved
    <3>1. CASE w' = [w EXCEPT !.pc = "searchable", !.wait = "none"]
      BY <3>1, ZenonT(60) DEF Workers, Places
    <3>2. CASE IndexFailed
      BY <2>4, <3>2
    <3> QED
      BY <2>6, <3>1, <3>2, Zenon DEF AwaitCreation
  <2>7. Moved
    BY <1>2, <2>2, <2>3, <2>5, <2>6, Zenon
  <2> QED
    BY <1>1, <2>7, WorkerMoves, Zenon
<1>3. CASE SearchableAttributes \/ FilterableAttributes
  <2>1. PICK next \in {"filterable", "status"}, kind \in {"srch", "filt"},
             reason \in {"synced", "updating", "failed"} :
               w' = [w EXCEPT !.pc = next, !.c[kind] = reason]
    BY <1>3, ZenonT(40) DEF SearchableAttributes, FilterableAttributes, Attributes
  <2>2. [w.c EXCEPT ![kind] = reason] \in Conditions
    BY Zenon DEF Workers, Conditions
  <2>3. Moved
    BY <2>1, <2>2, ZenonT(60) DEF Workers, Places
  <2> QED
    BY <1>1, <2>3, WorkerMoves, ZenonT(40)
<1>4. CASE DeleteAllDocuments \/ AwaitClear \/ DeleteIndex \/ AwaitDrop
  <2> DEFINE Onward(pc) == w' = [w EXCEPT !.pc = pc] \/ w' = [w EXCEPT !.pc = pc, !.wait = "none"]
             Waiting(pc) == w' = [w EXCEPT !.pc = pc, !.wait = "pending"]
  <2> DEFINE Outcome == \/ w' = Idle
                        \/ \E pc \in {"drop", "release"} : Onward(pc)
                        \/ \E pc \in {"clearing", "dropping"} : Waiting(pc)
  <2>1. ASSUME DeleteAllDocuments PROVE Outcome
    <3>1. Onward("drop") \/ Waiting("clearing") \/ w' = Idle
      BY <2>1, ZenonT(40) DEF DeleteAllDocuments, Remove, Goto, Return
    <3> QED
      BY <3>1
  <2>2. ASSUME DeleteIndex PROVE Outcome
    <3>1. Onward("release") \/ Waiting("dropping") \/ w' = Idle
      BY <2>2, ZenonT(40) DEF DeleteIndex, Remove, Goto, Return
    <3> QED
      BY <3>1
  <2>3. ASSUME AwaitClear \/ AwaitDrop PROVE Outcome
    <3>1. Onward("drop") \/ Onward("release") \/ w' = Idle
      BY <2>3, ZenonT(40) DEF AwaitClear, AwaitDrop, AwaitRemoval, Return
    <3> QED
      BY <3>1
  <2>4. Outcome
    BY <1>4, <2>1, <2>2, <2>3, ZenonT(40)
  <2>5. CASE w' = Idle
    <3>1. Idle.pc = "idle"
      BY ZenonT(40) DEF Idle
    <3> QED
      BY <1>1, <2>5, <3>1, IdleTyped, WorkerMoves, ZenonT(40)
  <2>6. CASE \E pc \in {"drop", "release"} : Onward(pc)
    <3>1. Moved
      BY <2>6, ZenonT(60) DEF Workers, Places
    <3> QED
      BY <1>1, <3>1, WorkerMoves
  <2>7. CASE \E pc \in {"clearing", "dropping"} : Waiting(pc)
    <3>1. Moved
      BY <2>7, ZenonT(60) DEF Workers, Places
    <3> QED
      BY <1>1, <3>1, WorkerMoves
  <2> QED
    BY <2>4, <2>5, <2>6, <2>7
<1> QED
  BY <1>2, <1>3, <1>4

\* What the worker may write as a status: its hash was sent, and Ready is said of the
\* hash of the spec the worker holds.
Honest(st) ==
  /\ st \in Statuses
  /\ Backed(w.p, st.hash, w.snap.given)
  /\ st.ready = "yes" => st.hash = ComputeSpecHash(w.snap.spec)

\* The three statuses the worker writes are honest.
LEMMA StatusesHonest ==
  ASSUME PolicyInv
  PROVE  /\ w.pc = "status" => Honest(Observed)
         /\ w.pc = "publish" /\ w.todo = {} => Honest(Published)
         /\ w.pc = "terminate" => Honest(Terminating)
<1>1. ASSUME w.pc # "idle"
      PROVE  /\ w.snap \in Objects /\ w.snap.spec \in Specs /\ w.snap.st \in Statuses
             /\ Backed(w.p, w.snap.st.hash, w.snap.given)
  BY <1>1, Zenon DEF PolicyInv, Holding, HashesSent, Objects
<1>2. w.pc = "status" => Honest(Observed)
  BY <1>1, ObservedFacts, Zenon DEF Honest
<1>3. ASSUME w.pc = "publish", w.todo = {} PROVE Honest(Published)
  <2> w.err \in BOOLEAN /\ seed \in Nat
    BY SMTT(30) DEF PolicyInv, Typed, Workers
  <2>1. ComputeSpecHash(w.snap.spec) \in Hashes
    BY <1>1, <1>3 DEF ComputeSpecHash, Hashes
  <2>2. CASE w.err
    <3>1. Published = [w.snap.st EXCEPT !.hash = w.snap.st.hash, !.reidx = "reindexingFailed",
                                        !.ready = "no"]
      BY <2>2, Zenon DEF Published
    <3>2. Published \in Statuses /\ Published.hash = w.snap.st.hash /\ Published.ready = "no"
      BY <1>1, <1>3, <3>1, ZenonT(40) DEF Statuses
    <3> QED
      BY <1>1, <1>3, <3>2, Zenon DEF Honest
  <2>3. CASE ~w.err
    <3> DEFINE h == ComputeSpecHash(w.snap.spec)
    <3>1. Published = [w.snap.st EXCEPT !.hash = h, !.reidx = "published", !.ready = "yes"]
      BY <2>3, Zenon DEF Published
    <3>2. Sent(w.p, h)
      BY <1>3, <2>3, Zenon DEF PolicyInv, Progress, Sent
    <3>3. h \in Hashes
      BY <2>1, Zenon
    <3> HIDE DEF h
    <3>4. Published \in Statuses /\ Published.hash = h
      BY <1>1, <1>3, <3>1, <3>3, ZenonT(40) DEF Statuses
    <3> QED
      BY <3>2, <3>4, Zenon DEF Honest, Backed, h
  <2> QED
    BY <2>2, <2>3, Zenon
<1>4. ASSUME w.pc = "terminate" PROVE Honest(Terminating)
  <2>1. Terminating \in Statuses /\ Terminating.hash = w.snap.st.hash /\ Terminating.ready = "terminating"
    BY <1>1, <1>4, Zenon DEF Terminating, Statuses
  <2> QED
    BY <1>1, <1>4, <2>1, Zenon DEF Honest
<1> QED
  BY <1>2, <1>3, <1>4

\* A status update that fails returns to the queue.
LEMMA FailedUpdate ==
  ASSUME PolicyInv, StatusFails
  PROVE  PolicyInv' /\ UNCHANGED <<store, seed>>
<1>1. w' = Idle /\ UNCHANGED <<store, cache, latest, admitted, sent, lost, seed, scope>>
  BY Zenon DEF StatusFails, Return, World, Outside
<1>2. Idle.pc = "idle"
  BY Zenon DEF Idle
<1> QED
  BY <1>1, <1>2, IdleTyped, WorkerMoves, ZenonT(40) DEF PolicyInv, Typed

\* The steps of the worker that write a status, publish, or release a policy.
LEMMA WriteStep ==
  ASSUME PolicyInv,
         \/ UpdateStatus \/ FinishReindex \/ MarkTerminating \/ ReleasePolicy
         \/ \E t \in Tenants : PublishTenant(t)
  PROVE  PolicyInv'
<1> /\ store \in [Policy -> Objects \cup {Absent}]
    /\ w \in Workers /\ admitted \subseteq Writes
  BY Zenon DEF PolicyInv, Typed
<1> Idle.pc = "idle" /\ Idle \in Workers
  BY IdleTyped, Zenon DEF Idle
\* After a status update the worker is idle, at another place, or about to publish.
<1>1. ASSUME w.pc # "idle", NEW st, Honest(st), WriteStatus(st),
             UNCHANGED <<cache, admitted, sent, lost, seed, scope>>, w' \in Workers,
             \/ w'.pc = "idle"
             \/ /\ w'.p = w.p /\ w'.fresh = w.fresh
                /\ w'.snap \in Objects /\ w'.snap.spec = w.snap.spec
                /\ w'.snap.given = w.snap.given
                /\ w'.snap.st.hash = w.snap.st.hash
                /\ w'.pc = "publish" => w'.todo = Tenants
      PROVE  PolicyInv'
  <2>1. /\ store' \in [Policy -> Objects \cup {Absent}]
        /\ \A p \in Policy : HashSent(p, store[p])' /\ HashSent(p, cache[p])'
        /\ \A p \in Policy : p \in latest' => cache'[p] = store'[p]
        /\ store'[w.p] \in Objects /\ store'[w.p].spec = w.snap.spec
        /\ store'[w.p].given = w.snap.given
    BY <1>1, StatusWritten, Zenon DEF Honest
  <2>2. Typed'
    BY <1>1, <2>1, ZenonT(40) DEF PolicyInv, Typed
  <2>3. Holding'
    BY <1>1, Zenon DEF PolicyInv, Holding
  <2>4. CopiesCurrent'
    BY <1>1, <2>1, Zenon DEF CopiesCurrent
  <2>5. HashesSent'
    BY <1>1, <2>1, ZenonT(60) DEF PolicyInv, HashesSent, Backed, Sent
  <2>6. Progress'
    BY <1>1, Zenon DEF Progress, Tenants
  <2> QED
    BY <2>2, <2>3, <2>4, <2>5, <2>6, ZenonT(40) DEF PolicyInv
<1>2. ASSUME UpdateStatus, ~StatusFails PROVE PolicyInv'
  <2>1. /\ w.pc = "status" /\ AfterStatus
        /\ IF Observed = w.snap.st THEN UNCHANGED <<store, latest>> ELSE WriteStatus(Observed)
        /\ UNCHANGED <<cache, admitted, sent, lost, seed, scope>>
    BY <1>2, Zenon DEF UpdateStatus, World, Outside
  <2> DEFINE snap == [w.snap EXCEPT !.st = Observed]
  <2>2. w.snap \in Objects /\ w.p \in Policy
    BY <2>1, Zenon DEF PolicyInv, Holding
  <2>3. Observed \in Statuses /\ Observed.hash = w.snap.st.hash
    BY <2>1, ObservedFacts, Zenon
  <2>4. /\ snap \in Objects /\ snap.spec = w.snap.spec /\ snap.st = Observed
        /\ snap.given = w.snap.given
    BY <2>2, <2>3, ZenonT(40) DEF Objects
  <2>5. w' = Idle \/ w' = [w EXCEPT !.pc = "publish", !.snap = snap, !.todo = Tenants]
    BY <2>1, Zenon DEF AfterStatus, Return, Tenants
  <2> HIDE DEF snap
  <2>6. /\ w' \in Workers
        /\ \/ w'.pc = "idle"
           \/ /\ w'.pc = "publish" /\ w'.p = w.p /\ w'.fresh = w.fresh
              /\ w'.snap = snap /\ w'.todo = Tenants
    BY <2>4, <2>5, ZenonT(60) DEF Workers, Places
  <2>7. CASE Observed # w.snap.st
    BY <1>1, <2>1, <2>3, <2>4, <2>6, <2>7, StatusesHonest, Zenon
  <2>8. CASE Observed = w.snap.st
    <3>1. UNCHANGED <<store, cache, latest, admitted, sent, lost, seed, scope>>
      BY <2>1, <2>8, ZenonT(40)
    <3>2. CASE w'.pc = "idle"
      BY <2>6, <3>1, <3>2, WorkerMoves, ZenonT(40)
    <3>3. CASE w'.pc # "idle"
      <4>1. Typed' /\ Holding' /\ CopiesCurrent'
        BY <2>1, <2>2, <2>4, <2>6, <3>1, <3>3, ZenonT(40) DEF PolicyInv, Typed, Holding, CopiesCurrent
      <4>2. HashesSent'
        BY <2>1, <2>3, <2>4, <2>6, <3>1, <3>3 DEF PolicyInv, HashesSent, HashSent, Backed, Sent
      <4>3. Progress'
        BY <2>6, <3>3 DEF Progress, Tenants
      <4> QED
        BY <4>1, <4>2, <4>3, ZenonT(40) DEF PolicyInv
    <3> QED
      BY <3>2, <3>3, ZenonT(40)
  <2> QED
    BY <2>7, <2>8, Zenon
<1>3. ASSUME FinishReindex, ~StatusFails PROVE PolicyInv'
  <2>1. /\ w.pc = "publish" /\ w.todo = {} /\ WriteStatus(Published) /\ w' = Idle
        /\ UNCHANGED <<cache, admitted, sent, lost, seed, scope>>
    BY <1>3 DEF FinishReindex, Return, World, Outside
  <2> QED
    BY <1>1, <2>1, StatusesHonest
<1>4. ASSUME MarkTerminating, ~StatusFails PROVE PolicyInv'
  <2>1. /\ w.pc = "terminate" /\ w' = [w EXCEPT !.pc = "clear"]
        /\ IF Terminating = w.snap.st THEN UNCHANGED <<store, latest>> ELSE WriteStatus(Terminating)
        /\ UNCHANGED <<cache, admitted, sent, lost, seed, scope>>
    BY <1>4 DEF MarkTerminating, Goto, World, Outside
  <2>2. w' \in Workers /\ w'.pc = "clear" /\ w'.p = w.p /\ w'.snap = w.snap /\ w'.fresh = w.fresh
    BY <2>1 DEF Workers, Places
  <2>3. w.snap \in Objects
    BY <2>1 DEF PolicyInv, Holding
  <2>4. CASE Terminating = w.snap.st
    BY <2>1, <2>2, <2>4, WorkerMoves
  <2>5. CASE Terminating # w.snap.st
    BY <1>1, <2>1, <2>2, <2>3, <2>5, StatusesHonest
  <2> QED
    BY <2>4, <2>5
<1>5. ASSUME ReleasePolicy PROVE PolicyInv'
  <2>1. w' = Idle /\ UNCHANGED <<cache, admitted, sent, lost, seed, scope>>
    BY <1>5 DEF ReleasePolicy, Return, World, Outside
  <2>2. CASE ~Accepted
    <3>1. UNCHANGED <<store, latest>>
      BY <1>5, <2>2 DEF ReleasePolicy
    <3> QED
      BY <2>1, <3>1, WorkerMoves
  <2>3. CASE Accepted
    <3>1. w.p \in Policy /\ store' = [store EXCEPT ![w.p] = Absent] /\ latest' = latest \ {w.p}
      BY <1>5, <2>3 DEF ReleasePolicy, PolicyInv, Holding
    <3>2. Typed' /\ Holding' /\ CopiesCurrent' /\ Progress'
      BY <2>1, <3>1 DEF PolicyInv, Typed, Holding, CopiesCurrent, Progress
    <3>3. HashesSent'
      BY <2>1, <3>1 DEF PolicyInv, HashesSent, HashSent, Backed, Sent
    <3> QED
      BY <3>2, <3>3 DEF PolicyInv
  <2> QED
    BY <2>2, <2>3
<1>6. ASSUME NEW t \in Tenants, PublishTenant(t) PROVE PolicyInv'
  <2> DEFINE all == {r \in Resources : r[1] = t}
             Message(r) == [policy |-> w.p, hash |-> ComputeSpecHash(w.snap.spec),
                            index |-> w.snap.st.index, res |-> r]
  <2>1. PICK S \in SUBSET all, listed \in BOOLEAN :
          /\ sent' = sent \cup {Message(r) : r \in S}
          /\ lost' = IF listed THEN lost \cup {Message(r) : r \in all \ S} ELSE lost
          /\ w' = [w EXCEPT !.todo = @ \ {t}, !.err = @ \/ ~listed]
    BY <1>6 DEF PublishTenant
  <2>2. w.pc = "publish" /\ UNCHANGED <<store, cache, latest, admitted, seed, scope>>
    BY <1>6 DEF PublishTenant, World, Outside
  <2>3. /\ w' \in Workers /\ w'.pc = "publish" /\ w'.p = w.p /\ w'.snap = w.snap /\ w'.fresh = w.fresh
        /\ w'.todo = w.todo \ {t} /\ (w'.err <=> w.err \/ ~listed)
    BY <2>1, <2>2 DEF Workers
  <2>4. sent \cup lost \subseteq sent' \cup lost'
    BY <2>1
  <2>5. listed => \A r \in all : Message(r) \in sent' \cup lost'
    BY <2>1
  <2>6. Typed' /\ Holding' /\ CopiesCurrent'
    BY <2>2, <2>3 DEF PolicyInv, Typed, Holding, CopiesCurrent
  <2>7. HashesSent'
    BY <2>2, <2>3, <2>4 DEF PolicyInv, HashesSent, HashSent, Backed, Sent
  <2>8. Progress'
    <3> SUFFICES ASSUME NEW r \in Resources, r[1] \notin w'.todo, ~w'.err
                 PROVE  \E m \in sent' \cup lost' : /\ m.policy = w.p /\ m.res = r
                                                    /\ m.hash = ComputeSpecHash(w.snap.spec)
      BY <2>2, <2>3 DEF Progress, ComputeSpecHash
    <3>1. CASE r[1] = t
      <4>1. Message(r) \in sent' \cup lost'
        BY <2>3, <2>5, <3>1
      <4> QED
        BY <4>1
    <3>2. CASE r[1] # t
      BY <2>2, <2>3, <2>4, <3>2 DEF PolicyInv, Progress
    <3> QED
      BY <3>1, <3>2
  <2> QED
    BY <2>6, <2>7, <2>8 DEF PolicyInv
<1> QED
  BY <1>2, <1>3, <1>4, <1>5, <1>6, FailedUpdate, ZenonT(40)

\* Every step preserves the invariant.
LEMMA PolicyStep == PolicyInv /\ [Next]_vars => PolicyInv'
<1> SUFFICES ASSUME PolicyInv, [Next]_vars PROVE PolicyInv'
  OBVIOUS
<1>1. CASE UNCHANGED vars
  <2>1. w \in Workers /\ admitted \subseteq Writes
    BY DEF PolicyInv, Typed
  <2> QED
    BY <1>1, <2>1, WorkerMoves DEF vars
<1>2. CASE Reconcile
  BY <1>2, BeginStep, CallStep, WriteStep DEF Reconcile, Tenants
<1>3. CASE Next /\ ~Reconcile
  BY <1>3, UserStep, SurroundingsStep DEF Next
<1> QED
  BY <1>1, <1>2, <1>3

\* The invariant holds throughout.
THEOREM PolicyInvariance == Spec => []PolicyInv
  BY InitPolicyInv, PolicyStep, PTL DEF Spec

\* A stored hash is that of a spec whose resources were all listed and published, or given
\* up on one by one (Reconcile and publishReindexMessages), for every instance.
THEOREM HashAlwaysPublished == Spec => []HashMeansPublished
<1>1. PolicyInv => HashMeansPublished
  BY DEF PolicyInv, HashesSent, HashSent, Backed, Sent, HashMeansPublished
<1> QED
  BY <1>1, PolicyInvariance, PTL

\* A status that a worker writes is one of three, and is honest.
LEMMA StatusWriters ==
  ASSUME PolicyInv, Next, NEW p \in Policy, store[p] # Absent, store'[p] # Absent,
         store'[p].st # store[p].st
  PROVE  /\ w.pc # "idle" /\ p = w.p /\ seed' = seed
         /\ \E st : Honest(st) /\ WriteStatus(st) /\ UNCHANGED <<cache, sent, lost>>
<1> /\ store \in [Policy -> Objects \cup {Absent}] /\ store[p] \in Objects
    /\ admitted \subseteq Writes
  BY DEF PolicyInv, Typed
<1>1. store' # store
  OBVIOUS
<1>2. ~ \/ \E q \in scope.names, spec \in scope.specs, st \in scope.statuses : Admit(q, spec, st)
        \/ Sync \/ Resync \/ Restart
        \/ \E i \in Index, ok \in BOOLEAN : Process(i, ok)
        \/ \E i \in Index : LateWrite(i)
  BY <1>1 DEF Admit, Sync, Resync, Restart, Process, LateWrite
<1>3. ASSUME NEW a \in admitted, Persist(a) PROVE FALSE
  <2>1. a.p \in Policy
    BY DEF Writes
  <2>2. store' = [store EXCEPT ![a.p] = IF store[a.p] = Absent THEN NewObject(a.spec, a.st)
                                        ELSE [store[a.p] EXCEPT !.spec = a.spec]]
    BY <1>1, <1>3 DEF Persist
  <2>3. p = a.p /\ store'[p] = [store[p] EXCEPT !.spec = a.spec]
    BY <2>1, <2>2
  <2> QED
    BY <2>3 DEF Objects
<1>4. ASSUME NEW q \in Policy, Delete(q) PROVE FALSE
  <2>1. store' = [store EXCEPT ![q] = IF store[q].fin THEN [store[q] EXCEPT !.del = TRUE] ELSE Absent]
    BY <1>4 DEF Delete
  <2>2. p = q /\ store'[p] = [store[p] EXCEPT !.del = TRUE]
    BY <2>1
  <2> QED
    BY <2>2 DEF Objects
<1>5. ASSUME NEW q \in Policy, AddFinalizer(q) PROVE FALSE
  <2>1. store' = [store EXCEPT ![q] = [store[q] EXCEPT !.fin = TRUE]]
    BY <1>1, <1>5 DEF AddFinalizer
  <2>2. p = q /\ store'[p] = [store[p] EXCEPT !.fin = TRUE]
    BY <2>1
  <2> QED
    BY <2>2 DEF Objects
<1>6. ASSUME ReleasePolicy PROVE FALSE
  <2>1. w.p \in Policy /\ store' = [store EXCEPT ![w.p] = Absent]
    BY <1>1, <1>6 DEF ReleasePolicy, PolicyInv, Holding
  <2> QED
    BY <2>1
<1>7. UpdateStatus \/ FinishReindex \/ MarkTerminating
  BY <1>1, <1>2, <1>3, <1>4, <1>5, <1>6
     DEF Next, Reconcile, Skip, Start, StartFinalizer, Begin, CheckIndex, CheckCreationTask, CreateIndex,
         AwaitCreation, SearchableAttributes, FilterableAttributes, Attributes, PublishTenant,
         DeleteAllDocuments, AwaitClear, DeleteIndex, AwaitDrop, Remove, AwaitRemoval
<1>8. ~StatusFails
  BY <1>1 DEF StatusFails
<1>9. /\ w.pc # "idle" /\ UNCHANGED <<cache, sent, lost, seed>>
      /\ \E st : Honest(st) /\ WriteStatus(st)
  <2>1. CASE UpdateStatus
    BY <1>1, <1>8, <2>1, StatusesHonest DEF UpdateStatus, World, Outside
  <2>2. CASE FinishReindex
    BY <1>1, <1>8, <2>2, StatusesHonest DEF FinishReindex, World, Outside
  <2>3. CASE MarkTerminating
    BY <1>1, <1>8, <2>3, StatusesHonest DEF MarkTerminating, World, Outside
  <2> QED
    BY <1>7, <2>1, <2>2, <2>3
<1>10. p = w.p
  BY <1>9 DEF WriteStatus
<1> QED
  BY <1>9, <1>10

\* A status write that reports Ready stores the hash of the spec it is stored with: a stale
\* cache, an edit while the worker runs and a restart never make Ready true of a spec that
\* was not published (Reconcile, with optimistic locking), for every instance.
THEOREM ReadyAlwaysReindexed == Spec => ReadyOnlyIfReindexed
<1>1. PolicyInv /\ [Next]_vars =>
        [\A p \in Policy :
           store[p] # Absent /\ store'[p] # Absent /\ store'[p].st # store[p].st
           /\ store'[p].st.ready = "yes" => store'[p].st.hash = <<store'[p].spec, seed>>]_vars
  <2> SUFFICES ASSUME PolicyInv, Next, NEW p \in Policy, store[p] # Absent, store'[p] # Absent,
                      store'[p].st # store[p].st, store'[p].st.ready = "yes"
               PROVE  store'[p].st.hash = <<store'[p].spec, seed>>
    OBVIOUS
  <2>1. PICK st : Honest(st) /\ WriteStatus(st) /\ UNCHANGED <<cache, sent, lost>>
    BY StatusWriters
  <2>2. w.pc # "idle" /\ p = w.p
    BY StatusWriters
  <2>3. store'[w.p].spec = w.snap.spec /\ store'[w.p].st = st
    BY <2>1, <2>2, StatusWritten DEF Honest
  <2> QED
    BY <2>1, <2>2, <2>3 DEF Honest, ComputeSpecHash
<1> QED
  BY <1>1, PolicyInvariance, PTL DEF Spec, ReadyOnlyIfReindexed

-----------------------------------------------------------------------------
(* The settings tasks of an index. *)

\* The attributes that any task or index can hold.
Attribute == BaseFilterable \cup {<<"*">>} \cup UNION {Range(DesiredAttributes(s)) : s \in Specs}

Tasks == [type : {"create", "clear", "drop", "write", "srch", "filt"}, val : SUBSET Attribute, mine : BOOLEAN]

MeiliIndexes == [exists : BOOLEAN, srch : SUBSET Attribute, filt : SUBSET Attribute,
                 created : {"none", "pending", "succeeded", "failed"},
                 settings : {"none", "pending", "succeeded", "failed"}, tasks : Seq(Tasks)]

MeiliTyped == meili \in [Index -> MeiliIndexes] /\ faults \in Nat

SettingsAt(tasks) == {n \in DOMAIN tasks : tasks[n].type \in {"srch", "filt"}}

\* An index with settings tasks is known to have some, and there is one of them at most for
\* each failed check besides the first.
Counted(ix, most) ==
  /\ ix.settings # "pending" => SettingsAt(ix.tasks) = {}
  /\ Cardinality(SettingsAt(ix.tasks)) <= most

SettingsInv == MeiliTyped /\ \A i \in Index : Counted(meili[i], 1 + faults)

\* The settings tasks of a queue are finitely many.
LEMMA SettingsFinite ==
  ASSUME NEW tasks \in Seq(Tasks)
  PROVE  IsFiniteSet(SettingsAt(tasks)) /\ Cardinality(SettingsAt(tasks)) \in Nat
<1>1. SettingsAt(tasks) \in SUBSET (1 .. Len(tasks)) /\ Len(tasks) \in Nat
  BY DEF SettingsAt
<1>2. IsFiniteSet(1 .. Len(tasks))
  BY <1>1, FS_Interval
<1>3. IsFiniteSet(SettingsAt(tasks))
  BY <1>1, <1>2, FS_Subset
<1> QED
  BY <1>3, FS_CardinalityType

\* A task that arrives is counted if it is a settings task.
LEMMA SettingsAppend ==
  ASSUME NEW tasks \in Seq(Tasks), NEW t \in Tasks
  PROVE  /\ t.type \notin {"srch", "filt"} => SettingsAt(Append(tasks, t)) = SettingsAt(tasks)
         /\ Cardinality(SettingsAt(Append(tasks, t))) <= Cardinality(SettingsAt(tasks)) + 1
<1>1. /\ DOMAIN tasks = 1 .. Len(tasks) /\ Len(tasks) \in Nat
      /\ DOMAIN Append(tasks, t) = 1 .. Len(tasks) + 1
      /\ Append(tasks, t)[Len(tasks) + 1] = t
      /\ \A n \in 1 .. Len(tasks) : Append(tasks, t)[n] = tasks[n]
  OBVIOUS
<1>2. CASE t.type \notin {"srch", "filt"}
  <2>1. SettingsAt(Append(tasks, t)) = SettingsAt(tasks)
    BY <1>1, <1>2 DEF SettingsAt
  <2> QED
    BY <2>1, SettingsFinite
<1>3. CASE t.type \in {"srch", "filt"}
  <2>1. SettingsAt(Append(tasks, t)) = SettingsAt(tasks) \cup {Len(tasks) + 1}
    BY <1>1, <1>3 DEF SettingsAt
  <2>2. IsFiniteSet(SettingsAt(tasks)) /\ Cardinality(SettingsAt(tasks)) \in Nat
    BY SettingsFinite
  <2>3. Cardinality(SettingsAt(tasks) \cup {Len(tasks) + 1})
          \in {Cardinality(SettingsAt(tasks)), Cardinality(SettingsAt(tasks)) + 1}
    BY <2>2, FS_AddElement
  <2> QED
    BY <1>3, <2>1, <2>2, <2>3
<1> QED
  BY <1>2, <1>3

\* The first task leaves.
LEMMA SettingsTail ==
  ASSUME NEW tasks \in Seq(Tasks), tasks # <<>>
  PROVE  /\ Cardinality(SettingsAt(Tail(tasks))) <= Cardinality(SettingsAt(tasks))
         /\ SettingsAt(Tail(tasks)) = {n \in 1 .. Len(tasks) - 1 : n + 1 \in SettingsAt(tasks)}
<1> DEFINE S == SettingsAt(tasks)
           T == SettingsAt(Tail(tasks))
           f == [n \in T |-> n + 1]
<1>1. /\ DOMAIN tasks = 1 .. Len(tasks) /\ Len(tasks) \in Nat
      /\ DOMAIN Tail(tasks) = 1 .. Len(tasks) - 1
      /\ \A n \in 1 .. Len(tasks) - 1 : Tail(tasks)[n] = tasks[n + 1]
  BY HeadTailProperties
<1>2. T = {n \in 1 .. Len(tasks) - 1 : n + 1 \in S}
  BY <1>1 DEF SettingsAt
<1>3. f \in Injection(T, S)
  <2>1. \A n \in T : n \in Int /\ f[n] = n + 1 /\ f[n] \in S
    BY <1>1, <1>2
  <2>2. f \in [T -> S]
    BY <2>1
  <2>3. \A m, n \in T : f[m] = f[n] => m = n
    BY <2>1
  <2> QED
    BY <2>2, <2>3 DEF Injection, IsInjective
<1>4. Cardinality(T) <= Cardinality(S)
  BY <1>3, SettingsFinite, FS_Injection
<1> QED
  BY <1>2, <1>4

\* What submitting a task does to the queues.
LEMMA EnqueuedMeans ==
  ASSUME MeiliTyped, NEW i \in Index, NEW t \in Tasks
  PROVE  /\ Enqueued(i, t.type, t.val, t.mine) \in [Index -> MeiliIndexes]
         /\ \A j \in Index \ {i} : Enqueued(i, t.type, t.val, t.mine)[j] = meili[j]
         /\ Enqueued(i, t.type, t.val, t.mine)[i].tasks = Append(meili[i].tasks, t)
         /\ Enqueued(i, t.type, t.val, t.mine)[i].settings
              = IF t.type \in {"srch", "filt"} THEN "pending" ELSE meili[i].settings
<1> DEFINE ix == [meili[i] EXCEPT !.tasks = Append(@, t),
                                  !.created = IF t.type = "create" THEN "pending" ELSE @,
                                  !.settings = IF t.type \in {"srch", "filt"} THEN "pending" ELSE @]
<1>1. t = [type |-> t.type, val |-> t.val, mine |-> t.mine]
  BY DEF Tasks
<1>2. meili[i] \in MeiliIndexes
  BY DEF MeiliTyped
<1>3. Enqueued(i, t.type, t.val, t.mine) = [meili EXCEPT ![i] = ix]
  BY <1>1, <1>2 DEF Enqueued, MeiliTyped, MeiliIndexes
<1>4. Append(meili[i].tasks, t) \in Seq(Tasks)
  BY <1>2, AppendProperties DEF MeiliIndexes
<1>5. /\ ix \in MeiliIndexes /\ ix.tasks = Append(meili[i].tasks, t)
      /\ ix.settings = IF t.type \in {"srch", "filt"} THEN "pending" ELSE meili[i].settings
  BY <1>2, <1>4 DEF MeiliIndexes
<1> HIDE DEF ix
<1> QED
  BY <1>3, <1>5 DEF MeiliTyped

\* The start: no index has tasks.
LEMMA InitSettingsInv == Init => SettingsInv
<1> SUFFICES ASSUME Init PROVE SettingsInv
  OBVIOUS
<1>1. NewIndex \in MeiliIndexes /\ NewIndex.tasks = <<>>
  <2>1. {<<"*">>} \in SUBSET Attribute /\ {} \in SUBSET Attribute
    BY DEF Attribute
  <2>2. <<>> \in Seq(Tasks)
    OBVIOUS
  <2> QED
    BY <2>1, <2>2 DEF NewIndex, MeiliIndexes
<1>2. SettingsAt(<<>>) = {}
  BY DEF SettingsAt
<1>3. ASSUME NEW i \in Index PROVE Counted(meili[i], 1 + faults)
  <2>1. SettingsAt(meili[i].tasks) = {} /\ faults = 0
    BY <1>1, <1>2 DEF Init
  <2>2. Cardinality({}) = 0
    BY FS_EmptySet
  <2> QED
    BY <2>1, <2>2 DEF Counted
<1> QED
  BY <1>1, <1>3 DEF Init, SettingsInv, MeiliTyped

\* A step that leaves the queues alone.
LEMMA QueuesKept ==
  ASSUME SettingsInv, UNCHANGED meili, faults' \in {faults, faults + 1}
  PROVE  SettingsInv'
<1>1. MeiliTyped'
  BY DEF SettingsInv, MeiliTyped
<1>2. ASSUME NEW i \in Index
      PROVE  Counted(meili[i], 1 + faults)'
  <2>1. meili[i].tasks \in Seq(Tasks)
    BY DEF SettingsInv, MeiliTyped, MeiliIndexes
  <2>2. Cardinality(SettingsAt(meili[i].tasks)) \in Nat
    BY <2>1, SettingsFinite
  <2> QED
    BY <2>2 DEF SettingsInv, MeiliTyped, Counted
<1> QED
  BY <1>1, <1>2 DEF SettingsInv

\* A task is submitted: for other than settings, or while none is known of, or after a failure.
LEMMA SubmitStep ==
  ASSUME SettingsInv, NEW i \in Index, NEW t \in Tasks, faults' \in {faults, faults + 1},
         meili' = Enqueued(i, t.type, t.val, t.mine),
         t.type \notin {"srch", "filt"} \/ meili[i].settings # "pending" \/ faults' = faults + 1
  PROVE  SettingsInv'
<1>1. /\ meili' \in [Index -> MeiliIndexes]
      /\ \A j \in Index \ {i} : meili'[j] = meili[j]
      /\ meili'[i].tasks = Append(meili[i].tasks, t)
      /\ meili'[i].settings = IF t.type \in {"srch", "filt"} THEN "pending" ELSE meili[i].settings
  BY EnqueuedMeans DEF SettingsInv
<1>2. MeiliTyped'
  BY <1>1 DEF SettingsInv, MeiliTyped
<1>3. \A j \in Index : meili[j].tasks \in Seq(Tasks) /\ faults \in Nat
  BY DEF SettingsInv, MeiliTyped, MeiliIndexes
<1>4. ASSUME NEW j \in Index
      PROVE  Counted(meili[j], 1 + faults)'
  <2>1. Cardinality(SettingsAt(meili[j].tasks)) \in Nat
    BY <1>3, SettingsFinite
  <2>2. Counted(meili[j], 1 + faults)
    BY DEF SettingsInv
  <2>3. CASE j # i
    BY <1>1, <1>3, <2>1, <2>2, <2>3 DEF Counted
  <2>4. CASE j = i /\ t.type \notin {"srch", "filt"}
    <3>1. SettingsAt(meili'[i].tasks) = SettingsAt(meili[i].tasks)
      BY <1>1, <1>3, <2>4, SettingsAppend
    <3>2. Cardinality(SettingsAt(meili'[i].tasks)) <= 1 + faults'
      BY <1>3, <2>1, <2>2, <2>4, <3>1 DEF Counted
    <3>3. meili'[i].settings # "pending" => SettingsAt(meili'[i].tasks) = {}
      BY <1>1, <2>2, <2>4, <3>1 DEF Counted
    <3> QED
      BY <2>4, <3>2, <3>3 DEF Counted
  <2>5. CASE j = i /\ t.type \in {"srch", "filt"}
    <3>1. Cardinality(SettingsAt(meili'[i].tasks)) <= Cardinality(SettingsAt(meili[i].tasks)) + 1
      BY <1>1, <1>3, SettingsAppend
    <3>2. Cardinality(SettingsAt(meili'[i].tasks)) \in Nat
      BY <1>2, SettingsFinite DEF MeiliTyped, MeiliIndexes
    <3>3. Cardinality(SettingsAt(meili[i].tasks)) + 1 <= 1 + faults'
      <4>1. CASE faults' = faults + 1
        BY <1>3, <2>1, <2>2, <2>5, <4>1 DEF Counted
      <4>2. CASE meili[i].settings # "pending"
        <5>1. Cardinality(SettingsAt(meili[i].tasks)) = 0
          BY <2>2, <2>5, <4>2, FS_EmptySet DEF Counted
        <5> QED
          BY <1>3, <5>1
      <4> QED
        BY <2>5, <4>1, <4>2
    <3>4. Cardinality(SettingsAt(meili'[i].tasks)) <= 1 + faults'
      BY <1>3, <2>1, <2>5, <3>1, <3>2, <3>3
    <3> QED
      BY <1>1, <2>5, <3>4 DEF Counted
  <2> QED
    BY <2>3, <2>4, <2>5
<1> QED
  BY <1>2, <1>4 DEF SettingsInv

\* Nobody waits for a task any more; the queues hold the same tasks.
LEMMA DisownStep ==
  ASSUME SettingsInv, meili' = Disowned(meili), faults' \in {faults, faults + 1}
  PROVE  SettingsInv'
<1>1. ASSUME NEW i \in Index
      PROVE  /\ meili'[i] \in MeiliIndexes /\ Counted(meili[i], 1 + faults)'
  <2> DEFINE tasks == [n \in DOMAIN meili[i].tasks |-> [meili[i].tasks[n] EXCEPT !.mine = FALSE]]
  <2>1. meili[i] \in MeiliIndexes /\ meili[i].tasks \in Seq(Tasks) /\ faults \in Nat
    BY DEF SettingsInv, MeiliTyped, MeiliIndexes
  <2>2. meili'[i] = [meili[i] EXCEPT !.tasks = tasks]
    BY <2>1 DEF Disowned, MeiliIndexes
  <2>3. \A n \in DOMAIN meili[i].tasks :
          meili[i].tasks[n] \in Tasks /\ tasks[n] \in Tasks /\ tasks[n].type = meili[i].tasks[n].type
    <3>1. \A n \in DOMAIN meili[i].tasks : meili[i].tasks[n] \in Tasks
      BY <2>1, ElementOfSeq
    <3>2. \A t \in Tasks : [t EXCEPT !.mine = FALSE] \in Tasks /\ [t EXCEPT !.mine = FALSE].type = t.type
      BY DEF Tasks
    <3> QED
      BY <3>1, <3>2
  <2>4. tasks \in Seq(Tasks) /\ DOMAIN tasks = DOMAIN meili[i].tasks
    <3>1. Len(meili[i].tasks) \in Nat /\ DOMAIN meili[i].tasks = 1 .. Len(meili[i].tasks)
      BY <2>1
    <3>2. tasks \in [1 .. Len(meili[i].tasks) -> Tasks]
      BY <2>3, <3>1
    <3> QED
      BY <3>1, <3>2, SeqDef
  <2>5. SettingsAt(tasks) = SettingsAt(meili[i].tasks)
    BY <2>3, <2>4 DEF SettingsAt
  <2> HIDE DEF tasks
  <2>6. /\ meili'[i] \in MeiliIndexes /\ meili'[i].tasks = tasks
        /\ meili'[i].settings = meili[i].settings
    BY <2>1, <2>2, <2>4 DEF MeiliIndexes
  <2>7. Cardinality(SettingsAt(meili[i].tasks)) \in Nat
    BY <2>1, SettingsFinite
  <2>8. Counted(meili[i], 1 + faults)
    BY DEF SettingsInv
  <2>9. Cardinality(SettingsAt(meili'[i].tasks)) <= 1 + faults'
    BY <2>1, <2>5, <2>6, <2>7, <2>8 DEF Counted
  <2>10. meili'[i].settings # "pending" => SettingsAt(meili'[i].tasks) = {}
    BY <2>5, <2>6, <2>8 DEF Counted
  <2> QED
    BY <2>6, <2>9, <2>10 DEF Counted
<1>2. meili' \in [Index -> MeiliIndexes]
  BY <1>1 DEF Disowned
<1> QED
  BY <1>1, <1>2 DEF SettingsInv, MeiliTyped

\* Meilisearch works on the first task of an index.
LEMMA ProcessStep ==
  ASSUME SettingsInv, NEW i \in Index, NEW ok \in BOOLEAN, Process(i, ok)
  PROVE  SettingsInv'
<1> DEFINE old == meili[i]
           t == Head(old.tasks)
           result == IF ok THEN "succeeded" ELSE "failed"
           ix == IF ok THEN TaskEffect(old, t) ELSE old
           last == \A n \in 2 .. Len(old.tasks) : old.tasks[n].type \notin {"srch", "filt"}
           new == [ix EXCEPT !.tasks = Tail(@),
                             !.created = IF t.type = "create" THEN result ELSE @,
                             !.settings = IF t.type \in {"srch", "filt"} /\ last THEN result ELSE @]
<1>1. /\ old \in MeiliIndexes /\ old.tasks \in Seq(Tasks) /\ old.tasks # <<>> /\ faults \in Nat
      /\ meili' = [meili EXCEPT ![i] = new] /\ faults' \in {faults, faults + 1}
  BY DEF SettingsInv, MeiliTyped, MeiliIndexes, Process
<1>2. /\ t \in Tasks /\ t = old.tasks[1] /\ Tail(old.tasks) \in Seq(Tasks)
      /\ Len(old.tasks) \in Nat \ {0} /\ DOMAIN old.tasks = 1 .. Len(old.tasks)
  BY <1>1, HeadTailProperties
<1>3. ix \in MeiliIndexes /\ ix.tasks = old.tasks /\ ix.settings = old.settings
  <2>1. /\ t.type \in {"create", "clear", "drop", "write", "srch", "filt"}
        /\ t.val \in SUBSET Attribute
    BY <1>2 DEF Tasks
  <2>2. NewIndex.srch \in SUBSET Attribute /\ NewIndex.filt \in SUBSET Attribute
    BY DEF NewIndex, Attribute
  <2> HIDE DEF t, old
  <2>3. /\ TaskEffect(old, t) \in MeiliIndexes /\ TaskEffect(old, t).tasks = old.tasks
        /\ TaskEffect(old, t).settings = old.settings
    <3>1. CASE t.type = "drop"
      BY <1>1, <2>2, <3>1 DEF TaskEffect, MeiliIndexes
    <3>2. CASE t.type = "srch"
      BY <1>1, <2>1, <3>2 DEF TaskEffect, MeiliIndexes
    <3>3. CASE t.type = "filt"
      BY <1>1, <2>1, <3>3 DEF TaskEffect, MeiliIndexes
    <3>4. CASE t.type \in {"create", "write"}
      BY <1>1, <3>4 DEF TaskEffect, MeiliIndexes
    <3>5. CASE t.type = "clear"
      BY <1>1, <3>5 DEF TaskEffect, MeiliIndexes
    <3> QED
      BY <2>1, <3>1, <3>2, <3>3, <3>4, <3>5
  <2> QED
    BY <1>1, <2>3
<1> HIDE DEF ix, last
<1>4. /\ new \in MeiliIndexes /\ new.tasks = Tail(old.tasks)
      /\ new.settings = IF t.type \in {"srch", "filt"} /\ last THEN result ELSE old.settings
  BY <1>2, <1>3 DEF MeiliIndexes
<1> HIDE DEF new, t
<1>5. meili'[i] = new /\ (\A j \in Index \ {i} : meili'[j] = meili[j]) /\ MeiliTyped'
  BY <1>1, <1>4 DEF SettingsInv, MeiliTyped
<1>6. ASSUME NEW j \in Index
      PROVE  Counted(meili[j], 1 + faults)'
  <2>1. meili[j].tasks \in Seq(Tasks)
    BY DEF SettingsInv, MeiliTyped, MeiliIndexes
  <2>2. Cardinality(SettingsAt(meili[j].tasks)) \in Nat
    BY <2>1, SettingsFinite
  <2>3. Counted(meili[j], 1 + faults)
    BY DEF SettingsInv
  <2>4. CASE j # i
    BY <1>1, <1>5, <2>2, <2>3, <2>4 DEF Counted
  <2>5. CASE j = i
    <3>1. /\ Cardinality(SettingsAt(new.tasks)) <= Cardinality(SettingsAt(old.tasks))
          /\ SettingsAt(new.tasks) = {n \in 1 .. Len(old.tasks) - 1 : n + 1 \in SettingsAt(old.tasks)}
      BY <1>1, <1>4, SettingsTail
    <3>2. Cardinality(SettingsAt(new.tasks)) \in Nat
      BY <1>2, <1>4, SettingsFinite
    <3>3. Cardinality(SettingsAt(new.tasks)) <= 1 + faults'
      BY <1>1, <2>2, <2>3, <2>5, <3>1, <3>2 DEF Counted
    <3>4. new.settings # "pending" => SettingsAt(new.tasks) = {}
      <4>1. CASE t.type \in {"srch", "filt"} /\ last
        BY <1>2, <3>1, <4>1 DEF last, SettingsAt
      <4>2. CASE ~(t.type \in {"srch", "filt"} /\ last) /\ old.settings # "pending"
        <5>1. SettingsAt(old.tasks) = {}
          BY <2>3, <2>5, <4>2 DEF Counted
        <5> QED
          BY <3>1, <5>1
      <4> QED
        BY <1>4, <4>1, <4>2
    <3> QED
      BY <1>5, <2>5, <3>3, <3>4 DEF Counted
  <2> QED
    BY <2>4, <2>5
<1> QED
  BY <1>5, <1>6 DEF SettingsInv

\* One kind of attributes: a task is submitted only if none is known of, or after a failure.
LEMMA AttributesStep ==
  ASSUME SettingsInv, NEW kind \in {"srch", "filt"}, NEW same, NEW val \in SUBSET Attribute, NEW next,
         SearchIndex \in Index, Attributes(kind, same, val, next)
  PROVE  SettingsInv'
<1> DEFINE t == [type |-> kind, val |-> val, mine |-> FALSE]
<1>1. t \in Tasks /\ t.type = kind /\ t.val = val /\ t.mine = FALSE
  BY DEF Tasks
<1>2. PICK i \in Index : i = SearchIndex
  OBVIOUS
<1>3. /\ faults' \in {faults, faults + 1}
      /\ \/ UNCHANGED meili
         \/ /\ meili' = Enqueued(i, kind, val, FALSE)
            /\ meili[i].settings # "pending" \/ faults' = faults + 1
  BY <1>2 DEF Attributes
<1> HIDE DEF t
<1>4. CASE UNCHANGED meili
  BY <1>3, <1>4, QueuesKept
<1>5. CASE meili' = Enqueued(i, kind, val, FALSE) /\ (meili[i].settings # "pending" \/ faults' = faults + 1)
  BY <1>1, <1>3, <1>5, SubmitStep
<1> QED
  BY <1>3, <1>4, <1>5

\* Every step keeps the count.
LEMMA SettingsStep ==
  ASSUME PolicyInv, SettingsInv, [Next]_vars
  PROVE  SettingsInv'
<1>1. w.pc # "idle" => w.snap.spec \in Specs /\ SearchIndex \in Index
  BY DEF PolicyInv, Holding, Objects, SearchIndex, Index
<1>2. ASSUME NEW type \in {"create", "clear", "drop", "write"}, NEW mine \in BOOLEAN, NEW i \in Index,
             meili' = Enqueued(i, type, {}, mine), faults' \in {faults, faults + 1}
      PROVE  SettingsInv'
  <2> DEFINE t == [type |-> type, val |-> {}, mine |-> mine]
  <2>1. t \in Tasks /\ t.type = type /\ t.val = {} /\ t.mine = mine
    BY DEF Tasks
  <2> HIDE DEF t
  <2> QED
    BY <1>2, <2>1, SubmitStep
<1>3. ASSUME NEW i \in Index, LateWrite(i) PROVE SettingsInv'
  BY <1>2, <1>3 DEF LateWrite
<1>4. ASSUME Restart PROVE SettingsInv'
  BY <1>4, DisownStep DEF Restart
<1>5. ASSUME CreateIndex PROVE SettingsInv'
  <2>1. /\ UNCHANGED meili \/ \E mine \in BOOLEAN : meili' = Enqueued(SearchIndex, "create", {}, mine)
        /\ faults' \in {faults, faults + 1} /\ w.pc = "create"
    BY <1>5, Zenon DEF CreateIndex
  <2> QED
    BY <1>1, <1>2, <2>1, QueuesKept
<1>6. ASSUME AwaitCreation PROVE SettingsInv'
  BY <1>6, DisownStep, QueuesKept DEF AwaitCreation
<1>7. ASSUME SearchableAttributes PROVE SettingsInv'
  <2>1. Range(DesiredAttributes(w.snap.spec)) \in SUBSET Attribute
    BY <1>1, <1>7 DEF SearchableAttributes, Attribute
  <2> QED
    BY <1>1, <1>7, <2>1, AttributesStep DEF SearchableAttributes
<1>8. ASSUME FilterableAttributes PROVE SettingsInv'
  <2>1. w.pc = "filterable" /\ meili[SearchIndex] \in MeiliIndexes
    BY <1>1, <1>8 DEF FilterableAttributes, SettingsInv, MeiliTyped
  <2>2. MergeFilterableAttributes(meili[SearchIndex].filt, BaseFilterable) \in SUBSET Attribute
    BY <2>1 DEF MergeFilterableAttributes, Attribute, MeiliIndexes
  <2> QED
    BY <1>1, <1>8, <2>1, <2>2, AttributesStep DEF FilterableAttributes
<1>9. ASSUME DeleteAllDocuments \/ DeleteIndex PROVE SettingsInv'
  BY <1>1, <1>2, <1>9, QueuesKept DEF DeleteAllDocuments, DeleteIndex, Remove
<1>10. ASSUME AwaitClear \/ AwaitDrop PROVE SettingsInv'
  BY <1>10, DisownStep, QueuesKept DEF AwaitClear, AwaitDrop, AwaitRemoval
<1>11. ASSUME NEW t \in Tenants, PublishTenant(t) PROVE SettingsInv'
  <2>1. UNCHANGED meili /\ faults' \in {faults, faults + 1}
    BY <1>11 DEF PublishTenant
  <2> QED
    BY <2>1, QueuesKept
<1>12. ASSUME \/ UpdateStatus \/ FinishReindex \/ MarkTerminating \/ ReleasePolicy
              \/ CheckIndex \/ CheckCreationTask
       PROVE  SettingsInv'
  <2>1. UNCHANGED meili /\ faults' \in {faults, faults + 1}
    BY <1>12 DEF UpdateStatus, FinishReindex, MarkTerminating, ReleasePolicy, StatusFails, CheckIndex,
                 CheckCreationTask
  <2> QED
    BY <2>1, QueuesKept
<1>13. ASSUME NEW p \in Policy, Skip(p) \/ AddFinalizer(p) \/ Start(p) \/ StartFinalizer(p)
       PROVE  SettingsInv'
  <2>1. UNCHANGED <<meili, faults>>
    BY <1>13 DEF Skip, AddFinalizer, Start, StartFinalizer, Begin
  <2> QED
    BY <2>1, QueuesKept
<1>14. ASSUME \/ \E p \in scope.names, spec \in scope.specs, st \in scope.statuses : Admit(p, spec, st)
              \/ \E a \in admitted : Persist(a)
              \/ \E p \in Policy : Delete(p)
              \/ Sync \/ Resync \/ UNCHANGED vars
       PROVE  SettingsInv'
  <2>1. UNCHANGED <<meili, faults>>
    BY <1>14 DEF Admit, Persist, Delete, Sync, Resync, vars
  <2> QED
    BY <2>1, QueuesKept
<1> QED
  BY <1>3, <1>4, <1>5, <1>6, <1>7, <1>8, <1>9, <1>10, <1>11, <1>12, <1>13, <1>14, ProcessStep
     DEF Next, Reconcile, Tenants

\* A settings task waits for the one before it; each failed check lets at most one more
\* through (OneSettingsTask).
THEOREM AlwaysOneSettingsTask == Spec => []OneSettingsTask
<1>1. SettingsInv => OneSettingsTask
  BY DEF SettingsInv, Counted, SettingsAt, OneSettingsTask
<1>2. PolicyInv /\ SettingsInv /\ [Next]_vars => SettingsInv'
  BY SettingsStep
<1> QED
  BY <1>1, <1>2, InitSettingsInv, PolicyInvariance, PTL DEF Spec
=============================================================================
