-------------------------- MODULE PolicyController --------------------------
(***************************************************************************)
(* The controller manager's reconciler of ResourceIndexPolicy objects      *)
(* (internal/controllers/policy/policy_controller.go) with what it touches:*)
(* the API server's copy of each policy and its admission and status       *)
(* strategies, the informer cache the reconciler reads, the workqueue, the *)
(* Meilisearch indexes with their task queues, and the re-index stream.    *)
(*                                                                         *)
(* The manager is elected leader and runs one worker, so one Reconcile is  *)
(* in progress at a time; its steps interleave with users, with the        *)
(* informer and with Meilisearch.  Optimistic locking is kept as two facts *)
(* instead of a version number: whether the cache, and whether the         *)
(* worker's copy, is the latest stored version.                            *)
(***************************************************************************)
EXTENDS Integers, Sequences, FiniteSets, Functions

CONSTANTS Policy,       \* names of policies
          GetSearchIndex(_),  \* the index of a target (IndexNames says which)
          Resources,    \* what a List of the target returns: <<tenant, uid>>
          Scopes,       \* what may happen, one of:
                        \*   names, specs, statuses: what users write; a spec is
                        \*     [target |-> ..., fields |-> ...], a field is
                        \*     [path |-> its segments, searchable |-> ...]
                        \*   calls: the kinds of call that may fail
                        \*   faults: bound on failures of calls and tasks
                        \*   edits: bound on writes by users
                        \*   admitted: bound on writes between admission and storage
                        \*   late: bound on writes of the indexer
                        \*   restarts: bound on restarts of the manager
          Absent        \* no such object

Specs == UNION {s.specs : s \in Scopes}

VARIABLES store,     \* policies as the API server holds them
          cache,     \* policies as the informer has delivered them
          latest,    \* the policies whose cached copy is the stored one
          admitted,  \* validated user writes that are not stored yet
          queue,     \* the controller's workqueue
          w,         \* the worker: where in Reconcile it is, and its locals
          meili,     \* the Meilisearch indexes
          sent,      \* re-index messages published
          lost,      \* re-index messages whose publication failed
          seed,      \* reindexSeed of the running binary
          stray,     \* indexes that were reached behind the finalizer's back
          scope,     \* which of the Scopes this is
          faults, edits, late, restarts

vars == <<store, cache, latest, admitted, queue, w, meili, sent, lost, seed, stray,
          scope, faults, edits, late, restarts>>

-----------------------------------------------------------------------------
(* Names, hashes and validation.                                           *)

Index == {GetSearchIndex(s.target) : s \in Specs}

\* SHA-256 of the marshalled spec and the seed, taken to be free of collisions.
ComputeSpecHash(spec) == <<spec, seed>>
Hashes == Specs \X Nat
NoHash == <<>>

\* What remains of ValidateResourceIndexPolicy for specs whose expressions and
\* paths are valid: no other policy has the same target.
Valid(policies, p, spec) ==
  \A q \in Policy \ {p} :
     policies[q] # Absent => policies[q].spec.target # spec.target

Fault(call) == call \in scope.calls /\ faults < scope.faults

-----------------------------------------------------------------------------
(* Objects and the worker's locals.  A condition is its reason.            *)

NoStatus == [index |-> <<>>, hash |-> NoHash, ready |-> "unknown",
             valid |-> "unknown", idx |-> "unknown", srch |-> "unknown",
             filt |-> "unknown", reidx |-> "unknown"]

\* A create stores the status it comes with; "given" remembers its hash.
NewObject(spec, st) ==
  [spec |-> spec, fin |-> FALSE, del |-> FALSE, st |-> st, given |-> st.hash]

\* The conditions Reconcile prepares before it looks at anything.
Prepared == [valid |-> "ok", idx |-> "created", srch |-> "synced", filt |-> "synced"]

Idle == [pc |-> "idle", p |-> Absent, snap |-> Absent, fresh |-> FALSE,
         c |-> Prepared, err |-> FALSE, wait |-> "none", todo |-> {}]

NewIndex == [exists |-> FALSE, srch |-> {<<"*">>}, filt |-> {},
             created |-> "none", settings |-> "none", tasks |-> <<>>]

Init == /\ store = [p \in Policy |-> Absent]
        /\ cache = store
        /\ latest = Policy
        /\ admitted = {}
        /\ queue = {}
        /\ w = Idle
        /\ meili = [i \in Index |-> NewIndex]
        /\ sent = {} /\ lost = {} /\ stray = {}
        /\ scope \in Scopes
        /\ seed = 0 /\ faults = 0 /\ edits = 0 /\ late = 0 /\ restarts = 0

\* A task nobody waits for any more.
Disowned(m) == [i \in Index |->
   [m[i] EXCEPT !.tasks = [n \in DOMAIN @ |-> [@[n] EXCEPT !.mine = FALSE]]]]

-----------------------------------------------------------------------------
(* Users and the API server.  A write is validated against the policies    *)
(* listed at that moment and stored in a later step.                       *)

\* PrepareForCreate keeps a status that the user sends along, from an exported
\* manifest for example; an update returns the status it was made from.
Admit(p, spec, st) ==
  /\ edits < scope.edits /\ Cardinality(admitted) < scope.admitted
  /\ store[p] # Absent => ~store[p].del /\ store[p].spec # spec
  /\ Valid(store, p, spec)
  /\ admitted' = admitted \cup
       {[p |-> p, spec |-> spec, st |-> IF store[p] = Absent THEN st ELSE store[p].st, on |-> store[p]]}
  /\ edits' = edits + 1
  /\ UNCHANGED <<store, cache, latest, queue, w, meili, sent, lost, seed, stray, scope, faults, late, restarts>>

\* Storing a write makes the cached copy and the worker's copy old.
Superseded(p) ==
  /\ latest' = latest \ {p}
  /\ w' = IF w.p = p THEN [w EXCEPT !.fresh = FALSE] ELSE w

\* A create of a name that is taken, and an update of an object that has changed,
\* are refused.
Persist(a) ==
  /\ a \in admitted
  /\ admitted' = admitted \ {a}
  /\ IF store[a.p] = a.on
     THEN /\ store' = [store EXCEPT ![a.p] = IF @ = Absent THEN NewObject(a.spec, a.st)
                                            ELSE [@ EXCEPT !.spec = a.spec]]
          /\ stray' = IF a.on # Absent /\ a.on.spec.target # a.spec.target
                      THEN stray \cup {GetSearchIndex(a.on.spec.target)} ELSE stray
          /\ Superseded(a.p)
     ELSE UNCHANGED <<store, stray, latest, w>>
  /\ UNCHANGED <<cache, queue, meili, sent, lost, seed, scope, faults, edits, late, restarts>>

\* An object without finalizers goes at once, one with a finalizer is marked.
Delete(p) ==
  /\ edits < scope.edits
  /\ store[p] # Absent /\ ~store[p].del
  /\ store' = [store EXCEPT ![p] = IF @.fin THEN [@ EXCEPT !.del = TRUE] ELSE Absent]
  /\ Superseded(p)
  /\ edits' = edits + 1
  /\ UNCHANGED <<cache, admitted, queue, meili, sent, lost, seed, stray, scope, faults, late, restarts>>

\* One watch carries the changes of all policies, in order: the cache is the store
\* as it was at some moment.  Changed policies enter the workqueue.
Sync ==
  /\ latest # Policy
  /\ cache' = store
  /\ latest' = Policy
  /\ queue' = queue \cup (Policy \ latest)
  /\ UNCHANGED <<store, admitted, w, meili, sent, lost, seed, stray, scope, faults, edits, late, restarts>>

\* The informer's periodic resync queues every cached policy again.
Resync ==
  /\ ~ {p \in Policy : cache[p] # Absent} \subseteq queue
  /\ queue' = queue \cup {p \in Policy : cache[p] # Absent}
  /\ UNCHANGED <<store, cache, latest, admitted, w, meili, sent, lost, seed, stray, scope,
                 faults, edits, late, restarts>>

-----------------------------------------------------------------------------
(* Meilisearch: asynchronous tasks, in order of arrival for each index.    *)

Enqueued(i, type, val, mine) ==
  [meili EXCEPT ![i].tasks = Append(@, [type |-> type, val |-> val, mine |-> mine]),
                ![i].created = IF type = "create" THEN "pending" ELSE @,
                ![i].settings = IF type \in {"srch", "filt"} THEN "pending" ELSE @]

\* What a task does to its index.  Settings and documents create a missing index.
TaskEffect(ix, t) ==
  CASE t.type = "drop" -> [ix EXCEPT !.exists = FALSE, !.srch = NewIndex.srch,
                                            !.filt = NewIndex.filt]
    [] t.type = "srch" -> [ix EXCEPT !.exists = TRUE, !.srch = t.val]
    [] t.type = "filt" -> [ix EXCEPT !.exists = TRUE, !.filt = t.val]
    [] t.type \in {"create", "write"} -> [ix EXCEPT !.exists = TRUE]
    [] t.type = "clear" -> ix

\* Creating what exists, and clearing or dropping what does not, fails.
Applicable(ix, t) == CASE t.type = "create" -> ~ix.exists
                       [] t.type \in {"clear", "drop"} -> ix.exists
                       [] OTHER -> TRUE

Process(i, ok) ==
  /\ meili[i].tasks # <<>>
  /\ LET t == Head(meili[i].tasks)
         result == IF ok THEN "succeeded" ELSE "failed"
         ix == IF ok THEN TaskEffect(meili[i], t) ELSE meili[i]
         lastSettings == \A n \in 2..Len(meili[i].tasks) :
                            meili[i].tasks[n].type \notin {"srch", "filt"}
     IN /\ IF ok THEN Applicable(meili[i], t) /\ UNCHANGED faults
           ELSE IF Applicable(meili[i], t) THEN Fault("process") /\ faults' = faults + 1
           ELSE UNCHANGED faults
        /\ meili' = [meili EXCEPT ![i] =
             [ix EXCEPT !.tasks = Tail(@),
                        !.created = IF t.type = "create" THEN result ELSE @,
                        !.settings = IF t.type \in {"srch", "filt"} /\ lastSettings
                                     THEN result ELSE @]]
        /\ w' = IF t.mine THEN [w EXCEPT !.wait = result] ELSE w
  /\ UNCHANGED <<store, cache, latest, admitted, queue, sent, lost, seed, stray, scope, edits, late, restarts>>

\* The indexer still holds, or is redelivered, a message for the index.
LateWrite(i) ==
  /\ late < scope.late
  /\ \E m \in sent : m.index = i
  /\ meili' = Enqueued(i, "write", {}, FALSE)
  /\ late' = late + 1
  /\ stray' = stray \cup {i}
  /\ UNCHANGED <<store, cache, latest, admitted, queue, w, sent, lost, seed, scope, faults, edits,
                 restarts>>

-----------------------------------------------------------------------------
(* Reconcile.  A step makes one call, or calls between which nothing that  *)
(* they read can change.                                                   *)

SearchIndex == GetSearchIndex(w.snap.spec.target)

Outside == <<cache, admitted, seed, scope, edits, late, restarts>>
World == <<stray, Outside>>

Goto(pc) == w' = [w EXCEPT !.pc = pc]

Return(again) ==
  /\ w' = Idle
  /\ queue' = IF again THEN queue \cup {w.p} ELSE queue

\* Get reads the cache.
Begin(p, pc) ==
  /\ w.pc = "idle" /\ p \in queue
  /\ queue' = queue \ {p}
  /\ w' = [Idle EXCEPT !.pc = pc, !.p = p, !.snap = cache[p], !.fresh = p \in latest,
                       !.c.valid = IF Valid(cache, p, cache[p].spec) THEN "ok" ELSE "bad"]
  /\ UNCHANGED <<store, latest, meili, sent, lost, faults, World>>

\* Nothing to do: the policy is gone, or is going and has been finalized.
Skip(p) ==
  /\ w.pc = "idle" /\ p \in queue
  /\ cache[p] # Absent => cache[p].del /\ ~cache[p].fin
  /\ queue' = queue \ {p}
  /\ UNCHANGED <<store, latest, w, meili, sent, lost, faults, World>>

\* The finalizer is added before anything else, and the reconcile ends; a conflict
\* or a refused update comes back.
AddFinalizer(p) ==
  /\ w.pc = "idle" /\ p \in queue
  /\ cache[p] # Absent /\ ~cache[p].del /\ ~cache[p].fin
  /\ IF p \in latest /\ Valid(store, p, store[p].spec)
     THEN /\ store' = [store EXCEPT ![p].fin = TRUE]
          /\ latest' = latest \ {p}
          /\ queue' = queue \ {p}
     ELSE UNCHANGED <<store, latest, queue>>
  /\ UNCHANGED <<w, meili, sent, lost, faults, World>>

Start(p) ==
  /\ cache[p] # Absent /\ ~cache[p].del /\ cache[p].fin
  /\ Begin(p, "exists")

StartFinalizer(p) ==
  /\ cache[p] # Absent /\ cache[p].del /\ cache[p].fin
  /\ Begin(p, "terminate")

\* An update is refused if the object has changed or no longer validates.
Accepted == w.fresh /\ Valid(store, w.p, w.snap.spec)

\* Status().Update: the worker's copy becomes the stored one.
WriteStatus(st) ==
  /\ Accepted
  /\ store' = [store EXCEPT ![w.p].st = st]
  /\ latest' = latest \ {w.p}

\* A status update that fails ends the reconcile with an error.
StatusFails ==
  /\ \/ ~Accepted /\ UNCHANGED faults
     \/ Accepted /\ Fault("status") /\ faults' = faults + 1
  /\ Return(TRUE)
  /\ UNCHANGED <<store, latest, meili, sent, lost, World>>

CheckIndex ==
  /\ w.pc = "exists"
  /\ \/ /\ Goto(IF meili[SearchIndex].exists THEN "searchable" ELSE "task")
        /\ UNCHANGED faults
     \/ /\ Fault("exists") /\ faults' = faults + 1
        /\ w' = [w EXCEPT !.pc = "searchable", !.err = TRUE]
  /\ UNCHANGED <<store, latest, queue, meili, sent, lost, World>>

CheckCreationTask ==
  /\ w.pc = "task"
  /\ \/ /\ meili[SearchIndex].created = "pending"
        /\ w' = [w EXCEPT !.pc = "status", !.c.idx = "pending"]
        /\ UNCHANGED faults
     \/ /\ meili[SearchIndex].created # "pending"
        /\ Goto("create")
        /\ UNCHANGED faults
     \/ /\ Fault("task") /\ faults' = faults + 1
        /\ w' = [w EXCEPT !.pc = "searchable", !.err = TRUE]
  /\ UNCHANGED <<store, latest, queue, meili, sent, lost, World>>

IndexFailed == w' = [w EXCEPT !.pc = "status", !.err = TRUE, !.c.idx = "failed",
                              !.wait = "none"]

\* A call that fails may have reached Meilisearch all the same.
CreateIndex ==
  /\ w.pc = "create"
  /\ \/ /\ meili' = Enqueued(SearchIndex, "create", {}, TRUE)
        /\ w' = [w EXCEPT !.pc = "creating", !.wait = "pending"]
        /\ UNCHANGED <<stray, faults>>
     \/ /\ Fault("create") /\ faults' = faults + 1
        /\ IndexFailed
        /\ \/ UNCHANGED <<meili, stray>>
           \/ /\ meili' = Enqueued(SearchIndex, "create", {}, FALSE)
              /\ stray' = stray \cup {SearchIndex}
  /\ UNCHANGED <<store, latest, queue, sent, lost, Outside>>

\* CreateIndex waits for its task, and does not look at how the task ended.
AwaitCreation ==
  /\ w.pc = "creating"
  /\ \/ /\ w.wait # "pending"
        /\ w' = [w EXCEPT !.pc = "searchable", !.wait = "none"]
        /\ UNCHANGED <<meili, stray, faults>>
     \/ /\ w.wait = "pending"
        /\ Fault("wait") /\ faults' = faults + 1
        /\ IndexFailed
        /\ meili' = Disowned(meili)
        /\ stray' = stray \cup {SearchIndex}
  /\ UNCHANGED <<store, latest, queue, sent, lost, Outside>>

\* Searchable paths lose their "*" segments; the result is compared as a list, so
\* two paths that become the same attribute count twice.
DesiredAttributes(spec) ==
  LET searchable == SelectSeq(spec.fields, LAMBDA f : f.searchable)
  IN [n \in DOMAIN searchable |-> SelectSeq(searchable[n].path, LAMBDA seg : seg # "*")]

BaseFilterable == {"uid", "metadata.name", "metadata.namespace", "_tenant", "_tenant_type"}

MergeFilterableAttributes(existing, required) == existing \cup required

\* One kind of attributes.  A pending settings task is left alone; otherwise the
\* current attributes are read and an update is submitted if they are not the
\* desired ones.  When the check for a pending task fails, the rest goes ahead, and an
\* update that fails may have reached Meilisearch.
Attributes(kind, same, val, next) ==
  LET ix == meili[SearchIndex]
      Submit(yes) == IF yes THEN Enqueued(SearchIndex, kind, val, FALSE) ELSE meili
      Record(reason) == w' = [w EXCEPT !.pc = next, !.c[kind] = reason]
  IN /\ \/ /\ ix.settings = "pending"
           /\ Record("updating") /\ UNCHANGED <<meili, faults>>
        \/ /\ ix.settings # "pending" /\ ~ix.exists
           /\ Record("failed") /\ UNCHANGED <<meili, faults>>
        \/ /\ ix.settings # "pending" /\ ix.exists
           /\ Record(IF same THEN "synced" ELSE "updating")
           /\ meili' = Submit(~same) /\ UNCHANGED faults
        \/ /\ Fault("attributes") /\ faults' = faults + 1
           /\ \E submit \in {FALSE, ix.exists /\ ~same}, answered \in BOOLEAN :
                /\ Record(IF submit /\ answered THEN "updating" ELSE "failed")
                /\ meili' = Submit(submit)
     /\ UNCHANGED <<store, latest, queue, sent, lost, World>>

SearchableAttributes ==
  /\ w.pc = "searchable"
  /\ LET desired == DesiredAttributes(w.snap.spec)
         current == meili[SearchIndex].srch
     IN Attributes("srch", Len(desired) = Cardinality(current) /\ Range(desired) = current,
                   Range(desired), "filterable")

\* Faulty variant: filterable attributes are updated without the pending check.
FilterableUnchecked ==
  /\ w.pc = "filterable"
  /\ LET current == meili[SearchIndex].filt
         desired == MergeFilterableAttributes(current, BaseFilterable)
     IN meili' = IF current = desired THEN meili
                 ELSE Enqueued(SearchIndex, "filt", desired, FALSE)
  /\ Goto("status")
  /\ UNCHANGED <<store, latest, queue, sent, lost, faults, World>>

FilterableAttributes ==
  /\ w.pc = "filterable"
  /\ LET current == meili[SearchIndex].filt
         desired == MergeFilterableAttributes(current, BaseFilterable)
     IN Attributes("filt", current = desired, desired, "status")

NeedsReindexing == ComputeSpecHash(w.snap.spec) # w.snap.st.hash

\* The status computed from what was found, with the stored hash left as it is.
Observed ==
  LET c == [w.c EXCEPT !.idx = IF w.err THEN "failed" ELSE @]
      reidx == IF NeedsReindexing THEN "inProgress" ELSE "complete"
      good == /\ c.valid = "ok" /\ c.idx = "created" /\ c.srch = "synced"
              /\ c.filt = "synced" /\ reidx = "complete"
  IN [index |-> SearchIndex, hash |-> w.snap.st.hash,
      ready |-> IF good THEN "yes" ELSE "no", valid |-> c.valid, idx |-> c.idx,
      srch |-> c.srch, filt |-> c.filt, reidx |-> reidx]

\* Faulty variant: pending work does not come back.
AfterStatusForgettingPending ==
  IF Observed.valid = "bad" \/ w.err
  THEN Return(TRUE)
  ELSE IF NeedsReindexing /\ Observed.idx # "pending"
          /\ Observed.srch # "updating" /\ Observed.filt # "updating"
  THEN /\ w' = [w EXCEPT !.pc = "publish", !.snap.st = Observed,
                         !.todo = {r[1] : r \in Resources}]
       /\ UNCHANGED queue
  ELSE Return(FALSE)

\* After the status: an error or pending work comes back, a new spec is published.
AfterStatus ==
  IF Observed.valid = "bad" \/ w.err \/ Observed.idx = "pending"
     \/ Observed.srch = "updating" \/ Observed.filt = "updating"
  THEN Return(TRUE)
  ELSE IF NeedsReindexing
  THEN /\ w' = [w EXCEPT !.pc = "publish", !.snap.st = Observed,
                         !.todo = {r[1] : r \in Resources}]
       /\ UNCHANGED queue
  ELSE Return(FALSE)

UpdateStatus ==
  /\ w.pc = "status"
  /\ \/ /\ IF Observed = w.snap.st THEN UNCHANGED <<store, latest>> ELSE WriteStatus(Observed)
        /\ AfterStatus
        /\ UNCHANGED <<meili, sent, lost, faults, World>>
     \/ Observed # w.snap.st /\ StatusFails

\* One tenant: its resources are listed page by page and published one by one.  A
\* failed List is an error, with what its earlier pages held already published; a
\* failed publication is logged.
PublishTenant(t) ==
  /\ w.pc = "publish" /\ t \in w.todo
  /\ \E S \in SUBSET {r \in Resources : r[1] = t}, listed \in BOOLEAN :
       LET all == {r \in Resources : r[1] = t}
           Message(r) == [policy |-> w.p, hash |-> ComputeSpecHash(w.snap.spec),
                          index |-> w.snap.st.index, res |-> r]
       IN /\ IF listed /\ S = all THEN UNCHANGED faults
             ELSE Fault(IF listed THEN "publish" ELSE "list") /\ faults' = faults + 1
          /\ sent' = sent \cup {Message(r) : r \in S}
          /\ lost' = IF listed THEN lost \cup {Message(r) : r \in all \ S} ELSE lost
          /\ w' = [w EXCEPT !.todo = @ \ {t}, !.err = @ \/ ~listed]
  /\ UNCHANGED <<store, latest, queue, meili, World>>

\* Faulty variants: the hash is stored although a List failed; Ready is reported
\* although a List failed; the hash is not stored.
PublishedHashAlways ==
  [w.snap.st EXCEPT !.hash = ComputeSpecHash(w.snap.spec),
                    !.reidx = IF w.err THEN "reindexingFailed" ELSE "published",
                    !.ready = IF w.err THEN "no" ELSE "yes"]

PublishedReadyAlways ==
  [w.snap.st EXCEPT !.hash = IF w.err THEN @ ELSE ComputeSpecHash(w.snap.spec),
                    !.reidx = IF w.err THEN "reindexingFailed" ELSE "published",
                    !.ready = "yes"]

\* The outcome of publishing decides Reindexing, and Reindexing alone decides Ready.
Published ==
  [w.snap.st EXCEPT
     !.hash = IF w.err THEN @ ELSE ComputeSpecHash(w.snap.spec),
     !.reidx = IF w.err THEN "reindexingFailed" ELSE "published",
     !.ready = IF w.err THEN "no" ELSE "yes"]

FinishReindex ==
  /\ w.pc = "publish" /\ w.todo = {}
  /\ \/ /\ WriteStatus(Published)
        /\ Return(w.err)
        /\ UNCHANGED <<meili, sent, lost, faults, World>>
     \/ StatusFails

-----------------------------------------------------------------------------
(* The finalizer, run by Reconcile for a policy that is being deleted.     *)

Terminating == [w.snap.st EXCEPT !.ready = "terminating"]

MarkTerminating ==
  /\ w.pc = "terminate"
  /\ \/ /\ IF Terminating = w.snap.st THEN UNCHANGED <<store, latest>>
                                       ELSE WriteStatus(Terminating)
        /\ Goto("clear")
        /\ UNCHANGED <<queue, meili, sent, lost, faults, World>>
     \/ Terminating # w.snap.st /\ StatusFails

\* DeleteAllDocuments and DeleteIndex: nothing to do if the index is missing, else
\* a task that is waited for.
Remove(type, pc, waiting, next) ==
  /\ w.pc = pc
  /\ \/ /\ ~meili[SearchIndex].exists
        /\ Goto(next)
        /\ UNCHANGED <<queue, meili, faults>>
     \/ /\ meili[SearchIndex].exists
        /\ meili' = Enqueued(SearchIndex, type, {}, TRUE)
        /\ w' = [w EXCEPT !.pc = waiting, !.wait = "pending"]
        /\ UNCHANGED <<queue, faults>>
     \/ /\ Fault("exists") /\ faults' = faults + 1
        /\ Return(TRUE)
        /\ UNCHANGED meili
  /\ UNCHANGED <<store, latest, sent, lost, World>>

\* Only a task that succeeded lets the finalizer go on.
AwaitRemoval(waiting, next) ==
  /\ w.pc = waiting
  /\ \/ /\ w.wait = "succeeded"
        /\ w' = [w EXCEPT !.pc = next, !.wait = "none"]
        /\ UNCHANGED <<queue, meili, faults>>
     \/ /\ w.wait = "failed"
        /\ Return(TRUE)
        /\ UNCHANGED <<meili, faults>>
     \/ /\ w.wait = "pending"
        /\ Fault("wait") /\ faults' = faults + 1
        /\ Return(TRUE)
        /\ meili' = Disowned(meili)
  /\ UNCHANGED <<store, latest, sent, lost, World>>

DeleteAllDocuments == Remove("clear", "clear", "clearing", "drop")
\* Faulty variants: the finalizer stops after the documents; the deletion of the
\* index is requested and not waited for.
AwaitClearOnly == AwaitRemoval("clearing", "release")

DropWithoutWaiting ==
  /\ w.pc = "drop"
  /\ meili' = IF meili[SearchIndex].exists THEN Enqueued(SearchIndex, "drop", {}, FALSE)
              ELSE meili
  /\ Goto("release")
  /\ UNCHANGED <<store, latest, queue, sent, lost, faults, World>>

AwaitClear == AwaitRemoval("clearing", "drop")
DeleteIndex == Remove("drop", "drop", "dropping", "release")
AwaitDrop == AwaitRemoval("dropping", "release")

\* Removing the last finalizer of a deleted object removes the object.  The update is
\* validated as every other one is.
ReleasePolicy ==
  /\ w.pc = "release"
  /\ IF Accepted
     THEN /\ store' = [store EXCEPT ![w.p] = Absent]
          /\ latest' = latest \ {w.p}
          /\ Return(FALSE)
     ELSE UNCHANGED <<store, latest>> /\ Return(TRUE)
  /\ UNCHANGED <<meili, sent, lost, faults, World>>

\* The manager stops anywhere and starts again, perhaps as a new build.  The new
\* leader's informer lists every policy.
Restart ==
  /\ restarts < scope.restarts
  /\ restarts' = restarts + 1
  /\ seed' \in {seed, seed + 1}
  /\ w' = Idle
  /\ meili' = Disowned(meili)
  /\ stray' = IF w.pc = "creating" THEN stray \cup {SearchIndex} ELSE stray
  /\ cache' = store
  /\ latest' = Policy
  /\ queue' = {p \in Policy : store[p] # Absent}
  /\ UNCHANGED <<store, admitted, sent, lost, scope, faults, edits, late>>

Reconcile ==
  \/ \E p \in Policy : Skip(p) \/ AddFinalizer(p) \/ Start(p) \/ StartFinalizer(p)
  \/ CheckIndex \/ CheckCreationTask \/ CreateIndex \/ AwaitCreation
  \/ SearchableAttributes \/ FilterableAttributes \/ UpdateStatus
  \/ \E t \in {r[1] : r \in Resources} : PublishTenant(t)
  \/ FinishReindex
  \/ MarkTerminating \/ DeleteAllDocuments \/ AwaitClear
  \/ DeleteIndex \/ AwaitDrop \/ ReleasePolicy

Next ==
  \/ \E p \in scope.names, spec \in scope.specs, st \in scope.statuses : Admit(p, spec, st)
  \/ \E a \in admitted : Persist(a)
  \/ \E p \in Policy : Delete(p)
  \/ Sync \/ Resync
  \/ \E i \in Index, ok \in BOOLEAN : Process(i, ok)
  \/ \E i \in Index : LateWrite(i)
  \/ Restart
  \/ Reconcile

Spec == Init /\ [][Next]_vars

\* The worker runs, the watch delivers and Meilisearch works through its tasks.
Fairness ==
  /\ WF_vars(Reconcile)
  /\ WF_vars(Sync)
  /\ \A i \in Index : WF_vars(\E ok \in BOOLEAN : Process(i, ok))
  /\ WF_vars(\E a \in admitted : Persist(a))

FairSpec == Spec /\ Fairness

-----------------------------------------------------------------------------
(* Properties.                                                             *)

Statuses == [index : {<<>>} \cup Index, hash : {NoHash} \cup Hashes,
             ready : {"unknown", "yes", "no", "terminating"},
             valid : {"unknown", "ok", "bad"},
             idx : {"unknown", "created", "pending", "failed"},
             srch : {"unknown", "synced", "updating", "failed"},
             filt : {"unknown", "synced", "updating", "failed"},
             reidx : {"unknown", "complete", "inProgress", "published", "reindexingFailed"}]

ASSUME ScopeAssumption ==
  \A s \in Scopes : s.names \subseteq Policy /\ s.statuses \subseteq Statuses

Objects == [spec : Specs, fin : BOOLEAN, del : BOOLEAN, st : Statuses, given : {NoHash} \cup Hashes]

\* Stored, cached and held policies are objects or absent, a deleted object that is
\* still stored has its finalizer, and the worker's copy is missing only when idle.
TypeOK ==
  /\ \A p \in Policy : store[p] \in Objects \cup {Absent} /\ cache[p] \in Objects \cup {Absent}
  /\ \A p \in Policy : store[p] # Absent /\ store[p].del => store[p].fin
  /\ w.pc = "idle" <=> w.snap = Absent
  /\ w.snap \in Objects \cup {Absent} /\ w.p \in Policy \cup {Absent}
  /\ latest \subseteq Policy /\ queue \subseteq Policy
  /\ \A i \in Index : Cardinality({n \in DOMAIN meili[i].tasks : meili[i].tasks[n].mine}) <= 1
  /\ seed \in 0..restarts

\* Status.CurrentGeneration is the hash of a spec whose resources were all listed,
\* under that very spec, and published or given up on one by one: neither a stale
\* cache, an edit while publishing, a failed List nor a restart stores a hash early.
\* The exception is the hash a policy was created with: it is kept as if it had been
\* earned (PrepareForCreate strips nothing).
HashMeansPublished ==
  \A p \in Policy : store[p] # Absent /\ store[p].st.hash \notin {NoHash, store[p].given} =>
     \A r \in Resources : \E m \in sent \cup lost :
        m.policy = p /\ m.hash = store[p].st.hash /\ m.res = r

\* The comment on CurrentGeneration: it names the spec the controller has
\* "successfully reconciled and triggered re-indexing for".
HashMeansSent ==
  \A p \in Policy : store[p] # Absent /\ store[p].st.hash # NoHash =>
     \A r \in Resources : \E m \in sent :
        m.policy = p /\ m.hash = store[p].st.hash /\ m.res = r

\* A status write that reports Ready reports it of a spec whose hash is stored with it.
ReadyOnlyIfReindexed ==
  [][\A p \in Policy :
       store[p] # Absent /\ store'[p] # Absent /\ store'[p].st # store[p].st
       /\ store'[p].st.ready = "yes" => store'[p].st.hash = <<store'[p].spec, seed>>]_vars

\* No task that empties or drops an index is under way once the index exists and a policy
\* that is not being deleted has been reconciled to it: a finalizer lets go of its policy
\* only after its own tasks are over, or when the index is gone and they can do nothing any
\* more, also if a wait was given up on or the manager restarted in between; and a second
\* run of it on a stale copy ends before the successor is seen.  The exception is such a
\* second run that finds an index which somebody else has brought back (stray), and is
\* itself cut short.
LiveIndexKept ==
  \A p \in Policy :
     LET i == store[p].st.index
     IN store[p] # Absent /\ ~store[p].del /\ i # <<>> =>
          \/ ~meili[i].exists
          \/ i \in stray /\ faults + restarts > 0
          \/ \A n \in DOMAIN meili[i].tasks : meili[i].tasks[n].type \notin {"clear", "drop"}

\* A settings task waits for the one before it, searchable and filterable attributes
\* alike; only a check for pending tasks that failed lets another one through.
OneSettingsTask ==
  \A i \in Index :
     Cardinality({n \in DOMAIN meili[i].tasks : meili[i].tasks[n].type \in {"srch", "filt"}})
       <= 1 + faults

\* Once every policy is gone and Meilisearch has caught up, no index is left: what the
\* finalizer waits for was really done.  The exceptions are the indexes it cannot know of:
\* one the indexer still wrote to, one whose creation failed, was given up on or was cut
\* short by a restart and is carried out later, and one that a policy was edited away from.
GoneMeansNoIndex ==
  (\A p \in Policy : store[p] = Absent) =>
     \A i \in Index \ stray : meili[i].tasks = <<>> => ~meili[i].exists

Settled(p) ==
  \/ store[p] = Absent
  \/ LET ix == meili[GetSearchIndex(store[p].spec.target)]
     IN /\ store[p].st.ready = "yes" /\ store[p].st.hash = ComputeSpecHash(store[p].spec)
        /\ ix.exists /\ ix.srch = Range(DesiredAttributes(store[p].spec))
        /\ BaseFilterable \subseteq ix.filt

\* Two searchable paths that differ in "*" segments only.
Repeats(spec) == ~IsInjective(DesiredAttributes(spec))

\* When users stop editing and calls stop failing, every policy is soon and for good
\* either gone or Ready for its current spec and seed with its index configured, by
\* requeues alone, after edits and after restarts at any point.  There are two exceptions.
\* An attribute update that failed is recorded as a condition, and not retried before the
\* policy is next looked at.  A spec that names an attribute twice is never found equal to
\* what Meilisearch holds, and its policy requeues for ever.
Converges ==
  <>[](\A p \in Policy : \/ Settled(p) \/ Repeats(store[p].spec)
                         \/ store[p].st.srch = "failed" \/ store[p].st.filt = "failed")
=============================================================================
