# Verification of milo-os/search

TLA+ specifications of the search service in this repository: the path from
the audit log to the search index, the indexer process and its heartbeats, the
re-indexing of a policy, the policy API and its controller, multi-tenancy, the
Meilisearch client, the search endpoint and the command line client. TLC checks
them on small instances. TLAPS proves, for every size, the batching core, the
chunked writes, the delivery pipeline with its refinement of an abstract
contract, the heartbeats of the indexer process, the mirror of the resources the
audit consumer keeps, the agreement of the audit and the re-index path on an index,
what the policy controller's status claims, what admission guards, and what becomes
of a tenant's documents.

Every definition is taken from the Go source, and `PROJECT.json` maps it to its
lines. JetStream, Meilisearch, the Kubernetes API server and its informers are
not in the repository; they are modelled as the code relies on them and marked
external in the map.

## The system

| Part | Source | Modules |
|---|---|---|
| Batcher: buffer, batches, enqueue turn, slots, ack/nak | `internal/indexer/batcher.go` | `Batcher`, `BatcherProofs` |
| Delivery from JetStream to Meilisearch | `batcher.go`, `consumer.go`, `cmd/search/indexer/command.go` | `Pipeline`, `IndexContract`, `PipelineProofs` |
| Indexer command: options, start-up, heartbeats, the end | `cmd/search/indexer/command.go`, `batcher.go` | `IndexerProcess`, `IndexerProofs` |
| Audit consumer | `internal/indexer/consumer.go`, `helper.go` | `Consumer`, `Evaluation`, `ConsumerProofs` |
| Policy evaluation, transformation, policy cache | `internal/policy/evaluation/evaluator.go`, `internal/indexer/policy_cache.go` | `Evaluation`, used by `Consumer`, `Reindex` and `PolicyAPI` |
| Re-index consumer and publisher | `internal/indexer/reindex_consumer.go`, `reindex_publisher.go` | `Reindex`, `ReindexProofs` |
| Policy controller and finalizer | `internal/controllers/policy/policy_controller.go` | `PolicyController`, `PolicyControllerProofs` |
| Policy API: strategies, validation, CEL and path checks, names | `internal/registry/policy/`, `internal/policy/validation/`, `internal/cel/`, `internal/jsonpath/`, `internal/utils/search.go` | `PolicyAPI`, `CelValidator`, `PolicyNames`, `IndexNames`, `PolicyAPIProofs` |
| Tenant registry, project watcher | `internal/tenant/` | `Tenants`, `TenantsProofs` |
| Meilisearch client | `pkg/meilisearch/sdk_client.go` | `MeiliClient`, `IndexerProofs`; its index calls in `PolicyController`, `MultiSearch` in `SearchQuery` |
| Search endpoint | `internal/registry/resourcesearchquery/` | `SearchQuery` |
| Command line client | `cmd/milo-search/` | `SearchCLI`, `KindNames` |

How they interact. A user writes a `ResourceIndexPolicy`; the *policy
controller* (in the manager) creates the policy's index and its settings, lists
the matching resources of every *tenant* and publishes one re-index message for
each. The *re-index consumer* and the *audit consumer* (in the indexer) turn
messages into operations on documents, each through a *batcher* of its own, and
the batchers write to Meilisearch through the *client*. Both consumers and the
manager look policies up in caches that lag behind the API server. The *project
watcher* removes the documents of a project that goes. The *search endpoint*
reads the indexes, and the *command line client* pages through its answers.

The modules cut the system where the interesting interleavings are:

- `Batcher` is one process's concurrency; `Pipeline` puts it between the stream
  and Meilisearch by conjoining each of its actions with the action's effect
  outside. `IndexContract` is what the two promise together, and `Pipeline`
  implements it. `IndexerProcess` is the same path seen in time: one message, one
  flush (the call of `MeiliClient`), a discrete clock, and the life of the process
  around them.
- `Evaluation` holds the pure functions both consumers share. `Consumer` is the
  audit handler against every history of requests; `Reindex` is the audit path,
  the re-index path and the controller racing for one index, with the handler
  reduced to the one policy there is.
- `PolicyController` has the controller's steps in full and no documents;
  `Reindex` and `Tenants` have its three steps that matter to documents.
- `PolicyAPI` has admission: two writes that overlap, each validated on a list and
  committed later. `PolicyController` starts from what was admitted.
- `SearchQuery` is the server of a search, with its cache, secret and clock;
  `SearchCLI` composes it with the commands of one user.

## Modules and how they correspond to the code

**Batcher.** Every goroutine of the code is a place in the state: `launcher[l]`
is the batch a goroutine that called `Submit`, or the ticker, is blocked on in
`launchFlush`; `phase[n]` is where the flush of batch `n` is; `grp[n][g]` is
where its call for one index and kind is. `b.mu` makes `Submit` and `takeBatch`
atomic. `turn.prev`/`turn.done` become the order of batch numbers. A batch is
abandoned only when the context is done, and closes its turn without having
waited, as in the code. Documents are named by the message they came from.

**Pipeline.** `stream` is the consumer's view of each message, `wire` holds the
requests on their way, `tasks` Meilisearch's queue per index. A request may be
lost, or land after its caller gave up; a call may fail although its task was
queued; a task may fail; an ack or nak may be lost; `ackWait` may expire for
every message no running flush heartbeats; the process may crash anywhere, or
be shut down, and restart with empty state while its requests are still on the
wire. `trouble` counts these and is bounded by `MaxTrouble`; `Troubles` says which
kinds of them an instance has.

**Consumer, Evaluation.** A resource has a kind, a state the conditions read, a
scope, a life (live, terminating, removed) and the version it was last written
through. Requests are the API server's: create, update, patch, delete with and
without finalizers, deletecollection, reads and refused requests, each with the
audit event it produces; `Ops` is the whole handler and `Handle` applies what
it submits. The tenancy mode is chosen in `Init`.

**Reindex.** One policy with a generation, its spec (a set of conditions),
readiness and stored hash; two caches of it; the audit stream (in order) and the
re-index stream (in any order, since refused messages come back); one buffer per
batcher; the index. A message whose hash is not the cached one is refused and
stays. A publication that fails is logged and passed over. `ConfirmReady` is the
reconcile that finds the stored hash equal to the spec's.

**PolicyController.** `w` is the worker: its place in `Reconcile` or `Finalize`
and its locals. Each step makes one call. The API server's copy, the informer's
copy and the worker's copy of a policy may all differ; optimistic locking is the
question whether the worker's copy is the latest one. Meilisearch's tasks are
queued per index and finish later; a call waits for its own, and may give up. A
failed call may have reached Meilisearch. A policy may be created with a status, of
an exported manifest for example, which is stored (`given` remembers its hash).
`stray` holds the indexes that came about behind the finalizer's back. The index of
a target is a parameter, `GetSearchIndex`; `IndexNames` and `PolicyAPI` have what it
is. One of `Scopes` is chosen in `Init`: what users write, what may fail and how
often.

**Tenants.** The informer tells its handler of projects one notification at a
time; the purge of a project goes index by index; the controller takes the
list of tenants, then each client, then each listing, under separate locks. A
publication that fails is passed over, a kind the RESTMapper does not know skips the
tenant, and a listing that fails leaves the pages before it published. One of
`Starts` is chosen in `Init`: the policies and projects there are, and what may
happen.

**MeiliClient.** One call: chunks, each with its retries, then one wait for all
tasks with a shared deadline. A failed request may have been queued, and a poll may
fail before the deadline.

**IndexerProcess.** `phase` is the step of the start-up the process is at, or
"serving"; every step may fail, and a process that is down starts again with its
flags and empty caches. `live` is the `ackWait` each consumer really has, which an
operator may change; `checked` is what start-up read and `checkAckWait` accepted.
`age` is the time since JetStream last heard of the message, `beat` the time to
the next heartbeat. Time does not pass a heartbeat that is due; JetStream may give up on
a message at any time after its `ackWait`. The flush is the client's call, step by
step, under the same clock; a message that was naked or redelivered is flushed again,
by a new call. A consumer that fails to start ends the process; one that runs only
ends with it, since `Start` waits for the context.

**PolicyAPI.** A write is two steps: it is validated against a list of the other
policies, which may fail to be read, and committed if its copy is still the stored
one. The controller's writes (finalizer, status, its removal) go the same way,
since status updates are validated too. `CelValidator` walks syntax trees as
`checkExpr` does; `PolicyNames` has both parsers of field paths, the validator's
regular expression and `ParsePath`, over sequences of characters. Each is checked
against a definition that does not follow the code: `SpineAllowed` says which
places of a tree are allowed, `Named` which field a path names.

**SearchQuery, SearchCLI.** `Create` is `REST.Create` as an operator: pagination,
classification of the targets, tenant scope, the federated search and the token.
The server's cache of policies lags behind the API and is empty after a restart;
the secret may change with a restart. A command of `SearchCLI` checks its flags,
connects, resolves its kinds against the listed policies, fetches one page or all,
and exits with a code; the next command is the one the footer printed, or a
script's with the token of `-o json` and another limit. The footer quotes the query
for Go (`%q`) and starts with the bare `datumctl search`: `Pasted` says what a shell
and cobra read back of a plain text, of one with `$`, backquotes or escapes in it, and
of a subcommand's name. `KindNames` has the
references of kinds and the edit distance, checked against a definition by
alignments of the two names.

## Runs

`tlc -config X.cfg M` for each line; every run passes except the three marked
*violation*, each of which shows a disagreement between the code and a sentence
of the repository (see Findings).

| Run | Question it answers | Distinct states |
|---|---|---|
| `pipeline` (`Pipeline.cfg`) | With one thing going wrong anywhere, does a message stay in one batch, do enqueue calls keep their order, is a message acked only when tasks with its effects or newer ones have finished, and is it acked in the end? Is the invariant of the proofs kept? Does `Pipeline` implement `IndexContract`? Undisturbed, does the index never go back, and end at the newest event? | 165 thousand |
| `pipeline_redelivery` | *violation*: is redelivery harmless, when one `ackWait` expires and nothing else goes wrong? | |
| `indexer` (`Indexer.cfg`) | Through start-ups that fail at any step, changed `ackWait`s, lost heartbeats, retries and deadlines: is a message kept while it is flushed, does success mean that every item was written, and does a flush end although Meilisearch may run nothing? | 513 thousand |
| `consumer` (`Consumer.cfg`) | After any sequence of requests, do the indexes mirror the resources? Does a document leave only for a reason the policy gives? | 917 thousand |
| `reindex` (`Reindex.cfg`) | When edits, lagging caches, refused messages, a failed publication and changes of the resource are all worked off, is the index what the newest spec wants of the resources that were not raced, and does it get there? | 1.2 million |
| `reindex_revert` | *violation*: does the index reflect the policy after every edit? | |
| `policy` (`Policy.cfg`) | Is a hash stored, and Ready reported, only for the spec whose resources were listed and published? | 2.2 million |
| `policy_live` (`PolicyLive.cfg`) | With a failing call, a wait given up on, a restart, a late write, an edit to another target: does a finalizer spare the successor's index, do settings tasks wait for each other, is every index but a stray one gone with its policies, and does every policy converge by requeues alone? | 667 thousand |
| `policy_publish` | *violation*: does the stored hash mean that every resource was sent? | |
| `policy_api` (`PolicyAPI.cfg`) | With writes that overlap between validation and commit and lists that fail: does an index have one policy, is there a way round the validation, does a stored condition or path mean to the indexer what it says, and does a deletion complete? | 59 thousand |
| `tenants` (`Tenants.cfg`) | Does the index end with the resources of the tenants that exist, and none of those that are gone? Do purges and re-indexing settle? | 227 thousand |
| `cli` (`Cli.cfg`) | Paging by `--all`, by the printed command or by a script, while policies change, the server restarts, tokens expire and calls fail: is every document seen once, is a printed command accepted, is the search finite, is every kind that is not searched reported? Do printed kinds resolve, and is the nearest kind suggested? | 1.4 million |

Each property is stated with a comment above it in its module. Definitions
called slips or faulty variants stand before the definition they vary; they are
bugs the code could plausibly have, each known to break a property.

### Bounds, and why they are enough

- *Pipeline*: two messages about one document in two indexes, so a message fans
  out, is superseded and splits over two task groups; a batch size of 2, so that a
  batch forms by size and by time; a handler and the ticker, and two flushes at
  once; up to three batches, so that both messages can be flushed, fail and be
  flushed again; one fault. With two faults the third batch would be used up by
  them, and `EventuallyAcked` would fail for the bound alone. The theorems remove
  these bounds from the safety properties.
- *IndexerProcess*: a chunk of two items and a shorter one, each sent at most twice,
  and a wait of one tick; an `ackWait` of six with intervals of two and three, live
  values that the check refuses, accepts without a spare heartbeat and accepts with
  one; one lost heartbeat or change of the live `ackWait`, two ticks in the buffer,
  two flushes of the message. The theorems remove these bounds.
- *Consumer*: two resources, two policies of the core group, to which the error
  answers of the API server belong too (one with three alternative
  conditions, one of which fails on some content and one does not compile; one
  without conditions), two versions, four requests: create, update, mark, remove
  is the longest life. The theorems remove these bounds.
- *Reindex*: one resource, since resources share nothing but the policy; three
  specs in time (one creation and two edits), which an edit and its reversal
  need; one write, one failed publication. The theorems remove these bounds from `SettledConsistent`.
- *PolicyController*: `policy` has one policy with two specs and two tenants, a
  failure and a restart, or an exported status and a failure. `policy_live` has six
  scopes: two policies of one target, one after the other, with a failure of any call
  but a wait, with a wait given up on and a restart, or with a late write; one policy
  edited across a restart; one that names an attribute twice; one that moves to
  another target. Two or three user writes each. One write is in admission at a time;
  `PolicyAPI` has the overlaps. The theorems remove these bounds from the properties
  of `policy` and from `OneSettingsTask`.
- *PolicyAPI*: two policies and two targets whose groups differ in a dot and a
  dash. One author is plain; the other writes one of many drafts: every spine of a
  tree to the depth limit and one beyond, every path of up to four characters
  behind `.a` over an alphabet with every special character, bracketed keys with a
  tail, empty, uncompilable and repeated conditions. Plain drafts are written up to
  three times, so that writes race; the others once. The theorems remove these
  bounds from `IndexOwned` and `IndexesSatisfyingSome`.
- *Tenants*: two policies, so that the purge of one index can fail and the other must
  still be purged, and two project names, so that the watcher is busy with one project
  when another goes; names that are used twice; up to two writes, one edit, one failure
  or restart, dealt out over five initial situations (`MCStarts`). The theorems remove
  these bounds from the two invariants.
- *SearchCLI*: seven ranked documents, one of which cannot be decoded, and three
  kinds, two of one name and one of the core group; limits up to one above the
  server's maximum make pages that are short, exactly full and empty; four
  commands, one change of the policies, one restart, one tick, which is a token's
  life, one failed call; queries that survive the pasting and that do not; names in
  other cases, misspelt, empty and far away.

Deadlock is not checked where the system may stop: all messages acked, all edits
made, a command exited.

### Fairness

Weak fairness only, and only of what goes on by itself: goroutines are scheduled,
the ticker fires, calls return because the HTTP client and the waits have
deadlines, JetStream redelivers what is due, Meilisearch works off its queue,
informers deliver, controller-runtime requeues, a validated write is committed or
refused. `IndexerProcess` assumes nothing of Meilisearch or JetStream: `Settles`
rests on the clock and the flush's own steps. Failures, user writes, crashes and restarts are never fair; their
bounds make them stop. The informer's resync in `PolicyController` is possible and
not fair, so `Converges` does not rest on it.

### Exceptions stated in the properties

Some interleavings lead to a wrong index, and the code has no answer to them.
Rather than forbid them, the models let them happen and record where they did,
so that a property claims the rest without exception:

- `raced` (`Reindex`): a resource written while its policy was being re-indexed,
  unsettled by an edit (`Upset`), or whose message was not published. It is back in
  the claim as soon as it is written when all is calm. Two things that go wrong in this
  code are excepted here and not caught: an event acked while its policy is not ready,
  and a listed copy written over a newer event.
- `missed`, `excused` (`Tenants`): the purges that failed, skipped a policy that
  was not ready, came before the project's last message, fell to a restart or never
  came because the informer saw no project go; the resources that appeared behind a
  listing, in a project the registry did not yet have, or under a name whose purge
  came after them, and what the last pass lost without an error (a failed publication,
  an unknown kind).
- `trouble = 0` in `ConvergedUndisturbed` and `NeverOlder`: redelivery may undo
  the order, as `pipeline_redelivery` shows.
- resources removed by a collection request, and writes through another version,
  in `Mirror`.
- `given` (`PolicyController`): the hash a policy was created with, in
  `HashMeansPublished`. `stray`: an index the indexer still wrote to, whose creation
  was given up on or failed and is carried out later, or that a policy was edited away
  from, in `GoneMeansNoIndex`; and in `LiveIndexKept` the second run of a finalizer on a
  stale copy that finds such an index and is cut short by a failure or a restart.
- an attribute update that failed, and a spec that names an attribute twice, in
  `Converges`; failed checks for pending tasks, in `OneSettingsTask`.
- `held >= options.progress`, a changed live `ackWait`, or too many lost
  heartbeats in a row, in `HeartbeatKeeps`: a message is first heartbeated one
  interval after its flush starts, and not at all while it waits in the buffer.
- `raced` (`PolicyAPI`): a write committed on a list that had changed or could not
  be read; and groups that differ only in dots and dashes, in `IndexOwned`. A
  duplicate target blocks the removal of the finalizer, in `DeletionCompletes`.
- quoted keys with `]` in them, or that are `*`, in `AttributesNamed`; policies
  whose conditions are all empty, in `IndexesSatisfyingSome`.
- `disturbed` (`SearchCLI`): policies that changed since the first command, in
  `AnsweredUndisturbed` and, for commands with `--kind`, in `FooterAccepted`; a footer's
  command that runs in another scope than the first one; a footer's query that does not
  survive the pasting (`Pasted`), in `FooterAccepted`; and `dropped`, the kinds that a
  later page of `--all` denies and nobody is told of, in `NoSilentGap`.

## What is proved

The theorems are about the modules as TLC checks them, for every set of messages,
documents, indexes, policies, tenants and resources, and every size, limit, number
of attempts, faults and restarts. They assume only what the modules assume of
their constants, which TLC evaluates in the runs of those modules:

- `SizesAssumption` and `SetsAssumption`: limits are positive, sets finite or
  disjoint where the code makes them so; `PipelineAssumption`: an event does not
  both upsert and delete one document.
- `ClientBounds`, `ProcessBounds`, `ConsumerBounds`,
  `ReindexBounds`, `TenantBounds`, `WritesAreNat`, `DepthIsNat`: limits are numbers.
  `HeartbeatFactors`: `heartbeatHardFloor` is at least 2 and `heartbeatMargin` at
  least 3, as in the code.
- `PoliciesReady` (`Consumer`): a ready policy has an index of its own and, if it
  has conditions, one that compiles. This is what `IndexOwned` and
  `IndexesSatisfyingSome` say of admitted policies; the policies they except are
  left out here too. A condition holds nowhere it fails or does not compile.
  `KindsPlain`: no kind of a resource or of a policy's target is called `Status`, `List`
  or by a name that stands for no kind; the group may be the core group. `NoDocPlain`: the absence of a document is not a document.
- `SpecsCompile` (`Reindex`): every spec the policy can have is such a one: if it has
  conditions, one compiles, and none holds where it fails or does not compile.
  `AbsentPlain`: what a cache does not have is not a policy.
- `PlatformIsNoProject` (`Tenants`). `ScopeAssumption` (`PolicyController`): users write
  policies that exist in the model, with statuses of the right type.
- `TargetsAreNames` (`PolicyAPI`): groups, versions and kinds have no underscore, and
  versions and kinds no dot, as Kubernetes names them. Admission does not check it.
  `DraftsAreLists`: conditions and fields are lists, and expressions hold in states.

**Batcher.** `IndInv` is inductive; `pipeline` checks it too. Its conjuncts, and
what needs each:

- `TypeOK`. Every other step uses it.
- `PendingUpsertsExact` is about the counter `Submit` flushes on;
  `BufferBounded` is about the buffer, and follows only while the counter is
  exact.
- `SeqsTracked` (`msgSeqs` names only messages that are in `msgs`) is what makes
  `NoSplit` inductive: `trackMessage` drops a message it has seen, and the
  operations of that message still need it in the batch.
- `Launching` (a batch waits in `launchFlush` exactly while one launcher is
  blocked on it) gives the second half of `InFlightBound`: beyond the flushes in
  progress there is at most one batch per launcher.
- `AbandonedAtShutdown` and `EnqueueOrder` go together. A turn is closed out of
  order only by an abandoned batch, and only shutdown abandons one, so before
  shutdown every enqueue call follows those of all earlier batches
  (`OrderBeforeShutdown`).
- `GroupsMatchPhase` (the calls of a batch exist, have returned and have
  succeeded as its phase says) carries `AckedAfterSuccess`, and the step from
  `EnqueueOrder`, which is about turns, to `OrderBeforeShutdown`, which is about
  calls.
- `SlotsExact` (each semaphore counts the goroutines that hold it) gives
  `UploadBound` and `InFlightBound`.

Each theorem is Init ⇒ IndInv, one step per action for the preservation, and
then the property from the invariant.

**MeiliClient** (`IndexerProofs`). `ClientInvariance` has the inductive invariant `IInv`:
`TypeOK`, `SentCovered` (the items before the chunk being sent are in tasks the
caller knows), `WaitedSucceeded` (the tasks already waited for succeeded),
`Phases` (waiting starts when all is sent, success is reported when all is
waited for) and `QueueOrdered` (nothing queued is ahead of the chunk being sent).
`OkAlwaysApplied` concludes that a call that succeeded wrote every item;
`ChunksAlwaysInOrder` that the first copies of the chunks are queued in order
whatever is retried.

**Pipeline** (`PipelineProofs`). `PipeInv` adds to `IndInv`:

- `BatchesTrue`: every operation in the buffer or in a batch is the effect of a
  message (`OpsTrue`), and every document a settled message affects has an
  operation, its own or a newer one (`OpsFull`). `NoSplit` alone is too weak: it
  says where operations come from, not that none is missing.
- `RequestsTrue`: what is on the wire or queued carries true operations, and if it
  is of the running process it is the request of a batch that process took.
  Requests of earlier processes are only bounded by their run number; that is what
  a crash needs, since they may still land and finish.
- `SucceededApplied`: a task that finished covered its batch's messages on the
  documents it wrote. `OkSucceeded`: a group is "ok" only if its task finished.

`AckedAfterSuccess` of the batcher then gives `AckedAlwaysCovered`: an acked batch
has an ok group for every operation, so a finished task, so every effect of its
messages is covered. `PipelineRefines` maps `Finish` to the contract's `Apply`,
`Conclude` to its `Ack`, and every other step, crashes and lost requests included,
to a stutter.

**MeiliClient and the process** (`IndexerProofs`). `ProcessInv` stands on the
client's `IInv` (every step of the process is a step of the client or leaves it
alone, or ends the call: `HangUpStep`), so `OkAppliedInProcess` has `OkMeansApplied` also
inside the process. Its heart is `AgeBounded`: during a flush, the time since JetStream last
heard of a message plus the time to the next heartbeat is at most the time it was
buffered plus one interval, or two after a lost heartbeat. `CheckedAudit` carries
the start-up's check of the live `ackWait` to the flush. From both, `HeartbeatsKeep`
shows that a message is redelivered during its flush only for one of the three
reasons the property names.

**PolicyController** (`PolicyControllerProofs`). `PolicyInv` says that a copy that
counts as the latest one has the stored spec (`CopiesCurrent`: optimistic
locking), that the hash in every copy of a policy, stored, cached or held by the
worker, was published for or came with the policy (`HashesSent`), and that while the worker publishes, the
tenants it is done with were sent under the spec it holds (`Progress`).
`HashAlwaysPublished` follows, since the hash is written only by the worker whose
copy is current and whose tenants are all done without an error.
`ReadyAlwaysReindexed` looks at each status write with the same facts.

`AlwaysOneSettingsTask` rests on an invariant of Meilisearch's side, `SettingsInv`:
an index that has settings tasks queued is known to have some (`settings` is
"pending"), so a check that works sees them. The count alone is not inductive: a
check that finds nothing pending must mean that the queue has none.

**Consumer** (`ConsumerProofs`). `MirrorInv` is about one policy and one resource at
a time (`Converging`): its document is what the policy wants and no event in the
stream touches it, or the last event that does (`Decides`) will make it so
(`Result`). A request appends an event, which then decides; handling the first
event either was the decision or leaves the later one in place. The lemmas on the
handler (`HandleMeans` and those before it) say what the operations of one event do
to one document, for every verb, answer and UID the event can have. `AlwaysMirrors`
is the empty stream; `NeverLeavesOtherwise` follows from what an event that removes
a document looks like.

**Reindex** (`ReindexProofs`). Two paths write one document, so the invariant says
which of them decides. `ReindexInv` claims of every resource that was not raced:

- `AuditDecides`: if the audit stream or its batcher has something about the
  resource, all else is calm (the policy is ready and published, both caches have
  it, no re-index message would be accepted and the re-index batcher is empty), and
  the last event, or else the last operation, makes the document right. A write in
  a calm moment starts this; any other write races.
- `ReindexDecides`: otherwise the document is right once the re-index batcher is
  flushed and that consumer's cache has the newest spec, or a message of the newest
  spec is sent (`Sent`) or listed (`Listed`), or a pass is to come (`Awaited`: the
  stored hash is not the spec's, and the controller is idle, has not listed yet or
  works on an older generation).
- `StaleRefused` and `ListedFresh`: a message with an old copy of the resource is
  refused under the cached spec and would be under the newest one, and the
  controller is not about to publish such a copy. Without them an old message could
  overwrite what the others promise. `Upset` excepts just the edits that would make
  an old message acceptable again.

An operation in a batcher is never reordered with one behind it, so what a batcher
will leave of a document is its last operation on it (`EndsIn`). In a settled state
nothing is pending, awaited, listed or sent, which leaves `SettledConsistent`.

**Tenants** (`TenantsProofs`). `TenantsInv` has two halves. `OrphansDoomed`: a
document without its resource has its purge still to come (`Coming`: the informer
has not looked, the notification waits, or the watcher is at work), or its purge was
missed. `Accounted`: a resource is indexed, excused or the subject of a message
under way (`Handled`), or a pass still owes it (`Owed`): the policy has no hash, and
the pass in progress has not done with its tenant, or has failed and will be made
again. When all is settled nothing is coming and nothing is owed, which leaves
`Complete` and `NoOrphans`.

**PolicyAPI** (`PolicyAPIProofs`). `AdmissionInv` says that each write under way was
validated on the list it holds (`IsWrite`), that what is stored has been validated,
and that the stored targets differ unless `raced`. A commit on a list that is still
true adds a target the list does not have. `AlwaysValidated` is the second part.
`IndexAlwaysOwned` also needs that an index name gives away its version and kind:
`IndexSpells` says which character is where, and `IndexNamesTarget` finds the two
separators in it, in the only places they can be. `AlwaysIndexesSatisfying` follows
the conditions of a validated policy through the policy cache.

Only model-checked:

- every liveness property, which rests on fairness and `ENABLED`;
- what the recursive definitions compute, for which the provers lack induction:
  `StoredIsValid` compares the descent of `CheckExpr` with a tree's spine and
  `AttributesNamed` two parsers on all paths (that the checks were made on what is
  stored is proved, `AlwaysValidated`), `SuggestsNearest` the edit distance;
- `LiveIndexKept` and `GoneMeansNoIndex`, in the scopes of `policy_live`;
- convergence of the pipeline (`ConvergedUndisturbed`, `NeverOlder`), and the
  properties of `SearchCLI`.

## Findings

Three runs end in a counterexample:

- `pipeline_redelivery` (`Converged`): `ackWait` expires for a message in the prefetch
  buffer of a process that runs on, JetStream delivers it again behind a newer event of the resource, and the older
  state is written last. The comment at `cmd/search/indexer/command.go:224` says
  that redelivery "costs throughput rather than correctness".
- `reindex_revert` (`ReflectsPolicy`): a policy is edited and edited back while
  the messages of the edit are being published. The stored hash still names the
  old spec, so nothing is re-indexed, the policy is Ready, and what the edit added
  or removed stays that way (`resource-indexer.md:269`).
- `policy_publish` (`HashMeansSent`): a message that could not be published is
  logged and passed over, and the hash is stored all the same
  (`policy_controller.go:620` promises the first error).

Disagreements met on the way that have no run of their own; the models follow
the code:

| Code | Says otherwise | What the code does |
|---|---|---|
| `batcher.go:397` | `batcher.go:126` | a batch abandoned at shutdown closes its turn without waiting for the one before |
| `consumer.go:203` | `consumer.go:200`, `resource-indexer.md:210` | an update through another served version removes the document |
| `consumer.go:88` | `resource-indexer.md:201` | `deletecollection` is not handled |
| `consumer.go:65` | `multi-tenant-search.md:276` | the global scope becomes the tenant type `Global` |
| `cel/validator.go:74` | `policy_types.go:34` | an empty expression is accepted; it does not compile, and a policy with no other condition matches everything (`PolicyEmpty.cfg` reproduces it: `IndexesSatisfying`) |
| `policy_cache.go:119` | `resource-indexer.md:37` | changes that arrive while a policy is not ready are acked and lost |
| `cmd/search/indexer/command.go:411` | `resource-indexer.md:333` | audit and re-index messages go through two batchers that do not order each other |
| `reindex_consumer.go:110` | `reindex_consumer.go:88` | a superseded message is refused again and again until it expires, and is accepted after a revert, even for a resource since deleted |
| `reindex_publisher.go:68` | `resource-indexer.md:273` | messages carry no ID, so the stream removes no duplicates |
| `policy_controller.go:509` | `cmd/search/manager/command.go:265` | Ready is True although an attribute update failed |
| `policy_controller.go:284` | | two searchable paths that name one attribute are never found equal to the index's settings, and the policy requeues for ever |
| `resourceindexpolicy/strategy.go:70` | `policy_types.go:132` | a status that comes with a new policy is kept; with the hash of its spec the policy is reported Ready and is never re-indexed |
| `policy_controller.go:737` | | the index of a target that a policy was edited away from is never removed, nor is one whose creation is carried out after its wait was given up on and the policy is gone |
| `policy_controller.go:640` | `policy_controller.go:620` | a kind the RESTMapper does not know is skipped without an error, and the hash is stored |
| `registry/policy/strategy.go:97` | `registry/policy/storage.go:30` | two concurrent creations may share a target |
| `project_watcher.go:48` | `multi-tenant-search.md:310` | engaging a project only logs |
| `project_watcher.go:64` | `multi-tenant-search.md:318` | the purge skips policies that are being re-indexed |
| `project_watcher.go:69` | `project_watcher.go:53` | messages that arrive after the purge put documents back |
| `multi_tenant_registry.go:130` | `project_watcher.go:30` | a project that goes while the manager is down is never purged |
| `project_watcher.go:62` | | the purge goes by name and reaches the documents of a later project of that name |
| `rest.go:213` | `rest.go:214`, `cli.md:73` | a token made with the default limit is accepted with another limit |
| `cmd/milo-search/query.go:319` | `docs/cli.md:65` | the printed next-page command leaves out `--project`, `--org`, `--kubeconfig` and `--strict`, so it may ask in another scope (`CliFooter.cfg` reproduces it: `FooterContinues`) |
| `cmd/milo-search/query.go:320` | `query.go:305`, `docs/cli.md:65` | the printed command quotes the query for Go, not for a shell, and in the bare form: a query with `$`, a backquote or an escape comes back changed and its token is refused, one that is a subcommand's name runs the subcommand, one that starts with a dash is read as a flag |
| `cmd/milo-search/query.go:176` | `docs/cli.md:57`, `query.go:351` | with `--all`, kinds that stop being ready after the first page are neither searched further nor reported, and `--strict` exits with 0 |
| `cmd/milo-search/helpers.go:219` | `helpers.go:218` | the suggested kind is within a third of the name plus one edit, not within a third |
| `internal/indexer/consumer.go:228` | | `Start` waits for the context, so a subscription that ends by itself leaves the process running without it |
| `cmd/milo-search/query.go:259` | `query.go:255` | a kind asked for twice is counted twice |
| `cmd/milo-search/kinds.go:54` | `kinds.go:52` | the printed reference is ambiguous for two versions of a kind, and for a core kind whose name another group has |
| `internal/policy/validation/validator.go:31` | `policy_controller.go:159` | the status of a policy that came to duplicate another cannot be updated, so the controller cannot report it, nor remove its finalizer |
| `internal/policy/evaluation/evaluator.go:162` | `jsonpath/validator.go` | a quoted key with `]` in it, or that is `*`, passes validation and names another field |
| `utils/search.go:14` | | groups that differ only in dots and dashes share an index |
| `cmd/search/indexer/command.go:319` | | the caches' handlers may lag behind the sync that start-up waits for; an event evaluated before is acked unindexed |
| `cmd/search/indexer/command.go:183` | `command.go:213` | the flush interval has no upper bound, and a buffered message is not heartbeated |

## What is not modelled

- Two replicas of the indexer sharing a consumer. One process at a time has what a
  crashed one left on the wire beside it, and no more.
- Time outside `IndexerProcess`: elsewhere `ackWait`, backoff and timeouts are
  events that may happen wherever the code lets them. `IndexerProcess` has
  no prefetch buffer: a delivered message is handled at once.
- Parsing and compiling of CEL, which are cel-go's: a tree is given with whether it
  compiles, its type and the states it holds in. Characters other than one letter,
  one digit, one quote and the special ones.
- Copying of nested field values into a document (`Transform`'s data): a document is
  the state and the tenant.
- Relevance ranking and text search, which are Meilisearch's. `SearchQuery` takes
  the ranked list as given and unchanged between pages.
- A query that starts with a dash, in the printed next-page command: which flag it is
  read as decides what happens.
- Table layout and wording of the command line client, its plugin manifest,
  metrics and version: output that nothing reads back.
- Wiring of the generic API server, flags and TLS of the manager, leader election,
  construction of clients and their HTTP transport: library behaviour.
- Generated clients, deep copies, OpenAPI and API types: declarations.
- Authentication and authorization, which are the API server's; the signature of a
  continue token is opaque.
