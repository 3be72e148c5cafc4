------------------------------- MODULE Tenants ------------------------------
(***************************************************************************)
(* Multi-tenancy in the manager: the registry of project control planes    *)
(* (tenant/multi_tenant_registry.go), the watcher that purges a project's  *)
(* documents when it goes (tenant/project_watcher.go), the re-indexing of  *)
(* a policy tenant by tenant (controllers/policy), and, of the indexer,    *)
(* the messages on their way to the indexes.                               *)
(*                                                                         *)
(* A resource or a document is [policy, tenant, life]: each policy has one *)
(* resource to match in each life of a tenant, and an index of its own.    *)
(* Project names are DNS labels, so the watcher never refuses one for a    *)
(* quote in it, and a policy that is ready always has an index name.       *)
(*                                                                         *)
(* Several races leave a document behind or a resource out.  Two history   *)
(* variables record exactly where one of them struck, so that the rest can *)
(* be claimed without exception: missed holds the purges that failed, came *)
(* too early or never came; excused holds the resources that a pass did    *)
(* not reach or not publish, or that a purge of their project's            *)
(* predecessor took along.                                                 *)
(***************************************************************************)
EXTENDS Integers, Sequences, FiniteSets, Functions

CONSTANTS Policies, Projects, Platform, MaxLives,
          Starts  \* the policies that are indexed and the projects that are engaged
                  \* at the start, and what may happen from there: see left

ASSUME TenantBounds ==
  /\ MaxLives \in Nat \ {0}
  /\ Starts \subseteq [indexed : SUBSET Policies, engaged : SUBSET Projects,
                      left : [projects : Nat, writes : Nat, edits : Nat, faults : Nat]]
ASSUME PlatformIsNoProject == Platform \notin Projects

VARIABLES live,      \* the tenants that exist
          life,      \* the number of projects each name has named
          res,       \* the resources
          store,     \* the projects the informer has told its handler of
          events,    \* the notifications the handler has not seen, in order
          clients,   \* projectClients
          watcher,   \* the disengagement in progress: [name, todo]
          ready,     \* the policies that are ready
          hash,      \* the policies whose status holds the hash of their spec
          ctl,       \* the controller: [pc, policy, names, todo, failed]
          inflight,  \* the audit events and re-index messages to be indexed
          docs,      \* the documents
          missed,    \* <<policy, project>>: the index may keep documents of it
          excused,   \* the resources that may be missing from the index
          left       \* what may still happen: [projects, writes, edits, faults]; a fault is
                     \* a call that fails (of a listing, a publication, a purge or
                     \* the RESTMapper) or a restart

registry == <<store, events, clients, watcher>>
vars == <<live, life, res, store, events, clients, watcher, ready, hash, ctl,
          inflight, docs, missed, excused, left>>

Tenants == Projects \cup {Platform}
Item == [policy : Policies, tenant : Tenants, life : 0 .. MaxLives]
IdleCtl == [pc |-> "idle", policy |-> {}, names |-> {}, todo |-> {}, failed |-> FALSE]
IdleWatcher == [name |-> Platform, todo |-> {}]

Init ==
  \E start \in Starts :
    /\ live = start.engaged \cup {Platform}
    /\ life = [t \in Tenants |-> IF t \in start.engaged THEN 1 ELSE 0]
    /\ res = [policy : start.indexed, tenant : start.engaged, life : {1}] /\ docs = res
    /\ store = start.engaged /\ clients = start.engaged /\ events = <<>> /\ watcher = IdleWatcher
    /\ ready = start.indexed /\ hash = start.indexed /\ ctl = IdleCtl
    /\ inflight = {} /\ missed = {} /\ excused = {}
    /\ left = start.left

-----------------------------------------------------------------------------
(* The registry and the project watcher.  The informer calls its handler   *)
(* with one notification at a time.                                        *)

\* The informer sees that a project came or went.  A project that went and came back
\* between two looks (a relist) is an update, which has no handler.
Notice(t) ==
  /\ \/ t \in live \ store /\ store' = store \cup {t} /\ events' = Append(events, <<"add", t>>)
     \/ t \in store \ live /\ store' = store \ {t} /\ events' = Append(events, <<"delete", t>>)
  /\ UNCHANGED <<live, life, res, clients, watcher, ready, hash, ctl, inflight, docs, missed, excused, left>>

\* AddFunc: the client is stored; OnTenantEngaged only logs.
AddProject ==
  /\ watcher.todo = {} /\ events # <<>> /\ Head(events)[1] = "add"
  /\ clients' = clients \cup {Head(events)[2]}
  /\ events' = Tail(events)
  /\ UNCHANGED <<live, life, res, store, watcher, ready, hash, ctl, inflight, docs, missed, excused, left>>

\* DeleteFunc: the client is dropped, then OnTenantDisengaged takes the policies of a cache
\* that holds ready ones only.
RemoveProject ==
  /\ watcher.todo = {} /\ events # <<>> /\ Head(events)[1] = "delete"
  /\ clients' = clients \ {Head(events)[2]}
  /\ watcher' = [name |-> Head(events)[2], todo |-> ready]
  /\ missed' = missed \cup ((Policies \ ready) \X {Head(events)[2]})
  /\ events' = Tail(events)
  /\ UNCHANGED <<live, life, res, store, ready, hash, ctl, inflight, docs, excused, left>>

\* Faulty variant: the filter matches no document.
PurgeNothing(p) ==
  /\ p \in watcher.todo
  /\ watcher' = [watcher EXCEPT !.todo = @ \ {p}]
  /\ missed' = missed \ {<<p, watcher.name>>}
  /\ UNCHANGED <<live, life, res, store, events, clients, ready, hash, ctl, inflight, docs, excused, left>>

\* DeleteDocumentsByFilter on one index, by the name of the project.
Purge(p) ==
  /\ p \in watcher.todo
  /\ docs' = {d \in docs : ~(d.policy = p /\ d.tenant = watcher.name)}
  /\ watcher' = [watcher EXCEPT !.todo = @ \ {p}]
  /\ missed' = missed \ {<<p, watcher.name>>}
  /\ excused' = excused \cup (res \cap (docs \ docs'))
  /\ UNCHANGED <<live, life, res, store, events, clients, ready, hash, ctl, inflight, left>>

\* Faulty variant: an error ends the loop.
PurgeFailsStopping(p) ==
  /\ p \in watcher.todo /\ left.faults > 0
  /\ watcher' = [watcher EXCEPT !.todo = {}]
  /\ missed' = missed \cup {<<p, watcher.name>>}
  /\ left' = [left EXCEPT !.faults = @ - 1]
  /\ UNCHANGED <<live, life, res, store, events, clients, ready, hash, ctl, inflight, docs, excused>>

\* It fails: the error is logged and the next index is purged.
PurgeFails(p) ==
  /\ p \in watcher.todo /\ left.faults > 0
  /\ watcher' = [watcher EXCEPT !.todo = @ \ {p}]
  /\ missed' = missed \cup {<<p, watcher.name>>}
  /\ left' = [left EXCEPT !.faults = @ - 1]
  /\ UNCHANGED <<live, life, res, store, events, clients, ready, hash, ctl, inflight, docs, excused>>

-----------------------------------------------------------------------------
(* The controller re-indexes a policy, tenant by tenant. *)

\* The first status update.
StartReindex(p) ==
  /\ ctl.pc = "idle" /\ p \notin hash
  /\ ready' = ready \ {p}
  /\ ctl' = [IdleCtl EXCEPT !.pc = "list", !.policy = {p}]
  /\ UNCHANGED <<live, life, res, registry, hash, inflight, docs, missed, excused, left>>

\* What the pass of the controller could have listed of the tenants T.
Listed(T) == {r \in res : r.policy \in ctl.policy /\ r.tenant \in T}

\* ListTenants, under the registry's lock ...
ListTenants ==
  /\ ctl.pc = "list"
  /\ ctl' = [ctl EXCEPT !.pc = "clients", !.names = clients \cup {Platform}]
  /\ excused' = excused \cup Listed(Projects \ clients)
  /\ UNCHANGED <<live, life, res, registry, ready, hash, inflight, docs, missed, left>>

\* ... and GetTenantClient of each, under it again: a tenant that went is skipped.
GetTenantClient(t) ==
  /\ ctl.pc = "clients" /\ t \in ctl.names
  /\ ctl' = [ctl EXCEPT !.names = @ \ {t},
                        !.todo = IF t \in clients \cup {Platform} THEN @ \cup {t} ELSE @,
                        !.pc = IF ctl.names = {t} THEN "publish" ELSE @]
  /\ excused' = IF t \in clients \cup {Platform} THEN excused ELSE excused \cup Listed({t})
  /\ UNCHANGED <<live, life, res, registry, ready, hash, inflight, docs, missed, left>>

ReindexMessages(R) == {[kind |-> "reindex", item |-> r] : r \in R}

\* publishReindexMessagesForTenant: the pages are listed and a message is published for each
\* resource.  A publication that fails is logged, and the pass goes on as if it had not.
PublishTenant(t) ==
  /\ ctl.pc = "publish" /\ t \in ctl.todo /\ t \in live
  /\ ctl' = [ctl EXCEPT !.todo = @ \ {t}]
  /\ \E unsent \in SUBSET Listed({t}) :
       /\ Cardinality(unsent) <= left.faults
       /\ left' = [left EXCEPT !.faults = @ - Cardinality(unsent)]
       /\ inflight' = inflight \cup ReindexMessages(Listed({t}) \ unsent)
       /\ excused' = (excused \ Listed({t})) \cup unsent
  /\ UNCHANGED <<live, life, res, registry, ready, hash, docs, missed>>

\* The manager's RESTMapper does not know the kind: the tenant is skipped without an error.
SkipTenant(t) ==
  /\ ctl.pc = "publish" /\ t \in ctl.todo /\ left.faults > 0
  /\ ctl' = [ctl EXCEPT !.todo = @ \ {t}]
  /\ excused' = excused \cup Listed({t})
  /\ left' = [left EXCEPT !.faults = @ - 1]
  /\ UNCHANGED <<live, life, res, registry, ready, hash, inflight, docs, missed>>

\* A listing fails, always when the control plane is gone, after the pages before it were
\* published; the other tenants are published.
PublishTenantFails(t) ==
  /\ ctl.pc = "publish" /\ t \in ctl.todo
  /\ \/ t \notin live /\ UNCHANGED left
     \/ t \in live /\ left.faults > 0 /\ left' = [left EXCEPT !.faults = @ - 1]
  /\ ctl' = [ctl EXCEPT !.todo = @ \ {t}, !.failed = TRUE]
  /\ \E sent \in SUBSET Listed({t}) : inflight' = inflight \cup ReindexMessages(sent)
  /\ UNCHANGED <<live, life, res, registry, ready, hash, docs, missed, excused>>

\* Faulty variant: after an error the controller keeps the pass it was in.
FinishReindexStuck ==
  /\ ctl.pc = "publish" /\ ctl.todo = {}
  /\ ready' = IF ctl.failed THEN ready ELSE ready \cup ctl.policy
  /\ hash' = IF ctl.failed THEN hash ELSE hash \cup ctl.policy
  /\ ctl' = IF ctl.failed THEN [ctl EXCEPT !.pc = "failed"] ELSE IdleCtl
  /\ UNCHANGED <<live, life, res, registry, inflight, docs, missed, excused, left>>

\* Faulty variant: the error of a tenant is only logged.
FinishReindexAlways ==
  /\ ctl.pc = "publish" /\ ctl.todo = {}
  /\ ready' = ready \cup ctl.policy
  /\ hash' = hash \cup ctl.policy
  /\ ctl' = IdleCtl
  /\ UNCHANGED <<live, life, res, registry, inflight, docs, missed, excused, left>>

\* The second status update; after an error the policy is reconciled again.
FinishReindex ==
  /\ ctl.pc = "publish" /\ ctl.todo = {}
  /\ ready' = IF ctl.failed THEN ready ELSE ready \cup ctl.policy
  /\ hash' = IF ctl.failed THEN hash ELSE hash \cup ctl.policy
  /\ ctl' = IdleCtl
  /\ UNCHANGED <<live, life, res, registry, inflight, docs, missed, excused, left>>

\* A purge of index p for project t is still to come.
Coming(p, t) ==
  \/ t \in store \ live
  \/ <<"delete", t>> \in Range(events)
  \/ watcher.name = t /\ p \in watcher.todo

\* The manager starts again with an empty registry, before its informer has listed
\* anything; projects may have gone while it was down.
Restart ==
  /\ left.faults > 0
  /\ \E gone \in SUBSET (live \ {Platform}) :
       /\ live' = live \ gone
       /\ res' = {r \in res : r.tenant \notin gone}
       /\ missed' = missed \cup
            {x \in Policies \X Projects : x[2] \in gone \/ Coming(x[1], x[2])}
  /\ store' = {} /\ events' = <<>> /\ clients' = {} /\ watcher' = IdleWatcher /\ ctl' = IdleCtl
  /\ left' = [left EXCEPT !.faults = @ - 1]
  /\ UNCHANGED <<life, ready, hash, inflight, docs, excused>>

-----------------------------------------------------------------------------
(* The indexer: an audit event needs a ready policy (Reindex, Consumer). *)

\* The pass in progress has done with the tenant of item r.
Passed(r) ==
  /\ r.policy \in ctl.policy /\ ctl.pc \in {"clients", "publish"}
  /\ r.tenant \notin ctl.names \cup ctl.todo

Index(m) ==
  LET r == m.item
  IN /\ m \in inflight
     /\ inflight' = inflight \ {m}
     /\ \/ /\ m.kind = "reindex" \/ r.policy \in ready
           /\ docs' = docs \cup {r}
           /\ missed' = IF r \in res \/ Coming(r.policy, r.tenant) THEN missed
                        ELSE missed \cup {<<r.policy, r.tenant>>}
           /\ UNCHANGED excused
        \/ /\ m.kind = "audit" /\ r.policy \notin ready
           /\ excused' = IF Passed(r) THEN excused \cup {r} ELSE excused
           /\ UNCHANGED <<docs, missed>>
     /\ UNCHANGED <<live, life, res, registry, ready, hash, ctl, left>>

-----------------------------------------------------------------------------
(* The platform. *)

Quiet == store = live \ {Platform} /\ events = <<>> /\ watcher.todo = {}

\* A name that is taken again before the informer looked is an update to it.
CreateProject(t) ==
  /\ t \notin live /\ life[t] < MaxLives /\ left.projects > 0
  /\ live' = live \cup {t}
  /\ life' = [life EXCEPT ![t] = @ + 1]
  /\ missed' = IF t \in store THEN missed \cup (Policies \X {t}) ELSE missed
  /\ left' = [left EXCEPT !.projects = @ - 1]
  /\ UNCHANGED <<res, registry, ready, hash, ctl, inflight, docs, excused>>

\* A control plane goes with its resources; no audit event tells of them.  If it came and
\* went between two looks of the informer, nobody is told of it.
DeleteProject(t) ==
  /\ t \in live
  /\ live' = live \ {t}
  /\ res' = {r \in res : r.tenant # t}
  /\ missed' = IF t \in store THEN missed ELSE missed \cup (Policies \X {t})
  /\ UNCHANGED <<life, registry, ready, hash, ctl, inflight, docs, excused, left>>

\* A resource is created, with an audit event.
CreateResource(p, t) ==
  /\ t \in live /\ left.writes > 0
  /\ LET r == [policy |-> p, tenant |-> t, life |-> life[t]]
     IN /\ r \notin res
        /\ res' = res \cup {r}
        /\ inflight' = inflight \cup {[kind |-> "audit", item |-> r]}
  /\ left' = [left EXCEPT !.writes = @ - 1]
  /\ UNCHANGED <<live, life, registry, ready, hash, ctl, docs, missed, excused>>

EditPolicy(p) ==
  /\ p \in hash /\ left.edits > 0
  /\ hash' = hash \ {p}
  /\ left' = [left EXCEPT !.edits = @ - 1]
  /\ UNCHANGED <<live, life, res, registry, ready, ctl, inflight, docs, missed, excused>>

Next ==
  \/ AddProject \/ RemoveProject \/ ListTenants \/ FinishReindex \/ Restart
  \/ \E t \in Projects : Notice(t) \/ CreateProject(t) \/ DeleteProject(t)
  \/ \E t \in Tenants : GetTenantClient(t) \/ PublishTenant(t) \/ SkipTenant(t) \/ PublishTenantFails(t)
  \/ \E p \in Policies : Purge(p) \/ PurgeFails(p) \/ StartReindex(p) \/ EditPolicy(p)
  \/ \E p \in Policies, t \in Tenants : CreateResource(p, t)
  \/ \E m \in inflight : Index(m)

Spec == Init /\ [][Next]_vars

\* The informer, its handler, the controller's retries and the indexer keep going.
Fairness ==
  /\ \A t \in Projects : WF_vars(Notice(t))
  /\ WF_vars(AddProject) /\ WF_vars(RemoveProject)
  /\ \A p \in Policies : WF_vars(Purge(p) \/ PurgeFails(p)) /\ WF_vars(StartReindex(p))
  /\ WF_vars(ListTenants) /\ WF_vars(FinishReindex)
  /\ \A t \in Tenants : WF_vars(GetTenantClient(t))
                        /\ WF_vars(PublishTenant(t) \/ SkipTenant(t) \/ PublishTenantFails(t))
  /\ WF_vars(\E m \in inflight : Index(m))

FairSpec == Spec /\ Fairness

-----------------------------------------------------------------------------
(* Properties. *)

Settled == Quiet /\ ctl.pc = "idle" /\ hash = Policies /\ inflight = {}

\* The type of every variable.
TypeOK ==
  /\ live \subseteq Tenants /\ life \in [Tenants -> 0 .. MaxLives]
  /\ res \subseteq Item /\ docs \subseteq Item
  /\ store \subseteq Projects /\ clients \subseteq Projects
  /\ \A n \in DOMAIN events : events[n] \in {"add", "delete"} \X Projects
  /\ watcher.name \in Tenants /\ watcher.todo \subseteq Policies
  /\ ready \subseteq Policies /\ hash \subseteq Policies
  /\ ctl.pc \in {"idle", "list", "clients", "publish"}
  /\ ctl.names \subseteq Tenants /\ ctl.todo \subseteq Tenants
  /\ \A m \in inflight : m.kind \in {"audit", "reindex"} /\ m.item \in Item

\* When everything is done, every resource that a policy indexes is in its index, whatever
\* listings failed, restarts and edits came on the way (publishReindexMessages and its
\* retry).  Excused are resources that appeared behind a listing, in a project not yet in
\* the registry, or under a name whose purge came after them, and what the last pass lost
\* without an error: a publication that failed, a kind the RESTMapper does not know.
Complete == Settled => res \subseteq docs \cup excused

\* When everything is done, an index holds no document of a project that is gone, except
\* where its purge failed, skipped a policy that was not ready, came before the last
\* message, fell to a restart, or never came because the informer saw no project go
\* (OnTenantDisengaged is best effort per index).
NoOrphans == Settled => \A d \in docs \ res : <<d.policy, d.tenant>> \in missed

\* A project that goes is purged from every index or its purge is missed there, one index
\* failing or not, even if the watcher is busy with another project (removeProject waits
\* for the callback, which goes on after an error).
EventuallyPurged ==
  \A t \in Projects :
    t \notin live ~> (t \in live \/ \A d \in docs : d.tenant = t => <<d.policy, t>> \in missed)

\* Once nothing fails any more, every resource is indexed or excused, as in Complete: a
\* tenant that cannot be listed is tried again, or leaves the registry
\* (publishReindexMessages).
EventuallyComplete == <>[](res \subseteq docs \cup excused)

=============================================================================
