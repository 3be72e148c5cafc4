--------------------------- MODULE TenantsProofs ---------------------------
(***************************************************************************)
(* Once everything is done the indexes hold every resource, and no         *)
(* document of a project that is gone, but for the exceptions that missed  *)
(* and excused record: for any number of policies and projects, lives,     *)
(* writes, edits, faults and restarts.                                     *)
(***************************************************************************)
EXTENDS Tenants, SequenceTheorems, TLAPS

Notices == {"add", "delete"} \X Projects
Messages == [kind : {"audit", "reindex"}, item : Item]
Passes == [pc : {"idle", "list", "clients", "publish"}, policy : SUBSET Policies,
           names : SUBSET Tenants, todo : SUBSET Tenants, failed : BOOLEAN]

\* The type of the state.  A policy with the hash of its spec is ready, the watcher
\* purges projects only, and a pass that publishes has looked up every tenant.
Typed ==
  /\ live \subseteq Tenants /\ life \in [Tenants -> 0 .. MaxLives]
  /\ res \subseteq Item /\ docs \subseteq Item
  /\ store \subseteq Projects /\ clients \subseteq Projects /\ events \in Seq(Notices)
  /\ watcher \in [name : Tenants, todo : SUBSET Policies]
  /\ watcher.todo # {} => watcher.name \in Projects
  /\ ready \subseteq Policies /\ hash \subseteq ready
  /\ ctl \in Passes /\ (ctl.pc = "publish" => ctl.names = {})
  /\ inflight \subseteq Messages

\* A document without a resource is one whose purge is still to come, or was missed.
Doomed(d) == <<d.policy, d.tenant>> \in missed \/ Coming(d.policy, d.tenant)

OrphansDoomed == \A d \in docs \ res : Doomed(d)

\* Resource r is indexed or excused, or a message about it is under way.
Handled(r) ==
  \/ r \in docs \cup excused
  \/ \E kind \in {"audit", "reindex"} : [kind |-> kind, item |-> r] \in inflight

\* A pass of the controller is still to reach it: the one in progress has not, or has
\* failed and will be repeated.
Owed(r) == r.policy \notin hash /\ (~Passed(r) \/ ctl.failed)

Accounted == \A r \in res : Handled(r) \/ Owed(r)

TenantsInv == Typed /\ OrphansDoomed /\ Accounted

-----------------------------------------------------------------------------

\* The invariant holds in the initial state.
LEMMA InitTenantsInv == Init => TenantsInv
<1> SUFFICES ASSUME Init PROVE TenantsInv
  OBVIOUS
<1>1. PICK start \in Starts :
        /\ live = start.engaged \cup {Platform}
        /\ life = [t \in Tenants |-> IF t \in start.engaged THEN 1 ELSE 0]
        /\ res = [policy : start.indexed, tenant : start.engaged, life : {1}] /\ docs = res
        /\ store = start.engaged /\ clients = start.engaged
        /\ ready = start.indexed /\ hash = start.indexed
  BY Zenon DEF Init
<1>2. start.indexed \subseteq Policies /\ start.engaged \subseteq Projects /\ 1 \in 0 .. MaxLives
  BY TenantBounds
<1>3. events = <<>> /\ watcher = IdleWatcher /\ ctl = IdleCtl /\ inflight = {}
  BY Zenon DEF Init
<1>4. res \subseteq Item
  BY <1>1, <1>2 DEF Item, Tenants
<1>5. life \in [Tenants -> 0 .. MaxLives]
  BY <1>1, TenantBounds
<1>6. Typed
  BY <1>1, <1>2, <1>3, <1>4, <1>5 DEF Typed, Tenants, IdleCtl, IdleWatcher, Passes, Notices, Messages
<1>7. OrphansDoomed /\ Accounted
  BY <1>1 DEF OrphansDoomed, Accounted, Handled
<1> QED
  BY <1>6, <1>7 DEF TenantsInv

\* The notifications left once the first one is taken, and what was the first.
LEMMA NextNotice ==
  ASSUME Typed, events # <<>>, NEW e, e = Head(events), events' = Tail(events)
  PROVE  /\ e \in Notices /\ events' \in Seq(Notices)
         /\ \A x \in Range(events) : x = e \/ x \in Range(events')
<1>1. /\ events \in Seq(Notices) /\ Head(events) \in Notices /\ Tail(events) \in Seq(Notices)
      /\ Len(Tail(events)) = Len(events) - 1 /\ Len(events) \in Nat
      /\ \A i \in 1 .. Len(Tail(events)) : Tail(events)[i] = events[i + 1]
  BY HeadTailProperties DEF Typed
<1>2. ASSUME NEW i \in 1 .. Len(events)
      PROVE  events[i] = e \/ events[i] \in Range(events')
  <2>1. CASE i = 1
    BY <1>1, <2>1
  <2>2. CASE i # 1
    <3>1. i - 1 \in 1 .. Len(events') /\ events'[i - 1] = events[i]
      BY <1>1, <2>2
    <3>2. DOMAIN events' = 1 .. Len(events')
      BY <1>1
    <3> QED
      BY <3>1, <3>2, Zenon DEF Range
  <2> QED
    BY <2>1, <2>2
<1> QED
  BY <1>1, <1>2 DEF Range

\* A step that leaves the documents and resources alone, and every purge still to come or missed.
LEMMA DoomKept ==
  ASSUME OrphansDoomed, docs' \ res' \subseteq docs \ res,
         \A d \in docs' \ res' : Doomed(d) => Doomed(d)'
  PROVE  OrphansDoomed'
BY DEF OrphansDoomed

\* A step that keeps what is known of every resource that stays.
LEMMA AccountKept ==
  ASSUME Accounted, \A r \in res' : r \in res /\ (Handled(r) \/ Owed(r) => Handled(r)' \/ Owed(r)')
  PROVE  Accounted'
BY DEF Accounted

\* The informer and the registry.
LEMMA NoticeStep ==
  ASSUME TenantsInv, NEW t \in Projects, Notice(t)
  PROVE  TenantsInv'
<1> USE DEF TenantsInv
<1>1. PICK e \in Notices : events' = Append(events, e) /\ (t \in store \ live => e = <<"delete", t>>)
                           /\ store' \subseteq store \cup {t} /\ store \subseteq store' \cup {t}
                           /\ (t \in store' => t \in live)
  BY Zenon DEF Notice, Notices
<1>2. events \in Seq(Notices)
  BY DEF Typed
<1>3. events' \in Seq(Notices) /\ Range(events) \subseteq Range(events') /\ e \in Range(events')
  BY <1>1, <1>2, AppendProperties DEF Range
<1>4. Typed'
  BY <1>1, <1>3 DEF Notice, Typed
<1>5. OrphansDoomed'
  BY <1>1, <1>3, DoomKept, Zenon DEF Notice, Doomed, Coming
<1>6. Accounted'
  BY AccountKept DEF Notice, Handled, Owed, Passed
<1> QED
  BY <1>4, <1>5, <1>6

\* The registry learns of a project, or forgets it and hands its name to the watcher.
LEMMA RegistryStep ==
  ASSUME TenantsInv, AddProject \/ RemoveProject
  PROVE  TenantsInv'
<1> USE DEF TenantsInv
<1>1. PICK e : e = Head(events)
  OBVIOUS
<1>2. /\ e \in Notices /\ events' \in Seq(Notices)
      /\ \A x \in Range(events) : x = e \/ x \in Range(events')
  BY <1>1, NextNotice DEF AddProject, RemoveProject
<1>3. Accounted'
  BY AccountKept DEF AddProject, RemoveProject, Handled, Owed, Passed
<1>4. CASE AddProject
  <2>1. Typed'
    BY <1>1, <1>2, <1>4, Zenon DEF AddProject, Typed, Notices
  <2>2. \A p \in Policies, t \in Tenants : Coming(p, t) => Coming(p, t)'
    BY <1>1, <1>2, <1>4 DEF AddProject, Coming
  <2>3. OrphansDoomed'
    BY <1>4, <2>2, DoomKept DEF AddProject, Doomed, Typed, Item
  <2> QED
    BY <1>3, <2>1, <2>3
<1>5. CASE RemoveProject
  <2>1. PICK t \in Projects : e = <<"delete", t>>
    BY <1>1, <1>2, <1>5 DEF RemoveProject, Notices
  <2>2. /\ watcher.todo = {} /\ watcher' = [name |-> t, todo |-> ready] /\ clients' = clients \ {t}
        /\ missed' = missed \cup ((Policies \ ready) \X {t})
        /\ UNCHANGED <<live, life, res, store, ready, hash, ctl, inflight, docs, excused>>
    BY <1>1, <1>5, <2>1 DEF RemoveProject
  <2>3. Typed'
    BY <1>2, <2>2 DEF Typed, Tenants
  <2>4. ASSUME NEW p \in Policies, NEW x \in Tenants, Coming(p, x)
        PROVE  Coming(p, x)' \/ <<p, x>> \in missed'
    BY <1>2, <2>1, <2>2, <2>4 DEF Coming
  <2>5. OrphansDoomed'
    BY <2>2, <2>4, DoomKept DEF Doomed, Typed, Item
  <2> QED
    BY <1>3, <2>3, <2>5
<1> QED
  BY <1>4, <1>5

\* A purge of one index removes the doomed documents of the name there, or misses them.
LEMMA PurgeStep ==
  ASSUME TenantsInv, NEW p \in Policies, Purge(p) \/ PurgeFails(p)
  PROVE  TenantsInv'
<1> USE DEF TenantsInv
<1>1. /\ p \in watcher.todo /\ watcher \in [name : Tenants, todo : SUBSET Policies]
      /\ watcher' = [watcher EXCEPT !.todo = @ \ {p}]
      /\ UNCHANGED <<live, life, res, store, events, clients, ready, hash, ctl, inflight>>
  BY DEF Purge, PurgeFails, registry, Typed
<1>2. watcher'.name = watcher.name /\ watcher'.todo = watcher.todo \ {p}
      /\ watcher' \in [name : Tenants, todo : SUBSET Policies]
  BY <1>1
<1>3. docs' \subseteq docs /\ res \cap docs \subseteq docs' \cup excused' /\ excused \subseteq excused'
  BY DEF Purge, PurgeFails
<1>4. Typed'
  BY <1>1, <1>2, <1>3 DEF Typed
<1>5. Accounted'
  BY <1>1, <1>3, AccountKept DEF Handled, Owed, Passed
<1>6. ASSUME NEW d \in docs' \ res', Doomed(d)
      PROVE  Doomed(d)'
  <2>1. CASE Purge(p)
    BY <1>1, <1>2, <1>6, <2>1 DEF Purge, Doomed, Coming
  <2>2. CASE PurgeFails(p)
    BY <1>1, <1>2, <1>6, <2>2 DEF PurgeFails, Doomed, Coming
  <2> QED
    BY <2>1, <2>2
<1>7. OrphansDoomed'
  BY <1>1, <1>3, <1>6, DoomKept
<1> QED
  BY <1>4, <1>5, <1>7

\* The controller's pass.  None of its steps touches a document or a purge.
LEMMA PassStep ==
  ASSUME TenantsInv, UNCHANGED <<live, life, res, registry, docs, missed>>,
         ctl' \in Passes, ctl'.pc = "publish" => ctl'.names = {},
         ready' \subseteq Policies, hash' \subseteq ready', inflight' \subseteq Messages,
         \A r \in res : Handled(r) \/ Owed(r) => Handled(r)' \/ Owed(r)'
  PROVE  TenantsInv'
<1> USE DEF TenantsInv, registry
<1>1. Typed'
  BY DEF Typed
<1>2. OrphansDoomed'
  BY DoomKept DEF Doomed, Coming
<1>3. Accounted'
  BY AccountKept
<1> QED
  BY <1>1, <1>2, <1>3

\* A pass that starts has listed nothing yet.
LEMMA StartStep ==
  ASSUME TenantsInv, NEW p \in Policies, StartReindex(p)
  PROVE  TenantsInv'
<1> USE DEF TenantsInv
<1>1. ctl' = [pc |-> "list", policy |-> {p}, names |-> {}, todo |-> {}, failed |-> FALSE]
  BY Zenon DEF StartReindex, IdleCtl
<1>2. ctl' \in Passes
  BY <1>1 DEF Passes
<1>3. ready' \subseteq Policies /\ hash' \subseteq ready' /\ inflight' \subseteq Messages
  BY DEF StartReindex, Typed
<1>4. \A r \in res : Handled(r) \/ Owed(r) => Handled(r)' \/ Owed(r)'
  BY <1>1 DEF StartReindex, Handled, Owed, Passed
<1> QED
  BY <1>1, <1>2, <1>3, <1>4, PassStep DEF StartReindex

\* What the list of tenants leaves out is excused, and the rest is owed by the pass.
LEMMA ListTenantsStep ==
  ASSUME TenantsInv, ListTenants
  PROVE  TenantsInv'
<1> USE DEF TenantsInv
<1>1. ctl \in Passes
  BY DEF Typed
<1>2. /\ ctl' = [ctl EXCEPT !.pc = "clients", !.names = clients \cup {Platform}]
      /\ ctl.pc = "list" /\ clients \subseteq Projects
  BY DEF ListTenants, Typed
<1>3. /\ ctl' \in Passes /\ ctl'.pc = "clients" /\ ctl'.names = clients \cup {Platform}
      /\ ctl'.todo = ctl.todo /\ ctl'.policy = ctl.policy /\ ctl'.failed = ctl.failed
  BY <1>1, <1>2, Zenon DEF Passes, Tenants
<1>4. ready' \subseteq Policies /\ hash' \subseteq ready' /\ inflight' \subseteq Messages
  BY DEF ListTenants, Typed
<1>5. ASSUME NEW r \in res, Handled(r) \/ Owed(r)
      PROVE  Handled(r)' \/ Owed(r)'
  <2>1. r.tenant \in Tenants
    BY DEF Typed, Item
  <2>2. CASE Handled(r)
    BY <2>2 DEF ListTenants, Handled
  <2>3. CASE Owed(r) /\ ~Passed(r)'
    BY <2>3 DEF ListTenants, Owed
  <2>4. CASE Owed(r) /\ Passed(r)'
    <3>1. r \in Listed(Projects \ clients)
      BY <1>3, <2>1, <2>4 DEF Listed, Passed, Tenants
    <3> QED
      BY <3>1 DEF ListTenants, Handled
  <2> QED
    BY <1>5, <2>2, <2>3, <2>4
<1> QED
  BY <1>3, <1>4, <1>5, PassStep DEF ListTenants

\* A tenant whose client is gone is left out of the pass, and its resources excused.
LEMMA ClientStep ==
  ASSUME TenantsInv, NEW t \in Tenants, GetTenantClient(t)
  PROVE  TenantsInv'
<1> USE DEF TenantsInv
<1>1. ctl \in Passes
  BY Zenon DEF Typed
<1>2. /\ ctl' \in Passes /\ ctl'.names = ctl.names \ {t} /\ ctl'.policy = ctl.policy
      /\ ctl'.todo = (IF t \in clients \cup {Platform} THEN ctl.todo \cup {t} ELSE ctl.todo)
      /\ ctl'.pc = (IF ctl.names = {t} THEN "publish" ELSE "clients")
      /\ ctl.pc = "clients" /\ ctl'.failed = ctl.failed
  BY <1>1, Zenon DEF GetTenantClient, Passes
<1>3. ready' \subseteq Policies /\ hash' \subseteq ready' /\ inflight' \subseteq Messages
  BY DEF GetTenantClient, Typed
<1>4. ASSUME NEW r \in res, Handled(r) \/ Owed(r)
      PROVE  Handled(r)' \/ Owed(r)'
  <2>2. CASE Handled(r)
    BY <2>2 DEF GetTenantClient, Handled
  <2>3. CASE Owed(r) /\ (Passed(r) \/ ~Passed(r)')
    BY <1>2, <2>3 DEF GetTenantClient, Owed
  <2>4. CASE ~Passed(r) /\ Passed(r)'
    <3>1. t \notin clients \cup {Platform} /\ r \in Listed({t})
      BY <1>2, <2>4 DEF Listed, Passed
    <3> QED
      BY <3>1 DEF GetTenantClient, Handled
  <2> QED
    BY <1>4, <2>2, <2>3, <2>4
<1>5. ctl'.pc = "publish" => ctl'.names = {}
  BY <1>2
<1> QED
  BY <1>2, <1>3, <1>4, <1>5, PassStep DEF GetTenantClient

\* The resources of a tenant that is listed are on their way, or their publication failed.
LEMMA PublishStep ==
  ASSUME TenantsInv, NEW t \in Tenants, PublishTenant(t)
  PROVE  TenantsInv'
<1> USE DEF TenantsInv
<1>1. ctl \in Passes /\ ctl.names = {}
  BY DEF Typed, PublishTenant
<1>2. /\ ctl' \in Passes /\ ctl'.names = {} /\ ctl'.policy = ctl.policy /\ ctl'.todo = ctl.todo \ {t}
      /\ ctl'.pc = "publish" /\ ctl.pc = "publish" /\ ctl'.failed = ctl.failed
  BY <1>1 DEF PublishTenant, Passes
<1>3. inflight' \subseteq Messages
  BY DEF PublishTenant, Typed, Listed, Messages, ReindexMessages
<1>6. PICK unsent \in SUBSET Listed({t}) :
        /\ inflight' = inflight \cup ReindexMessages(Listed({t}) \ unsent)
        /\ excused' = (excused \ Listed({t})) \cup unsent
  BY DEF PublishTenant
<1>4. ready' \subseteq Policies /\ hash' \subseteq ready'
  BY DEF PublishTenant, Typed
<1>5. ASSUME NEW r \in res, Handled(r) \/ Owed(r)
      PROVE  Handled(r)' \/ Owed(r)'
  <2>1. CASE r \in Listed({t})
    BY <1>6, <2>1 DEF ReindexMessages, Handled
  <2>2. CASE r \notin Listed({t}) /\ Handled(r)
    BY <1>6, <2>2 DEF PublishTenant, Handled
  <2>3. CASE r \notin Listed({t}) /\ Owed(r)
    BY <1>1, <1>2, <2>3 DEF PublishTenant, Owed, Passed, Listed
  <2> QED
    BY <1>5, <2>1, <2>2, <2>3
<1> QED
  BY <1>2, <1>3, <1>4, <1>5, PassStep, Zenon DEF PublishTenant

\* The resources of a tenant that is skipped without an error are excused.
LEMMA SkipStep ==
  ASSUME TenantsInv, NEW t \in Tenants, SkipTenant(t)
  PROVE  TenantsInv'
<1> USE DEF TenantsInv
<1>1. ctl \in Passes /\ ctl.names = {}
  BY DEF Typed, SkipTenant
<1>2. /\ ctl' \in Passes /\ ctl'.names = {} /\ ctl'.policy = ctl.policy /\ ctl'.todo = ctl.todo \ {t}
      /\ ctl'.pc = "publish" /\ ctl.pc = "publish" /\ ctl'.failed = ctl.failed
  BY <1>1 DEF SkipTenant, Passes
<1>3. ready' \subseteq Policies /\ hash' \subseteq ready' /\ inflight' \subseteq Messages
  BY DEF SkipTenant, Typed
<1>4. ASSUME NEW r \in res, Handled(r) \/ Owed(r)
      PROVE  Handled(r)' \/ Owed(r)'
  <2>1. CASE r \in Listed({t}) \/ Handled(r)
    BY <2>1 DEF SkipTenant, Handled
  <2>2. CASE r \notin Listed({t}) /\ Owed(r)
    BY <1>1, <1>2, <2>2 DEF SkipTenant, Owed, Passed, Listed
  <2> QED
    BY <1>4, <2>1, <2>2
<1> QED
  BY <1>2, <1>3, <1>4, PassStep, Zenon DEF SkipTenant

\* A listing that fails marks the pass, which will be made again.
LEMMA PublishFailsStep ==
  ASSUME TenantsInv, NEW t \in Tenants, PublishTenantFails(t)
  PROVE  TenantsInv'
<1> USE DEF TenantsInv
<1>1. ctl \in Passes /\ ctl.names = {}
  BY DEF Typed, PublishTenantFails
<1>2. /\ ctl' \in Passes /\ ctl'.names = {} /\ ctl'.failed = TRUE
  BY <1>1, Zenon DEF PublishTenantFails, Passes
<1>3. ready' \subseteq Policies /\ hash' \subseteq ready' /\ inflight' \subseteq Messages
  BY DEF PublishTenantFails, Typed, Listed, Messages, ReindexMessages
<1>4. \A r \in res : Handled(r) \/ Owed(r) => Handled(r)' \/ Owed(r)'
  BY <1>2 DEF PublishTenantFails, Handled, Owed
<1> QED
  BY <1>2, <1>3, <1>4, PassStep DEF PublishTenantFails

\* A pass that ends without a failure owes nothing any more; another is made again.
LEMMA FinishStep ==
  ASSUME TenantsInv, FinishReindex
  PROVE  TenantsInv'
<1> USE DEF TenantsInv
<1>1. ctl \in Passes /\ ctl.names = {} /\ ctl.todo = {} /\ ctl.pc = "publish"
  BY DEF Typed, FinishReindex
<1>2. ctl' \in Passes /\ ctl'.pc = "idle"
  BY DEF FinishReindex, IdleCtl, Passes
<1>3. ready' \subseteq Policies /\ hash' \subseteq ready' /\ inflight' \subseteq Messages
  BY <1>1 DEF FinishReindex, Typed, Passes
<1>4. ASSUME NEW r \in res, Handled(r) \/ Owed(r)
      PROVE  Handled(r)' \/ Owed(r)'
  <2>1. CASE Handled(r)
    BY <2>1 DEF FinishReindex, Handled
  <2>2. CASE Owed(r)
    <3>1. ctl.failed \/ r.policy \notin ctl.policy
      BY <1>1, <2>2 DEF Owed, Passed
    <3>2. r.policy \notin hash'
      BY <2>2, <3>1 DEF FinishReindex, Owed
    <3> QED
      BY <1>2, <3>2 DEF Owed, Passed
  <2> QED
    BY <1>4, <2>1, <2>2
<1> QED
  BY <1>2, <1>3, <1>4, PassStep DEF FinishReindex

\* The manager restarts: what was still to be purged is missed, and every pass starts over.
LEMMA RestartStep ==
  ASSUME TenantsInv, Restart
  PROVE  TenantsInv'
<1> USE DEF TenantsInv
<1>1. PICK gone \in SUBSET (live \ {Platform}) :
        /\ live' = live \ gone
        /\ res' = {r \in res : r.tenant \notin gone}
        /\ missed' = missed \cup {x \in Policies \X Projects : x[2] \in gone \/ Coming(x[1], x[2])}
  BY DEF Restart
<1>2. /\ store' = {} /\ events' = <<>> /\ watcher' = IdleWatcher /\ ctl' = IdleCtl /\ clients' = {}
      /\ UNCHANGED <<life, ready, hash, inflight, docs, excused>>
  BY DEF Restart
<1>3. gone \subseteq Projects
  BY Zenon DEF Typed, Tenants
<1>4. Typed'
  BY <1>1, <1>2 DEF Typed, IdleWatcher, IdleCtl, Passes, Tenants
<1>5. ASSUME NEW d \in docs' \ res'
      PROVE  Doomed(d)'
  <2>1. d \in docs /\ d.policy \in Policies /\ d.tenant \in Tenants
    BY <1>2, <1>5 DEF Typed, Item
  <2>2. \A p \in Policies, t \in Tenants : Coming(p, t) => t \in Projects
    BY DEF Coming, Typed, Range, Notices
  <2>3. CASE d \in res
    BY <1>1, <1>3, <1>5, <2>1, <2>3 DEF Doomed
  <2>4. CASE d \notin res
    BY <1>1, <2>1, <2>2, <2>4 DEF OrphansDoomed, Doomed
  <2> QED
    BY <2>3, <2>4
<1>6. Accounted'
  <2>1. ctl'.pc = "idle"
    BY <1>2 DEF IdleCtl
  <2> QED
    BY <1>1, <1>2, <2>1, AccountKept DEF Handled, Owed, Passed
<1> QED
  BY <1>4, <1>5, <1>6 DEF OrphansDoomed

\* The indexer.
LEMMA IndexStep ==
  ASSUME TenantsInv, NEW m \in inflight, Index(m)
  PROVE  TenantsInv'
<1> USE DEF TenantsInv, registry
<1>1. /\ m \in Messages /\ m.item \in Item /\ m.kind \in {"audit", "reindex"}
      /\ m = [kind |-> m.kind, item |-> m.item]
  BY DEF Typed, Messages
<1>2. /\ inflight' = inflight \ {m}
      /\ UNCHANGED <<live, life, res, registry, ready, hash, ctl, left>>
  BY DEF Index
<1>3. CASE /\ docs' = docs \cup {m.item} /\ excused' = excused
           /\ missed' = IF m.item \in res \/ Coming(m.item.policy, m.item.tenant) THEN missed
                        ELSE missed \cup {<<m.item.policy, m.item.tenant>>}
  <2>1. Typed'
    BY <1>1, <1>2, <1>3 DEF Typed
  <2>2. \A d : Coming(d.policy, d.tenant)' = Coming(d.policy, d.tenant)
    BY <1>2 DEF Coming
  <2>3. ASSUME NEW d \in docs' \ res'
        PROVE  Doomed(d)'
    BY <1>2, <1>3, <2>2, <2>3, Zenon DEF OrphansDoomed, Doomed
  <2>4. ASSUME NEW r \in res, Handled(r) \/ Owed(r)
        PROVE  Handled(r)' \/ Owed(r)'
    BY <1>1, <1>2, <1>3, <2>4 DEF Handled, Owed, Passed
  <2>5. Accounted'
    BY <1>2, <2>4, AccountKept
  <2> QED
    BY <2>1, <2>3, <2>5 DEF OrphansDoomed
<1>4. CASE /\ m.kind = "audit" /\ m.item.policy \notin ready /\ UNCHANGED <<docs, missed>>
           /\ excused' = IF Passed(m.item) THEN excused \cup {m.item} ELSE excused
  <2>1. Typed'
    BY <1>1, <1>2, <1>4, Zenon DEF Typed
  <2>2. OrphansDoomed'
    BY <1>2, <1>4, DoomKept DEF Doomed, Coming
  <2>3. m.item.policy \notin hash
    BY <1>4 DEF Typed
  <2>4. ASSUME NEW r \in res, Handled(r) \/ Owed(r)
        PROVE  Handled(r)' \/ Owed(r)'
    <3>1. Owed(r) => Owed(r)'
      BY <1>2 DEF Owed, Passed
    <3>2. CASE r = m.item
      BY <1>2, <1>4, <2>3, <3>2 DEF Handled, Owed, Passed
    <3>3. CASE r # m.item
      BY <1>1, <1>2, <1>4, <2>4, <3>1, <3>3 DEF Handled
    <3> QED
      BY <3>2, <3>3
  <2>5. Accounted'
    BY <1>2, <2>4, AccountKept
  <2> QED
    BY <2>1, <2>2, <2>5
<1> QED
  BY <1>3, <1>4, Zenon DEF Index

\* The platform.
LEMMA PlatformStep ==
  ASSUME TenantsInv, NEW t \in Projects, CreateProject(t) \/ DeleteProject(t)
  PROVE  TenantsInv'
<1> USE DEF TenantsInv, registry
<1>1. /\ res' \subseteq res
      /\ UNCHANGED <<registry, ready, hash, ctl, inflight, docs, excused>>
  BY ZenonT(40) DEF CreateProject, DeleteProject
<1>2. Typed'
  <2>1. live' \subseteq Tenants
    BY DEF CreateProject, DeleteProject, Typed, Tenants
  <2>2. life' \in [Tenants -> 0 .. MaxLives]
    BY TenantBounds DEF CreateProject, DeleteProject, Typed, Tenants
  <2> QED
    BY <1>1, <2>1, <2>2 DEF Typed
<1>3. Accounted'
  BY <1>1, AccountKept DEF Handled, Owed, Passed
<1>4. CASE CreateProject(t)
  <2>1. \A d \in docs : Doomed(d) => Doomed(d)'
    BY <1>1, <1>4 DEF CreateProject, Doomed, Coming, Typed, Item
  <2> QED
    BY <1>1, <1>2, <1>3, <1>4, <2>1, DoomKept, ZenonT(40) DEF CreateProject
<1>5. CASE DeleteProject(t)
  <2>1. \A d \in docs : Doomed(d) => Doomed(d)'
    BY <1>1, <1>5, Zenon DEF DeleteProject, Doomed, Coming
  <2>2. \A d \in docs : d.tenant = t => Doomed(d)'
    BY <1>1, <1>5 DEF DeleteProject, Doomed, Coming, Typed, Item
  <2>3. \A d \in docs' \ res' : Doomed(d)'
    BY <1>1, <1>5, <2>1, <2>2 DEF DeleteProject, OrphansDoomed
  <2> QED
    BY <1>2, <1>3, <2>3, Zenon DEF OrphansDoomed
<1> QED
  BY <1>4, <1>5, Zenon

\* Users.
LEMMA UserStep ==
  ASSUME TenantsInv,
         \/ \E p \in Policies, t \in Tenants : CreateResource(p, t)
         \/ \E p \in Policies : EditPolicy(p)
  PROVE  TenantsInv'
<1> USE DEF TenantsInv, registry
<1>1. ASSUME NEW p \in Policies, NEW t \in Tenants, CreateResource(p, t)
      PROVE  TenantsInv'
  <2> DEFINE n == [policy |-> p, tenant |-> t, life |-> life[t]]
  <2>1. /\ n \in Item /\ res' = res \cup {n}
        /\ inflight' = inflight \cup {[kind |-> "audit", item |-> n]}
        /\ UNCHANGED <<live, life, registry, ready, hash, ctl, docs, missed, excused>>
    BY <1>1, Zenon DEF CreateResource, Typed, Item
  <2> HIDE DEF n
  <2>2. Typed'
    BY <2>1, SMTT(30) DEF Typed, Messages
  <2>3. OrphansDoomed'
    BY <2>1, DoomKept, Zenon DEF Doomed, Coming
  <2>4. Accounted'
    BY <2>1 DEF Accounted, Handled, Owed, Passed
  <2> QED
    BY <2>2, <2>3, <2>4
<1>2. ASSUME NEW p \in Policies, EditPolicy(p)
      PROVE  TenantsInv'
  <2>1. Typed'
    BY <1>2 DEF EditPolicy, Typed
  <2>2. OrphansDoomed'
    BY <1>2, DoomKept DEF EditPolicy, Doomed, Coming
  <2>3. Accounted'
    BY <1>2, AccountKept DEF EditPolicy, Handled, Owed, Passed
  <2> QED
    BY <2>1, <2>2, <2>3
<1> QED
  BY <1>1, <1>2

-----------------------------------------------------------------------------

\* The invariant of the registry, the watcher, the passes and the messages holds throughout.
THEOREM TenantsInvariance == Spec => []TenantsInv
<1>1. TenantsInv /\ [Next]_vars => TenantsInv'
  <2> SUFFICES ASSUME TenantsInv, [Next]_vars PROVE TenantsInv'
    OBVIOUS
  <2>1. CASE UNCHANGED vars
    <3>1. Typed'
      BY <2>1, Zenon DEF vars, TenantsInv, Typed
    <3>2. OrphansDoomed'
      BY <2>1, Zenon DEF vars, TenantsInv, OrphansDoomed, Doomed, Coming
    <3>3. Accounted'
      BY <2>1, Zenon DEF vars, TenantsInv, Accounted, Handled, Owed, Passed
    <3> QED
      BY <3>1, <3>2, <3>3, Zenon DEF TenantsInv
  <2>2. CASE Next
    BY <2>2, NoticeStep, RegistryStep, PurgeStep, StartStep, ListTenantsStep, ClientStep, PublishStep, SkipStep,
       PublishFailsStep, FinishStep, RestartStep, IndexStep, PlatformStep, UserStep DEF Next
  <2> QED
    BY <2>1, <2>2
<1> QED
  BY <1>1, InitTenantsInv, PTL DEF Spec

\* For every instance: when everything is done, every resource is indexed or excused.
THEOREM AlwaysComplete == Spec => []Complete
<1>1. TenantsInv => Complete
  BY DEF TenantsInv, Typed, Accounted, Handled, Owed, Complete, Settled, Item
<1> QED
  BY <1>1, TenantsInvariance, PTL

\* For every instance: when everything is done, no index holds a document of a project that
\* is gone, unless its purge was missed there.
THEOREM NeverOrphans == Spec => []NoOrphans
<1>1. ASSUME TenantsInv, Settled, NEW d \in docs \ res
      PROVE  <<d.policy, d.tenant>> \in missed
  <2>1. Range(events) = {} /\ store \ live = {} /\ watcher.todo = {}
    BY <1>1 DEF Settled, Quiet, Range
  <2> QED
    BY <1>1, <2>1, Zenon DEF TenantsInv, OrphansDoomed, Doomed, Coming
<1>2. TenantsInv => NoOrphans
  BY <1>1 DEF NoOrphans
<1> QED
  BY <1>2, TenantsInvariance, PTL
=============================================================================
