------------------------------- MODULE Reindex ------------------------------
(***************************************************************************)
(* The two ways a document is written (cmd/search/indexer/command.go):     *)
(* audit events through a policy cache that holds ready policies only, and *)
(* re-index messages through a second cache that also holds policies that  *)
(* are not ready, each with a batcher of its own.  One policy is created   *)
(* and edited; the controller, reduced to what these paths see of it,      *)
(* re-indexes it after every change (PolicyController has all of it).      *)
(*                                                                         *)
(* A spec hash is the spec; the policy's status holds none or one of them. *)
(* A batcher's flushes are in order (Batcher).                             *)
(***************************************************************************)
EXTENDS Evaluation, Integers, Sequences, Functions

CONSTANTS Specs,        \* the condition sets the policy can have
          Target,       \* its target type
          UID, States,
          MaxEdits, MaxWrites, MaxFaults, NoDoc, Absent

ASSUME ReindexBounds == {MaxEdits, MaxWrites, MaxFaults} \subseteq Nat

\* What IndexesSatisfyingSome of PolicyAPI says of the conditions that are admitted.  A
\* condition that is an error on a state does not hold there.
ASSUME SpecsCompile ==
  \A conds \in Specs :
    /\ conds = {} \/ \E c \in conds : c.compiles
    /\ \A c \in conds : c.holds \cap c.fails = {} /\ (c.compiles \/ c.holds = {})

\* Absent, which stands for what a cache does not have, is no policy, stored or cached.
ASSUME AbsentPlain ==
  /\ Absent \notin [conds : Specs, gen : Nat, ready : BOOLEAN, hash : SUBSET Specs,
                    index : {NoIndex, "index"}]
  /\ Absent \notin [target : {Target}, conds : Specs, index : {NoIndex, "index"}]

VARIABLES res,      \* the resources: [life, state]
          pol,      \* the stored policy: [conds, gen, ready, hash, index]
          view,     \* the copy of the policy each cache last saw
          ctl,      \* the controller: [pc, conds, gen, todo]
          audit,    \* the audit stream
          reindex,  \* the re-index messages that are not acked
          pend,     \* the operations each batcher holds, with their messages
          docs, edits, writes, faults,
          raced     \* the resources written while a re-indexing could miss or undo it, and
                    \* those whose message was not published

vars == <<res, pol, view, ctl, audit, reindex, pend, docs, edits, writes, faults, raced>>

Caches == {"audit", "reindex"}
Index == "index"
IdleCtl == [pc |-> "idle", conds |-> {}, gen |-> 0, todo |-> {}]

Object(u) == [group |-> Target.group, version |-> Target.version, kind |-> Target.kind,
              uid |-> u, details |-> NoUID, state |-> res[u].state,
              deleting |-> res[u].life = "terminating"]

Platform == ExtractTenant(NoScope)

\* What upsertPolicy leaves in a cache: nothing of a policy it has not seen, nor, in the
\* audit consumer's cache, of one that is not ready.
Cached(c) ==
  IF view[c] = Absent \/ (c = "audit" /\ ~view[c].ready) THEN Absent
  ELSE [target |-> Target, conds |-> view[c].conds, index |-> view[c].index]

Init ==
  /\ res \in [UID -> [life : {"live"}, state : States]]
  /\ \E conds \in Specs :
       pol = [conds |-> conds, gen |-> 1, ready |-> FALSE, hash |-> {}, index |-> NoIndex]
  /\ view = [c \in Caches |-> Absent]
  /\ ctl = IdleCtl
  /\ audit = <<>> /\ reindex = {} /\ pend = [c \in Caches |-> <<>>]
  /\ docs = [u \in UID |-> NoDoc]
  /\ edits = 0 /\ writes = 0 /\ faults = 0 /\ raced = {}

-----------------------------------------------------------------------------
(* The controller. *)

\* Faulty variant: a policy that was re-indexed once is not re-indexed again.
NeedsReindexingOnce == pol.hash = {}

NeedsReindexing == pol.hash # {pol.conds}

\* The first status update: not ready while the re-indexing is in progress.
StartReindex ==
  /\ ctl.pc = "idle" /\ NeedsReindexing
  /\ pol' = [pol EXCEPT !.ready = FALSE, !.index = Index]
  /\ ctl' = [pc |-> "list", conds |-> pol.conds, gen |-> pol.gen, todo |-> {}]
  /\ UNCHANGED <<res, view, audit, reindex, pend, docs, edits, writes, faults, raced>>

\* The resources that exist, terminating ones too, as they are now.
List ==
  /\ ctl.pc = "list"
  /\ ctl' = [ctl EXCEPT !.pc = "publish",
                        !.todo = {Object(u) : u \in {v \in UID : res[v].life # "gone"}}]
  /\ UNCHANGED <<res, pol, view, audit, reindex, pend, docs, edits, writes, faults, raced>>

PublishResource(obj) ==
  /\ ctl.pc = "publish" /\ obj \in ctl.todo
  /\ ctl' = [ctl EXCEPT !.todo = @ \ {obj}]
  /\ reindex' = reindex \cup {[hash |-> ctl.conds, gen |-> ctl.gen, obj |-> obj]}
  /\ UNCHANGED <<res, pol, view, audit, pend, docs, edits, writes, faults, raced>>

\* A publication that fails is logged, and the pass goes on.
PublishResourceFails(obj) ==
  /\ ctl.pc = "publish" /\ obj \in ctl.todo /\ faults < MaxFaults
  /\ ctl' = [ctl EXCEPT !.todo = @ \ {obj}]
  /\ faults' = faults + 1
  /\ raced' = raced \cup {obj.uid}
  /\ UNCHANGED <<res, pol, view, audit, reindex, pend, docs, edits, writes>>

\* The status update after the publication is refused when the policy has changed.
FinishReindex ==
  /\ ctl.pc = "publish" /\ ctl.todo = {}
  /\ pol' = IF pol.gen = ctl.gen THEN [pol EXCEPT !.ready = TRUE, !.hash = {ctl.conds}] ELSE pol
  /\ ctl' = IdleCtl
  /\ UNCHANGED <<res, view, audit, reindex, pend, docs, edits, writes, faults, raced>>

\* A reconcile that finds the hash of the spec in the status reports it as re-indexed.
ConfirmReady ==
  /\ ctl.pc = "idle" /\ ~NeedsReindexing /\ ~pol.ready
  /\ pol' = [pol EXCEPT !.ready = TRUE]
  /\ UNCHANGED <<res, view, ctl, audit, reindex, pend, docs, edits, writes, faults, raced>>

-----------------------------------------------------------------------------
(* The indexer. *)

\* An informer catches up with the policy.
Sync(c) ==
  /\ view[c] # pol
  /\ view' = [view EXCEPT ![c] = pol]
  /\ UNCHANGED <<res, pol, ctl, audit, reindex, pend, docs, edits, writes, faults, raced>>

Upsert(obj) == [uid |-> obj.uid, doc |-> Transform(obj, Platform)]
Delete(obj) == [uid |-> obj.uid, doc |-> NoDoc]

\* The audit handler (Consumer has all of it); without a policy the event is acked.
HandleAudit ==
  /\ audit # <<>>
  /\ audit' = Tail(audit)
  /\ LET event == Head(audit)
         policy == Cached("audit")
         op == IF event.verb = "delete" \/ ~Evaluate(policy, event.obj)
               THEN Delete(event.obj) ELSE Upsert(event.obj)
     IN pend' = IF policy = Absent THEN pend ELSE [pend EXCEPT !["audit"] = Append(@, op)]
  /\ UNCHANGED <<res, pol, view, ctl, reindex, docs, edits, writes, faults, raced>>

\* processTargetedEvent.  A message that is naked stays in the stream.
Accept(m, op) ==
  /\ reindex' = reindex \ {m}
  /\ pend' = [pend EXCEPT !["reindex"] = Append(@, op)]
  /\ UNCHANGED <<res, pol, view, ctl, audit, docs, edits, writes, faults, raced>>

\* Faulty variant: the spec hash of the message is not compared.
ReindexOpUnchecked(m) ==
  IF m.obj.deleting THEN Delete(m.obj)
  ELSE IF Cached("reindex") = Absent THEN Absent
  ELSE IF Evaluate(Cached("reindex"), m.obj) THEN Upsert(m.obj) ELSE Delete(m.obj)

ReindexOp(m) ==
  IF m.obj.deleting THEN Delete(m.obj)
  ELSE IF Cached("reindex") = Absent \/ view["reindex"].conds # m.hash THEN Absent
  ELSE IF Evaluate(Cached("reindex"), m.obj) THEN Upsert(m.obj) ELSE Delete(m.obj)

HandleReindex(m) == ReindexOp(m) # Absent /\ Accept(m, ReindexOp(m))

Flush(c) ==
  /\ pend[c] # <<>>
  /\ docs' = [docs EXCEPT ![Head(pend[c]).uid] = Head(pend[c]).doc]
  /\ pend' = [pend EXCEPT ![c] = Tail(@)]
  /\ UNCHANGED <<res, pol, view, ctl, audit, reindex, edits, writes, faults, raced>>

-----------------------------------------------------------------------------
(* Users. *)

AuditDrained == audit = <<>> /\ pend["audit"] = <<>>

Published == pol.ready /\ pol.hash = {pol.conds} /\ ctl.pc = "idle"
ReindexDrained ==
  /\ \A m \in reindex : m.hash # pol.conds /\ ~m.obj.deleting
  /\ pend["reindex"] = <<>>

\* The resources an edit leaves to chance: those with an audit event that was evaluated,
\* or will be, under the other spec; those an old copy in flight of which the edit makes
\* acceptable again; and all of them when it restores the spec of the stored hash, which
\* the messages of the specs in between do not change.
Upset(conds) ==
  IF pol.hash = {conds} THEN UID
  ELSE {e.obj.uid : e \in Range(audit)} \cup {o.uid : o \in Range(pend["audit"])}
       \cup {u \in UID : \E m \in reindex :
               m.obj.uid = u /\ m.hash = conds /\ (res[u].life = "gone" \/ m.obj # Object(u))}

Edit(conds) ==
  /\ edits < MaxEdits /\ conds # pol.conds
  /\ pol' = [pol EXCEPT !.conds = conds, !.gen = @ + 1]
  /\ edits' = edits + 1
  /\ raced' = raced \cup Upset(conds)
  /\ UNCHANGED <<res, view, ctl, audit, reindex, pend, docs, writes, faults>>

\* Nothing of a re-indexing is under way and both caches know the policy.
Calm == Published /\ ReindexDrained /\ \A c \in Caches : view[c] = pol

\* An update, or the end of a resource.
Write(u, r, verb) ==
  /\ writes < MaxWrites
  /\ res[u].life \in {"live", "terminating"}
  /\ res' = [res EXCEPT ![u] = r]
  /\ audit' = Append(audit, [verb |-> verb, obj |-> [Object(u) EXCEPT
                 !.state = r.state, !.deleting = r.life = "terminating"]])
  /\ writes' = writes + 1
  /\ raced' = IF Calm THEN raced \ {u} ELSE raced \cup {u}
  /\ UNCHANGED <<pol, view, ctl, reindex, pend, docs, edits, faults>>

Update(u, state) == res[u].life = "live" /\ Write(u, [res[u] EXCEPT !.state = state], "update")
MarkDeleted(u) == res[u].life = "live" /\ Write(u, [res[u] EXCEPT !.life = "terminating"], "delete")
Remove(u) == Write(u, [res[u] EXCEPT !.life = "gone"], "delete")

Next ==
  \/ StartReindex \/ List \/ FinishReindex \/ ConfirmReady
  \/ \E obj \in ctl.todo : PublishResource(obj) \/ PublishResourceFails(obj)
  \/ \E c \in Caches : Sync(c) \/ Flush(c)
  \/ HandleAudit
  \/ \E m \in reindex : HandleReindex(m)
  \/ \E conds \in Specs : Edit(conds)
  \/ \E u \in UID : MarkDeleted(u) \/ Remove(u) \/ (\E state \in States : Update(u, state))

Spec == Init /\ [][Next]_vars

\* The controller, the informers, the consumers and the flushes keep going.
Fairness ==
  /\ WF_vars(StartReindex) /\ WF_vars(List) /\ WF_vars(FinishReindex)
  /\ WF_vars(ConfirmReady)
  /\ WF_vars(\E obj \in ctl.todo : PublishResource(obj) \/ PublishResourceFails(obj))
  /\ \A c \in Caches : WF_vars(Sync(c)) /\ WF_vars(Flush(c))
  /\ WF_vars(HandleAudit) /\ WF_vars(\E m \in reindex : HandleReindex(m))

FairSpec == Spec /\ Fairness

-----------------------------------------------------------------------------
(* Properties. *)

Wanted(u) ==
  /\ res[u].life = "live"
  /\ pol.conds = {} \/ \E c \in pol.conds : res[u].state \in c.holds

Right(u) == docs[u] = IF Wanted(u) THEN [state |-> res[u].state, tenant |-> Platform] ELSE NoDoc

Consistent == \A u \in UID \ raced : Right(u)

Settled == Calm /\ AuditDrained

\* The type of every variable.
TypeOK ==
  /\ pol.conds \in Specs /\ pol.hash \subseteq Specs
  /\ \A c \in Caches : view[c] # Absent => view[c].gen <= pol.gen
  /\ \A u \in UID : docs[u] # NoDoc => docs[u].state \in States
  /\ \A m \in reindex : m.gen <= pol.gen

\* Whatever edits of the policy follow each other, and however its caches lag, an index
\* for which everything is done holds the resources the newest spec wants, with their
\* newest content, and no others (the two consumers and the controller together).  Left
\* out are the raced resources: those written during a re-indexing, whose event is acked
\* without effect while the policy is not ready (upsertPolicy), or whose listed copy may
\* be written after it by the other batcher; those an edit leaves to chance, see Upset; and
\* those whose publication failed.
SettledConsistent == Settled => Consistent

\* Once the edits stop, the index becomes and stays consistent: the messages of the
\* newest spec are published and are accepted when the cache has caught up.  It leaves out
\* what SettledConsistent leaves out.
EventuallyConsistent == <>[]Consistent

\* The same without exception: the index reflects the current policy definition
\* (resource-indexer.md:269-271).
ReflectsPolicy == Settled => \A u \in UID : Right(u)

=============================================================================
