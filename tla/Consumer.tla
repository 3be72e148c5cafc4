------------------------------ MODULE Consumer ------------------------------
(***************************************************************************)
(* The audit-event handler of the indexer (internal/indexer/consumer.go):  *)
(* which upserts and deletes an event turns into.  The API server writes   *)
(* resources and appends the audit event of each request to the stream; the*)
(* handler takes the events in order and its operations reach the indexes  *)
(* in order (what the batcher adds is the subject of Batcher and Pipeline).*)
(* The policies do not change here (Reindex moves them).                   *)
(***************************************************************************)
EXTENDS Evaluation, Integers, Sequences

CONSTANTS Policies,      \* the cached, ready policies: [target, conds, index]
          Group, Kinds,  \* the API group and the kinds of the resources
          Versions,      \* the API versions the resources can be written through
          States,        \* the contents a resource can have
          Scopes,        \* the scope annotations an event can carry
          MaxUID, MaxRequests, MaxStream, NoDoc

ASSUME ConsumerBounds == {MaxUID, MaxRequests, MaxStream} \subseteq Nat

\* A ready policy has an index of its own, and a condition that compiles unless it has none.
\* Admission and the controller see to both, with the exceptions IndexOwned and IndexesSatisfyingSome
\* of PolicyAPI state.  A condition that is an error on a state does not hold there, and one
\* that does not compile holds nowhere.
ASSUME PoliciesReady ==
  \A p \in Policies :
    /\ p.target.group = Group /\ p.index # NoIndex
    /\ \A q \in Policies : q.index = p.index => q = p
    /\ p.conds = {} \/ \E c \in p.conds : c.compiles
    /\ \A c \in p.conds : c.holds \cap c.fails = {} /\ (c.compiles \/ c.holds = {})

\* No kind, of a resource or of a policy's target, stands for something else in an answer.
ASSUME KindsPlain ==
  {"none", "unknown", "Status", "List"} \cap (Kinds \cup {p.target.kind : p \in Policies}) = {}

\* NoDoc, the absence of a document, is no document.
ASSUME NoDocPlain ==
  NoDoc \notin [state : States \cup {"none"}, tenant : {ExtractTenant(s) : s \in Scopes}]

VARIABLES resources,   \* what the API server stores, by UID
          stream,      \* the audit events that have not been handled
          docs,        \* the documents of each index, by UID
          requests,    \* requests so far (bounded)
          multiTenant  \* the --multi-tenant flag

vars == <<resources, stream, docs, requests, multiTenant>>

UID == 1 .. MaxUID
Indexes == {p.index : p \in Policies}
Unborn == [life |-> "unborn"]

-----------------------------------------------------------------------------
(* The handler. *)

\* The operations of a message: documents to write and to delete.
NoOps == [upserts |-> {}, deletes |-> {}]

\* handleDelete: every policy with an index that targets the resource's type.
DeleteOps(event) ==
  LET type == DeletedResourceType(event)
      hit == {p \in Policies : p.index # NoIndex /\ TargetsResource(p, type.group, type.kind)}
  IN IF ResolveUID(event) = NoUID THEN NoOps
     ELSE [NoOps EXCEPT !.deletes = {[index |-> p.index, uid |-> ResolveUID(event)] : p \in hit}]

\* The evaluation of every cached policy.
EvaluateOps(event) ==
  LET obj == event.obj
      uid == ResolveUID(event)
      named == {p \in Policies : p.index # NoIndex}
      matched == {p \in named : Evaluate(p, obj)}
      left == {p \in named \ matched : /\ event.verb \in {"update", "patch"}
                                       /\ TargetsResource(p, obj.group, obj.kind)}
  IN [upserts |-> {[index |-> p.index, uid |-> uid,
                    doc |-> Transform(obj, ExtractTenant(event.scope))] : p \in matched},
      deletes |-> {[index |-> p.index, uid |-> uid] : p \in left}]

\* Faulty variant: an update of a terminating resource is an upsert.
OpsResurrecting(event) ==
  IF event.verb = "delete" THEN DeleteOps(event)
  ELSE IF \/ event.verb \notin {"create", "update", "patch"}
          \/ event.obj = NoObject
          \/ ResolveUID(event) = NoUID
       THEN NoOps
  ELSE EvaluateOps(event)

\* The whole handler, with its early returns.
Ops(event) ==
  IF event.verb = "delete" THEN DeleteOps(event)
  ELSE IF event.obj = NoObject \/ event.verb \notin {"create", "update", "patch"} THEN NoOps
  ELSE IF event.obj.deleting THEN DeleteOps(event)
  ELSE IF \/ ResolveUID(event) = NoUID
          \/ ~multiTenant /\ ExtractTenant(event.scope).type # "platform"
       THEN NoOps
  ELSE EvaluateOps(event)

Handle ==
  /\ stream # <<>>
  /\ stream' = Tail(stream)
  /\ LET ops == Ops(Head(stream)) IN
       docs' = [i \in Indexes |-> [u \in UID |->
                  IF \E o \in ops.upserts : o.index = i /\ o.uid = u
                  THEN (CHOOSE o \in ops.upserts : o.index = i /\ o.uid = u).doc
                  ELSE IF [index |-> i, uid |-> u] \in ops.deletes THEN NoDoc
                  ELSE docs[i][u]]]
  /\ UNCHANGED <<resources, requests, multiTenant>>

-----------------------------------------------------------------------------
(* The API server: each request it serves, and the audit event it leaves.  *)

Object(u, version, r) ==
  [group |-> Group, version |-> version, kind |-> r.kind, uid |-> u, details |-> NoUID,
   deleting |-> r.life = "terminating", state |-> r.state]

\* The answer to a deletion that is complete names the UID in its details; an error does not.
Status(uid) ==
  [group |-> "", version |-> "v1", kind |-> "Status", uid |-> NoUID, details |-> uid,
   deleting |-> FALSE, state |-> "none"]

Event(verb, scope, refUID, obj) ==
  [verb |-> verb, scope |-> scope, ref |-> [uid |-> refUID, group |-> Group], obj |-> obj]

Audit(event) ==
  /\ requests < MaxRequests /\ Len(stream) < MaxStream
  /\ requests' = requests + 1
  /\ stream' = Append(stream, event)
  /\ UNCHANGED <<docs, multiTenant>>

Store(u, r) == resources' = [resources EXCEPT ![u] = r]

Create(u, kind, state, finalizers, scope, version) ==
  LET r == [life |-> "live", kind |-> kind, state |-> state, finalizers |-> finalizers,
            scope |-> scope, via |-> version]
  IN /\ resources[u] = Unborn /\ \A v \in 1 .. u - 1 : resources[v] # Unborn
     /\ Store(u, r)
     /\ Audit(Event("create", scope, NoUID, Object(u, version, r)))

Update(u, verb, state, version) ==
  LET r == [resources[u] EXCEPT !.state = state, !.via = version]
  IN /\ resources[u].life \in {"live", "terminating"}
     /\ Store(u, r)
     /\ Audit(Event(verb, r.scope, u, Object(u, version, r)))

\* With finalizers the resource stays, terminating; the answer is the resource.
MarkDeleted(u, version) ==
  LET r == [resources[u] EXCEPT !.life = "terminating"]
  IN /\ resources[u].life = "live" /\ resources[u].finalizers
     /\ Store(u, r)
     /\ Audit(Event("delete", r.scope, NoUID, Object(u, version, r)))

\* The update that removes the last finalizer; no delete event follows.
RemoveFinalizer(u, verb, version) ==
  /\ resources[u].life = "terminating"
  /\ Store(u, [life |-> "gone"])
  /\ Audit(Event(verb, resources[u].scope, u, Object(u, version, resources[u])))

\* Without finalizers the answer is a Status or the resource itself.
Remove(u, version, answersStatus) ==
  /\ resources[u].life = "live" /\ ~resources[u].finalizers
  /\ Store(u, [life |-> "gone"])
  /\ Audit(Event("delete", resources[u].scope, NoUID,
                 IF answersStatus THEN Status(u) ELSE Object(u, version, resources[u])))

\* One request removes a collection; its answer is a list.
RemoveCollection(u, version) ==
  /\ resources[u].life = "live" /\ ~resources[u].finalizers
  /\ Store(u, [life |-> "swept"])
  /\ Audit(Event("deletecollection", resources[u].scope, NoUID,
                 [Object(u, version, resources[u]) EXCEPT !.uid = NoUID, !.kind = "List"]))

\* A request that changes nothing: refused (answered with an error Status), or a read.
Refused(u, verb) ==
  /\ resources[u].life = "live"
  /\ Audit(Event(verb, resources[u].scope, IF verb = "delete" THEN NoUID ELSE u, Status(NoUID)))
  /\ UNCHANGED resources

Read(u, version) ==
  /\ resources[u].life = "live"
  /\ \E obj \in {NoObject, Object(u, version, resources[u])} :
       Audit(Event("get", resources[u].scope, u, obj))
  /\ UNCHANGED resources

-----------------------------------------------------------------------------
Init ==
  /\ resources = [u \in UID |-> Unborn]
  /\ stream = <<>>
  /\ docs = [i \in Indexes |-> [u \in UID |-> NoDoc]]
  /\ requests = 0
  /\ multiTenant \in BOOLEAN

Request(u, version) ==
  \/ \E kind \in Kinds, state \in States, finalizers \in BOOLEAN, scope \in Scopes :
       Create(u, kind, state, finalizers, scope, version)
  \/ \E verb \in {"update", "patch"}, state \in States : Update(u, verb, state, version)
  \/ MarkDeleted(u, version)
  \/ \E verb \in {"update", "patch"} : RemoveFinalizer(u, verb, version)
  \/ \E answersStatus \in BOOLEAN : Remove(u, version, answersStatus)
  \/ RemoveCollection(u, version)
  \/ \E verb \in {"create", "update", "delete"} : Refused(u, verb)
  \/ Read(u, version)

Done == stream = <<>> /\ requests = MaxRequests /\ UNCHANGED vars

Next == Handle \/ (\E u \in UID, version \in Versions : Request(u, version)) \/ Done

Spec == Init /\ [][Next]_vars

-----------------------------------------------------------------------------
(* Properties. *)

\* What the API documents: the resource is of the policy's kind, of a tenant that is
\* indexed, and satisfies one of the conditions (any resource does when there are none).
Wanted(p, r) ==
  /\ r.life = "live"
  /\ r.kind = p.target.kind
  /\ multiTenant \/ ExtractTenant(r.scope).type = "platform"
  /\ p.conds = {} \/ \E c \in p.conds : r.state \in c.holds

\* Beyond what is documented, a write counts only through the target's API version.
Desired(p, r) ==
  IF Wanted(p, r) /\ r.via = p.target.version
  THEN [state |-> r.state, tenant |-> ExtractTenant(r.scope)] ELSE NoDoc

\* The type of every variable.
TypeOK ==
  /\ DOMAIN resources = UID
  /\ \A u \in UID : resources[u].life \in {"unborn", "live", "terminating", "gone", "swept"}
  /\ Len(stream) <= MaxStream
  /\ \A i \in Indexes, u \in UID :
       docs[i][u] # NoDoc => docs[i][u].state \in States
  /\ requests \in 0 .. MaxRequests /\ multiTenant \in BOOLEAN

\* Once its events are handled, every index mirrors the resources: the document of a
\* resource is there, with its newest content, exactly while the resource is live and its
\* policy wants it, however it was created, moved between policies, finalized and removed
\* (consumer.go Start and handleDelete together).  Resources swept away by a
\* deletecollection are the exception: that verb is not handled.
Mirror ==
  stream = <<>> => \A p \in Policies, u \in UID :
    resources[u].life # "swept" => docs[p.index][u] = Desired(p, resources[u])

\* A document leaves an index only because its resource was deleted, was written through
\* another version, or no longer passes the policy's conditions (consumer.go, the comment
\* on the delete of an unmatched update): no event of another kind and no failing
\* condition among several takes it away.
LeavesOnlyUnmatched ==
  [][\A p \in Policies, u \in UID :
       (docs[p.index][u] # NoDoc /\ docs'[p.index][u] = NoDoc) =>
         LET event == Head(stream)
         IN \/ event.verb = "delete" \/ event.obj.deleting
            \/ event.obj.version # p.target.version
            \/ \A c \in p.conds : event.obj.state \notin c.holds]_vars

=============================================================================
