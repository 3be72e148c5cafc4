--------------------------- MODULE ConsumerProofs ---------------------------
(***************************************************************************)
(* The indexes mirror the resources once the events are handled, for any   *)
(* policies that admission lets through, any number of resources, kinds,   *)
(* versions and scopes, and a stream of any length.                        *)
(***************************************************************************)
EXTENDS Consumer, Functions, SequenceTheorems, TLAPS

AnyUID == UID \cup {NoUID}

\* The objects in answers: a resource, a Status or a list.
Answers == [group : {Group, ""}, version : Versions \cup {"v1"}, kind : Kinds \cup {"Status", "List"},
            uid : AnyUID, details : AnyUID, deleting : BOOLEAN, state : States \cup {"none"}]

Events == [verb : {"create", "update", "patch", "delete", "deletecollection", "get"},
           scope : Scopes, ref : [uid : AnyUID, group : {Group}], obj : Answers \cup {NoObject}]

Living == [life : {"live", "terminating"}, kind : Kinds, state : States, finalizers : BOOLEAN,
           scope : Scopes, via : Versions]

\* The type of the state.
Typed ==
  /\ resources \in [UID -> Living \cup [life : {"unborn", "gone", "swept"}]]
  /\ stream \in Seq(Events)

\* What an event does to the document of resource u in the index of policy p.
Upserted(e, p, u) == \E o \in Ops(e).upserts : o.index = p.index /\ o.uid = u
Deleted(e, p, u) == [index |-> p.index, uid |-> u] \in Ops(e).deletes
Touches(e, p, u) == Upserted(e, p, u) \/ Deleted(e, p, u)
Result(e, p, u) ==
  IF Upserted(e, p, u) THEN (CHOOSE o \in Ops(e).upserts : o.index = p.index /\ o.uid = u).doc
  ELSE NoDoc

\* What the document should be.
Goal(p, u) == Desired(p, resources[u])

\* Event e, the n-th of the stream, is the last one that touches the document.
Decides(e, n, p, u) ==
  /\ stream[n] = e /\ Touches(e, p, u)
  /\ \A f \in Range(stream), m \in DOMAIN stream : m > n /\ stream[m] = f => ~Touches(f, p, u)

\* The document is right, or the last event that touches it will make it so.
Converging(p, u) ==
  \/ docs[p.index][u] = Goal(p, u) /\ \A e \in Range(stream) : ~Touches(e, p, u)
  \/ \E e \in Range(stream), n \in DOMAIN stream : Decides(e, n, p, u) /\ Result(e, p, u) = Goal(p, u)

MirrorInv == Typed /\ \A p \in Policies, u \in UID : resources[u].life # "swept" => Converging(p, u)

-----------------------------------------------------------------------------
(* What the operators of the handler compute. *)

\* An evaluation is a match of the target and of one of the conditions, if there are any.
LEMMA EvaluateMeans ==
  ASSUME NEW p \in Policies, NEW obj
  PROVE  Evaluate(p, obj) <=> /\ obj.group = p.target.group
                              /\ obj.version = p.target.version
                              /\ obj.kind = p.target.kind
                              /\ p.conds = {} \/ \E c \in p.conds : obj.state \in c.holds
BY PoliciesReady DEF Evaluate, Compile

\* The deletes of an event that names a UID: one for each policy of the type.
LEMMA DeleteOpsMeans ==
  ASSUME NEW e, NEW uid \in UID, ResolveUID(e) = uid, Ops(e) = DeleteOps(e),
         NEW p \in Policies, NEW u \in UID
  PROVE  /\ ~Upserted(e, p, u) /\ Result(e, p, u) = NoDoc
         /\ Deleted(e, p, u) <=> /\ u = uid
                                 /\ TargetsResource(p, DeletedResourceType(e).group, DeletedResourceType(e).kind)
<1> DEFINE type == DeletedResourceType(e)
           hit == {q \in Policies : q.index # NoIndex /\ TargetsResource(q, type.group, type.kind)}
<1>1. ResolveUID(e) # NoUID
  BY ConsumerBounds DEF UID, NoUID
<1>2. DeleteOps(e) = [NoOps EXCEPT !.deletes = {[index |-> q.index, uid |-> uid] : q \in hit}]
  BY <1>1 DEF DeleteOps
<1>3. hit \subseteq Policies
  OBVIOUS
<1> HIDE DEF hit
<1>4. Ops(e).upserts = {} /\ Ops(e).deletes = {[index |-> q.index, uid |-> uid] : q \in hit}
  BY <1>2 DEF NoOps
<1>5. ~Upserted(e, p, u)
  BY <1>4 DEF Upserted
<1>6. Deleted(e, p, u) <=> u = uid /\ p \in hit
  <2>1. Deleted(e, p, u) <=> \E q \in hit : [index |-> p.index, uid |-> u] = [index |-> q.index, uid |-> uid]
    BY <1>4 DEF Deleted
  <2> QED
    BY <1>3, <2>1, PoliciesReady, Zenon
<1> QED
  BY <1>5, <1>6, PoliciesReady DEF Result, hit

\* An event without operations touches nothing.
LEMMA NoOpsMeans ==
  ASSUME NEW e, Ops(e) = NoOps, NEW p, NEW u
  PROVE  ~Touches(e, p, u)
BY DEF NoOps, Touches, Upserted, Deleted

\* The operations of an evaluation.
LEMMA EvaluateOpsMeans ==
  ASSUME NEW e, NEW uid \in UID, ResolveUID(e) = uid, Ops(e) = EvaluateOps(e),
         NEW p \in Policies, NEW u \in UID
  PROVE  /\ Upserted(e, p, u) <=> u = uid /\ Evaluate(p, e.obj)
         /\ Upserted(e, p, u) => Result(e, p, u) = Transform(e.obj, ExtractTenant(e.scope))
         /\ Deleted(e, p, u) <=> /\ u = uid /\ ~Evaluate(p, e.obj) /\ e.verb \in {"update", "patch"}
                                 /\ TargetsResource(p, e.obj.group, e.obj.kind)
<1> DEFINE doc == Transform(e.obj, ExtractTenant(e.scope))
           named == {q \in Policies : q.index # NoIndex}
           matched == {q \in named : Evaluate(q, e.obj)}
           away == {q \in named \ matched : /\ e.verb \in {"update", "patch"}
                                            /\ TargetsResource(q, e.obj.group, e.obj.kind)}
<1>1. /\ Ops(e).upserts = {[index |-> q.index, uid |-> uid, doc |-> doc] : q \in matched}
      /\ Ops(e).deletes = {[index |-> q.index, uid |-> uid] : q \in away}
  BY DEF EvaluateOps
<1>2. p \in matched <=> Evaluate(p, e.obj)
  BY PoliciesReady
<1>3. p \in away <=> /\ ~Evaluate(p, e.obj) /\ e.verb \in {"update", "patch"}
                     /\ TargetsResource(p, e.obj.group, e.obj.kind)
  BY PoliciesReady
<1>4. matched \subseteq Policies /\ away \subseteq Policies
  OBVIOUS
<1> HIDE DEF matched, away, doc
<1>5. Upserted(e, p, u) <=> u = uid /\ p \in matched
  <2>1. ASSUME u = uid, p \in matched
        PROVE  Upserted(e, p, u)
    <3>1. [index |-> p.index, uid |-> uid, doc |-> doc] \in Ops(e).upserts
      BY <1>1, <2>1
    <3> QED
      BY <2>1, <3>1 DEF Upserted
  <2>2. ASSUME Upserted(e, p, u)
        PROVE  u = uid /\ p \in matched
    <3>1. \E q \in matched : q.index = p.index /\ uid = u
      BY <1>1, <2>2 DEF Upserted
    <3> QED
      BY <1>4, <3>1, PoliciesReady
  <2> QED
    BY <2>1, <2>2
<1>6. Deleted(e, p, u) <=> u = uid /\ p \in away
  BY <1>1, <1>4, PoliciesReady, Zenon DEF Deleted
<1>7. \A o \in Ops(e).upserts : o.doc = doc
  BY <1>1
<1>8. Upserted(e, p, u) => Result(e, p, u) = doc
  BY <1>7 DEF Upserted, Result
<1> QED
  BY <1>2, <1>3, <1>5, <1>6, <1>8 DEF doc

-----------------------------------------------------------------------------
(* What the events of the API server do. *)

\* An object that is answered is what it is of.
LEMMA ObjectFields ==
  ASSUME NEW u \in UID, NEW version \in Versions, NEW r \in Living
  PROVE  /\ Object(u, version, r) \in Answers /\ Object(u, version, r) # NoObject
         /\ Object(u, version, r).uid = u /\ Object(u, version, r).group = Group
         /\ Object(u, version, r).version = version /\ Object(u, version, r).kind = r.kind
         /\ Object(u, version, r).state = r.state
         /\ Object(u, version, r).deleting = (r.life = "terminating")
<1>1. Object(u, version, r) \in Answers
  BY DEF Object, Answers, AnyUID, Living
<1>2. r.kind \in Kinds /\ r.kind # "none"
  BY KindsPlain DEF Living
<1>3. Object(u, version, r) # NoObject
  BY <1>2 DEF Object, NoObject
<1> QED
  BY <1>1, <1>3 DEF Object

\* The event of a write through a version: it touches the document of a resource that stays
\* indexed, leaves or ends, and with the result that is wanted.
LEMMA WriteEvent ==
  ASSUME NEW u \in UID, NEW version \in Versions, NEW r \in Living, NEW ref \in AnyUID,
         NEW verb \in {"create", "update", "patch"}, NEW e,
         e = Event(verb, r.scope, ref, Object(u, version, r)), r.via = version,
         NEW p \in Policies, NEW x \in UID
  PROVE  /\ x # u => ~Touches(e, p, x)
         /\ Touches(e, p, u) => Result(e, p, u) = Desired(p, r)
         /\ ~Touches(e, p, u) => Desired(p, r) = NoDoc /\
              (\/ verb = "create" \/ p.target.kind # r.kind
               \/ ~multiTenant /\ ExtractTenant(r.scope).type # "platform" /\ r.life = "live")
<1> DEFINE obj == Object(u, version, r)
<1>1. /\ obj # NoObject /\ obj.uid = u /\ obj.group = Group /\ obj.version = version
      /\ obj.kind = r.kind /\ obj.state = r.state /\ obj.deleting = (r.life = "terminating")
  BY ObjectFields
<1> HIDE DEF obj
<1>2. e.verb = verb /\ e.scope = r.scope /\ e.obj = obj
  BY DEF Event, obj
<1>3. ResolveUID(e) = u /\ u # NoUID
  BY <1>1, <1>2, ConsumerBounds DEF ResolveUID, UID, NoUID
<1>4. r.kind \in Kinds /\ r.kind # "unknown" /\ r.kind # "Status" /\ p.target.group = Group
      /\ r.life \in {"live", "terminating"}
  BY KindsPlain, PoliciesReady DEF Living
<1>5. TargetsResource(p, obj.group, obj.kind) <=> p.target.kind = r.kind
  BY <1>1, <1>4 DEF TargetsResource
<1>6. CASE r.life = "terminating"
  <2>1. Ops(e) = DeleteOps(e)
    BY <1>1, <1>2, <1>6, ZenonT(40) DEF Ops
  <2>2. DeletedResourceType(e) = [group |-> obj.group, kind |-> obj.kind]
    BY <1>1, <1>2, <1>4 DEF DeletedResourceType
  <2>3. /\ ~Upserted(e, p, x) /\ ~Upserted(e, p, u) /\ Result(e, p, u) = NoDoc
        /\ Deleted(e, p, x) <=> x = u /\ p.target.kind = r.kind
        /\ Deleted(e, p, u) <=> p.target.kind = r.kind
    BY <1>3, <1>5, <2>1, <2>2, DeleteOpsMeans
  <2>4. Desired(p, r) = NoDoc
    BY <1>6 DEF Desired, Wanted
  <2> QED
    BY <2>3, <2>4 DEF Touches
<1>7. CASE r.life = "live" /\ ~multiTenant /\ ExtractTenant(r.scope).type # "platform"
  <2>1. Ops(e) = NoOps
    BY <1>1, <1>2, <1>7, ZenonT(40) DEF Ops
  <2>2. Desired(p, r) = NoDoc
    BY <1>7 DEF Desired, Wanted
  <2> QED
    BY <1>7, <2>1, <2>2, NoOpsMeans
<1>8. CASE r.life = "live" /\ (multiTenant \/ ExtractTenant(r.scope).type = "platform")
  <2>1. Ops(e) = EvaluateOps(e)
    BY <1>1, <1>2, <1>3, <1>8, ZenonT(60) DEF Ops
  <2>2. /\ Upserted(e, p, x) <=> x = u /\ Evaluate(p, obj)
        /\ Upserted(e, p, u) <=> Evaluate(p, obj)
        /\ Upserted(e, p, u) => Result(e, p, u) = Transform(obj, ExtractTenant(r.scope))
        /\ Deleted(e, p, x) <=> x = u /\ ~Evaluate(p, obj) /\ verb # "create" /\ p.target.kind = r.kind
        /\ Deleted(e, p, u) <=> ~Evaluate(p, obj) /\ verb # "create" /\ p.target.kind = r.kind
    BY <1>2, <1>3, <1>5, <2>1, EvaluateOpsMeans
  <2>3. Evaluate(p, obj) <=> Wanted(p, r) /\ r.via = p.target.version
    BY <1>1, <1>4, <1>8, EvaluateMeans DEF Wanted
  <2>4. Transform(obj, ExtractTenant(r.scope)) = [state |-> r.state, tenant |-> ExtractTenant(r.scope)]
    BY <1>1 DEF Transform
  <2>5. Desired(p, r) = IF Evaluate(p, obj) THEN Transform(obj, ExtractTenant(r.scope)) ELSE NoDoc
    BY <2>3, <2>4 DEF Desired
  <2> QED
    BY <2>2, <2>5 DEF Touches, Result
<1> QED
  BY <1>4, <1>6, <1>7, <1>8

\* A Status is no resource; its details name the UID.
LEMMA StatusFields ==
  ASSUME NEW uid \in AnyUID
  PROVE  /\ Status(uid) \in Answers /\ Status(uid) # NoObject /\ Status(uid).group = ""
         /\ Status(uid).kind = "Status" /\ Status(uid).uid = NoUID /\ Status(uid).details = uid
         /\ Status(uid).deleting = FALSE
<1>1. Status(uid).kind = "Status" /\ NoObject.kind = "none"
  BY DEF Status, NoObject
<1>2. Status(uid) # NoObject
  BY <1>1
<1>3. Status(uid) \in Answers
  BY DEF Status, Answers, AnyUID
<1> QED
  BY <1>1, <1>2, <1>3 DEF Status

\* The event of a deletion, answered with the object or with a Status that names it.
LEMMA DeleteEvent ==
  ASSUME NEW u \in UID, NEW version \in Versions, NEW r \in Living, NEW e,
         \E obj \in {Object(u, version, r), Status(u)} : e = Event("delete", r.scope, NoUID, obj),
         NEW p \in Policies, NEW x \in UID
  PROVE  /\ x # u => ~Touches(e, p, x)
         /\ Result(e, p, u) = NoDoc
         /\ ~Touches(e, p, u) => p.target.kind # r.kind
<1>1. PICK obj \in {Object(u, version, r), Status(u)} : e = Event("delete", r.scope, NoUID, obj)
  OBVIOUS
<1>2. e.verb = "delete" /\ e.obj = obj /\ e.ref = [uid |-> NoUID, group |-> Group]
  BY <1>1 DEF Event
<1>3. Ops(e) = DeleteOps(e)
  BY <1>2, Zenon DEF Ops
<1>4. r.kind \in Kinds /\ r.kind # "Status" /\ p.target.group = Group
  BY KindsPlain, PoliciesReady, Zenon DEF Living
<1>5. /\ ResolveUID(e) = u
      /\ p.target.kind = r.kind => TargetsResource(p, DeletedResourceType(e).group, DeletedResourceType(e).kind)
  <2>1. CASE obj = Object(u, version, r)
    <3>1. obj # NoObject /\ obj.uid = u /\ obj.group = Group /\ obj.kind = r.kind /\ u # NoUID
      BY <2>1, ObjectFields, ConsumerBounds, SMTT(30) DEF UID, NoUID
    <3> QED
      BY <1>2, <1>4, <3>1 DEF ResolveUID, DeletedResourceType, TargetsResource
  <2>2. CASE obj = Status(u)
    <3>1. u \in AnyUID /\ u # NoUID
      BY ConsumerBounds, SMTT(30) DEF AnyUID, UID, NoUID
    <3>2. obj # NoObject /\ obj.uid = NoUID /\ obj.details = u /\ obj.kind = "Status"
      BY <2>2, <3>1, StatusFields
    <3> QED
      BY <1>2, <1>4, <3>1, <3>2 DEF ResolveUID, DeletedResourceType, TargetsResource
  <2> QED
    BY <2>1, <2>2, SMTT(30)
<1> QED
  BY <1>3, <1>5, DeleteOpsMeans DEF Touches

\* The events of other requests touch nothing: a refusal, a read, and, since its verb is not
\* handled, the deletion of a collection.
LEMMA OtherEvent ==
  ASSUME NEW e \in Events, NEW p \in Policies, NEW x \in UID,
         \/ e.verb \in {"get", "deletecollection"}
         \/ /\ e.obj = Status(NoUID) /\ e.verb \in {"create", "update", "delete"}
            /\ e.verb = "delete" => e.ref.uid = NoUID
  PROVE  ~Touches(e, p, x)
<1>1. CASE e.verb \in {"get", "deletecollection"}
  BY <1>1, NoOpsMeans DEF Ops
<1>2. CASE e.obj = Status(NoUID) /\ e.verb = "delete" /\ e.ref.uid = NoUID
  <2>1. e.obj.uid = NoUID /\ e.obj.details = NoUID
    <3>1. NoUID \in AnyUID
      BY DEF AnyUID
    <3> QED
      BY <1>2, <3>1, StatusFields, Zenon
  <2>2. ResolveUID(e) = NoUID
    BY <1>2, <2>1 DEF ResolveUID
  <2>3. Ops(e) = NoOps
    BY <1>2, <2>2 DEF Ops, DeleteOps
  <2> QED
    BY <2>3, NoOpsMeans
<1>3. CASE e.obj = Status(NoUID) /\ e.verb \in {"create", "update"}
  <2>1. /\ e.obj # NoObject /\ ~e.obj.deleting /\ e.obj.group = "" /\ e.obj.uid = NoUID
        /\ e.obj.details = NoUID
    <3>1. NoUID \in AnyUID
      BY DEF AnyUID
    <3>2. Status(NoUID) # NoObject /\ ~Status(NoUID).deleting /\ Status(NoUID).group = ""
          /\ Status(NoUID).uid = NoUID /\ Status(NoUID).details = NoUID
      BY <3>1, StatusFields, Zenon
    <3> QED
      BY <1>3, <3>2, Zenon
  <2>2. CASE Ops(e) = NoOps
    BY <2>2, NoOpsMeans
  <2>3. CASE Ops(e) # NoOps
    <3>1. Ops(e) = EvaluateOps(e) /\ ResolveUID(e) # NoUID
      BY <1>3, <2>1, <2>3, ZenonT(40) DEF Ops
    <3>2. ResolveUID(e) \in UID
      BY <2>1, <3>1, Zenon DEF ResolveUID, Events, AnyUID
    <3>3. p.target.kind # e.obj.kind /\ e.obj.kind # "unknown"
      <4>1. Status(NoUID).kind = "Status"
        BY DEF Status
      <4>2. p.target.kind \in {q.target.kind : q \in Policies}
        OBVIOUS
      <4>3. p.target.kind # "Status"
        BY <4>2, KindsPlain, Zenon
      <4> QED
        BY <1>3, <4>1, <4>3
    <3>4. ~Evaluate(p, e.obj) /\ ~TargetsResource(p, e.obj.group, e.obj.kind)
      BY <3>3 DEF Evaluate, TargetsResource
    <3> QED
      BY <3>1, <3>2, <3>4, EvaluateOpsMeans DEF Touches
  <2> QED
    BY <2>2, <2>3
<1> QED
  BY <1>1, <1>2, <1>3

-----------------------------------------------------------------------------
(* The steps. *)

\* The flag does not change, so neither does what an event does.
LEMMA OpsKept ==
  ASSUME multiTenant' = multiTenant, NEW e, NEW p, NEW u
  PROVE  (Touches(e, p, u)' <=> Touches(e, p, u)) /\ Result(e, p, u)' = Result(e, p, u)
<1>1. Ops(e)' = Ops(e)
  BY DEF Ops
<1> QED
  BY <1>1 DEF Touches, Result, Upserted, Deleted

\* A request about resource u adds its event to the stream.
LEMMA AuditStep ==
  ASSUME MirrorInv, Typed', NEW e \in Events, NEW u \in UID,
         (stream' = Append(stream, e)), UNCHANGED <<docs, multiTenant>>,
         \A x \in UID \ {u} : resources'[x] = resources[x],
         \A p \in Policies, x \in UID \ {u} : ~Touches(e, p, x),
         resources'[u].life # "swept" =>
           /\ resources[u].life # "swept"
           /\ \A p \in Policies : \/ Touches(e, p, u) /\ Result(e, p, u) = Goal(p, u)'
                                  \/ ~Touches(e, p, u) /\ Goal(p, u)' = Goal(p, u)
  PROVE  MirrorInv'
<1> SUFFICES ASSUME NEW p \in Policies, NEW x \in UID, resources'[x].life # "swept"
             PROVE  Converging(p, x)'
  BY Zenon DEF MirrorInv
<1>1. Converging(p, x)
  BY DEF MirrorInv
<1>2. /\ DOMAIN stream = 1 .. Len(stream) /\ Len(stream) \in Nat
      /\ DOMAIN stream' = 1 .. Len(stream) + 1
      /\ stream'[Len(stream) + 1] = e /\ \A n \in DOMAIN stream : stream'[n] = stream[n]
  BY DEF MirrorInv, Typed
<1>3. Range(stream') = Range(stream) \cup {e}
  BY <1>2, SMTT(30) DEF Range
<1>4. \A f : (Touches(f, p, x)' <=> Touches(f, p, x)) /\ Result(f, p, x)' = Result(f, p, x)
  BY OpsKept, Zenon
<1>5. ~Touches(e, p, x) => Goal(p, x)' = Goal(p, x)
  BY ZenonT(40) DEF Goal, Desired, Wanted
<1>6. Touches(e, p, x) => Result(e, p, x) = Goal(p, x)'
  OBVIOUS
<1>7. CASE Touches(e, p, x)
  <2>1. PICK k : k = Len(stream) + 1
    OBVIOUS
  <2>2. Decides(e, k, p, x)'
    BY <1>2, <1>4, <1>7, <2>1, SMTT(30) DEF Decides
  <2> QED
    BY <1>2, <1>3, <1>4, <1>6, <1>7, <2>1, <2>2, SMTT(30) DEF Converging
<1>8. CASE ~Touches(e, p, x)
  <2>1. CASE docs[p.index][x] = Goal(p, x) /\ \A f \in Range(stream) : ~Touches(f, p, x)
    BY <1>3, <1>4, <1>5, <1>8, <2>1, Zenon DEF Converging
  <2>2. ASSUME NEW f \in Range(stream), NEW n \in DOMAIN stream,
               Decides(f, n, p, x), Result(f, p, x) = Goal(p, x)
        PROVE  Converging(p, x)'
    <3>1. Decides(f, n, p, x)'
      BY <1>2, <1>3, <1>4, <1>8, <2>2, SMTT(30) DEF Decides
    <3> QED
      BY <1>2, <1>3, <1>4, <1>5, <1>8, <2>2, <3>1, SMTT(30) DEF Converging
  <2> QED
    BY <1>1, <2>1, <2>2, Zenon DEF Converging
<1> QED
  BY <1>7, <1>8, Zenon

\* What the handler leaves in the document of resource u.
LEMMA HandleMeans ==
  ASSUME Handle, NEW e, e = Head(stream), NEW p \in Policies, NEW u \in UID
  PROVE  docs'[p.index][u] = IF Touches(e, p, u) THEN Result(e, p, u) ELSE docs[p.index][u]
<1>1. p.index \in Indexes
  BY Zenon DEF Indexes
<1>2. docs'[p.index][u] = IF Upserted(e, p, u)
                          THEN (CHOOSE o \in Ops(e).upserts : o.index = p.index /\ o.uid = u).doc
                          ELSE IF Deleted(e, p, u) THEN NoDoc ELSE docs[p.index][u]
  BY <1>1, Zenon DEF Handle, Upserted, Deleted
<1> QED
  BY <1>2, Zenon DEF Touches, Result

\* The handler takes the first event.
LEMMA HandleStep ==
  ASSUME MirrorInv, Handle
  PROVE  MirrorInv'
<1>1. PICK e : e = Head(stream)
  BY Zenon
<1>2. /\ stream \in Seq(Events) /\ stream # <<>> /\ e = stream[1] /\ stream' = Tail(stream)
      /\ UNCHANGED <<resources, multiTenant>>
  BY <1>1 DEF Handle, MirrorInv, Typed
<1>3. /\ stream' \in Seq(Events) /\ Len(stream) \in Nat /\ DOMAIN stream = 1 .. Len(stream)
      /\ DOMAIN stream' = 1 .. Len(stream) - 1
      /\ \A n \in DOMAIN stream' : stream'[n] = stream[n + 1]
  BY <1>2, HeadTailProperties, SMTT(30)
<1>4. Typed'
  BY <1>2, <1>3, Zenon DEF MirrorInv, Typed
<1>5. ASSUME NEW p \in Policies, NEW u \in UID
      PROVE  docs'[p.index][u] = IF Touches(e, p, u) THEN Result(e, p, u) ELSE docs[p.index][u]
  BY <1>1, HandleMeans, Zenon
<1>6. ASSUME NEW p \in Policies, NEW u \in UID, Converging(p, u)
      PROVE  Converging(p, u)'
  <2>1. \A f : (Touches(f, p, u)' <=> Touches(f, p, u)) /\ Result(f, p, u)' = Result(f, p, u)
    BY <1>2, OpsKept, Zenon
  <2>2. Goal(p, u)' = Goal(p, u)
    BY <1>2, Zenon DEF Goal, Desired, Wanted
  <2>3. Range(stream') \subseteq Range(stream) /\ e \in Range(stream)
    BY <1>2, <1>3, SMTT(30) DEF Range
  <2>4. CASE docs[p.index][u] = Goal(p, u) /\ \A f \in Range(stream) : ~Touches(f, p, u)
    BY <1>5, <2>1, <2>2, <2>3, <2>4, Zenon DEF Converging
  <2>5. ASSUME NEW f \in Range(stream), NEW n \in DOMAIN stream,
               Decides(f, n, p, u), Result(f, p, u) = Goal(p, u)
        PROVE  Converging(p, u)'
    <3>1. CASE n = 1
      <4>1. f = e /\ Touches(e, p, u)
        BY <1>2, <2>5, <3>1, Zenon DEF Decides
      <4>2. docs'[p.index][u] = Goal(p, u)
        BY <1>5, <2>5, <4>1, Zenon
      <4>3. ASSUME NEW g \in Range(stream')
            PROVE  ~Touches(g, p, u)
        <5>1. PICK m \in DOMAIN stream' : g = stream'[m]
          BY DEF Range
        <5>2. m + 1 \in DOMAIN stream /\ stream[m + 1] = g /\ m + 1 > 1 /\ g \in Range(stream)
          BY <1>3, <2>3, <5>1, SMTT(30)
        <5> QED
          BY <2>5, <3>1, <5>2, Zenon DEF Decides
      <4> QED
        BY <2>1, <2>2, <4>2, <4>3, Zenon DEF Converging
    <3>2. CASE n # 1
      <4>1. n - 1 \in DOMAIN stream' /\ stream'[n - 1] = f
        BY <1>3, <2>5, <3>2, SMTT(30) DEF Decides
      <4>2. f \in Range(stream')
        BY <4>1, Zenon DEF Range
      <4>3. ASSUME NEW g \in Range(stream'), NEW m \in DOMAIN stream', m > n - 1, stream'[m] = g
            PROVE  ~Touches(g, p, u)
        <5>1. m + 1 \in DOMAIN stream /\ stream[m + 1] = g /\ m + 1 > n /\ g \in Range(stream)
          BY <1>3, <2>3, <4>3, SMTT(30)
        <5> QED
          BY <2>5, <5>1, Zenon DEF Decides
      <4>4. Decides(f, n - 1, p, u)'
        BY <2>1, <2>5, <4>1, <4>3, Zenon DEF Decides
      <4> QED
        BY <2>1, <2>2, <2>5, <4>1, <4>2, <4>4, Zenon DEF Converging
    <3> QED
      BY <3>1, <3>2, Zenon
  <2> QED
    BY <1>6, <2>4, <2>5, Zenon DEF Converging
<1> QED
  BY <1>2, <1>4, <1>6 DEF MirrorInv

\* The start: nothing is stored, nothing is indexed.
LEMMA InitMirrorInv == Init => MirrorInv
<1> SUFFICES ASSUME Init PROVE MirrorInv
  OBVIOUS
<1>1. stream = <<>> /\ stream \in Seq(Events) /\ DOMAIN stream = {}
  BY DEF Init
<1>2. Range(stream) = {}
  BY <1>1 DEF Range
<1>3. \A u \in UID : resources[u] = Unborn
  BY DEF Init
<1>4. Typed
  BY <1>1, Zenon DEF Init, Typed, Unborn
<1>5. ASSUME NEW p \in Policies, NEW u \in UID
      PROVE  Converging(p, u)
  <2>1. docs[p.index][u] = NoDoc
    BY Zenon DEF Init, Indexes
  <2>2. Goal(p, u) = NoDoc
    BY <1>3 DEF Goal, Desired, Wanted, Unborn
  <2> QED
    BY <1>2, <2>1, <2>2, Zenon DEF Converging
<1> QED
  BY <1>4, <1>5 DEF MirrorInv

\* The part of a request that the type is about.
LEMMA TypeStep ==
  ASSUME Typed, NEW e \in Events, Audit(e), NEW u \in UID,
         \/ UNCHANGED resources
         \/ \E r \in Living \cup [life : {"unborn", "gone", "swept"}] : Store(u, r)
  PROVE  Typed' /\ \A x \in UID \ {u} : resources'[x] = resources[x]
<1>1. stream' \in Seq(Events)
  BY AppendProperties, Zenon DEF Typed, Audit
<1>2. resources' \in [UID -> Living \cup [life : {"unborn", "gone", "swept"}]]
  BY DEF Typed, Store
<1> QED
  BY <1>1, <1>2, Zenon DEF Typed, Store

\* A stored resource that is alive.
LEMMA AliveMeans ==
  ASSUME Typed, NEW u \in UID, resources[u].life \in {"live", "terminating"}
  PROVE  resources[u] \in Living
<1>1. resources[u] \in Living \/ resources[u] \in [life : {"unborn", "gone", "swept"}]
  BY Zenon DEF Typed
<1> QED
  BY <1>1

\* A creation.
LEMMA CreateStep ==
  ASSUME MirrorInv, NEW u \in UID, NEW version \in Versions, NEW kind \in Kinds, NEW state \in States,
         NEW finalizers \in BOOLEAN, NEW scope \in Scopes,
         Create(u, kind, state, finalizers, scope, version)
  PROVE  MirrorInv'
<1>1. PICK r : r = [life |-> "live", kind |-> kind, state |-> state, finalizers |-> finalizers,
                    scope |-> scope, via |-> version]
  BY Zenon
<1>2. PICK e : e = Event("create", scope, NoUID, Object(u, version, r))
  OBVIOUS
<1>3. Store(u, r) /\ Audit(e) /\ resources[u] = Unborn
  BY <1>1, <1>2 DEF Create
<1>4. r \in Living /\ r.via = version /\ r.scope = scope /\ NoUID \in AnyUID
  BY <1>1, Zenon DEF Living, AnyUID
<1>5. e \in Events
  BY <1>2, <1>4, ObjectFields, Zenon DEF Event, Events
<1>6. Typed' /\ \A x \in UID \ {u} : resources'[x] = resources[x]
  BY <1>3, <1>4, <1>5, TypeStep, Zenon DEF MirrorInv
<1>7. resources'[u] = r
  BY <1>3, Zenon DEF Store, MirrorInv, Typed
<1>8. \A p \in Policies : Goal(p, u)' = Desired(p, r)
  BY <1>3, <1>7, ZenonT(40) DEF Goal, Desired, Wanted, Audit
<1>9. \A p \in Policies : Goal(p, u) = NoDoc
  BY <1>3, SMTT(30) DEF Goal, Desired, Wanted, Unborn
<1>10. ASSUME NEW p \in Policies, NEW x \in UID
       PROVE  /\ x # u => ~Touches(e, p, x)
              /\ Touches(e, p, u) => Result(e, p, u) = Desired(p, r)
              /\ ~Touches(e, p, u) => Desired(p, r) = NoDoc
  BY <1>2, <1>4, WriteEvent, SMTT(30)
<1>11. resources[u].life # "swept"
  BY <1>3, SMTT(30) DEF Unborn
<1> QED
  BY <1>3, <1>5, <1>6, <1>8, <1>9, <1>10, <1>11, AuditStep, ZenonT(40) DEF Audit

\* An update.
LEMMA UpdateStep ==
  ASSUME MirrorInv, NEW u \in UID, NEW version \in Versions, NEW verb \in {"update", "patch"},
         NEW state \in States, Update(u, verb, state, version)
  PROVE  MirrorInv'
<1>1. PICK old : old = resources[u]
  OBVIOUS
<1>2. PICK r : r = [old EXCEPT !.state = state, !.via = version]
  OBVIOUS
<1>3. PICK e : e = Event(verb, r.scope, u, Object(u, version, r))
  OBVIOUS
<1>4. Store(u, r) /\ Audit(e) /\ old.life \in {"live", "terminating"}
  BY <1>1, <1>2, <1>3 DEF Update
<1>5. old \in Living
  BY <1>1, <1>4, AliveMeans, Zenon DEF MirrorInv
<1>6. /\ r \in Living /\ r.via = version /\ r.scope = old.scope /\ r.kind = old.kind /\ r.life = old.life
      /\ u \in AnyUID
  BY <1>2, <1>5, Zenon DEF Living, AnyUID
<1>7. e \in Events
  BY <1>3, <1>6, ObjectFields, Zenon DEF Event, Events, Living
<1>8. Typed' /\ \A x \in UID \ {u} : resources'[x] = resources[x]
  BY <1>4, <1>6, <1>7, TypeStep, Zenon DEF MirrorInv
<1>9. resources'[u] = r
  BY <1>4, Zenon DEF Store, MirrorInv, Typed
<1>10. \A p \in Policies : Goal(p, u)' = Desired(p, r) /\ Goal(p, u) = Desired(p, old)
  BY <1>1, <1>4, <1>9, ZenonT(40) DEF Goal, Desired, Wanted, Audit
<1>11. ASSUME NEW p \in Policies, NEW x \in UID
       PROVE  /\ x # u => ~Touches(e, p, x)
              /\ Touches(e, p, u) => Result(e, p, u) = Desired(p, r)
              /\ ~Touches(e, p, u) => Desired(p, r) = Desired(p, old)
  <2>1. /\ x # u => ~Touches(e, p, x)
        /\ Touches(e, p, u) => Result(e, p, u) = Desired(p, r)
        /\ ~Touches(e, p, u) => Desired(p, r) = NoDoc /\
             (\/ p.target.kind # r.kind
              \/ ~multiTenant /\ ExtractTenant(r.scope).type # "platform" /\ r.life = "live")
    BY <1>3, <1>6, WriteEvent, SMTT(30)
  <2>2. p.target.kind # r.kind => Desired(p, old) = NoDoc
    BY <1>6, Zenon DEF Desired, Wanted
  <2>3. ~multiTenant /\ ExtractTenant(r.scope).type # "platform" => Desired(p, old) = NoDoc
    BY <1>6, Zenon DEF Desired, Wanted
  <2> QED
    BY <2>1, <2>2, <2>3, Zenon
<1>12. resources[u].life # "swept"
  BY <1>1, <1>4, Zenon
<1> QED
  BY <1>4, <1>7, <1>8, <1>10, <1>11, <1>12, AuditStep, SMTT(30) DEF Audit

\* A deletion, with or without finalizers.
LEMMA DeleteStep ==
  ASSUME MirrorInv, NEW u \in UID, NEW version \in Versions,
         MarkDeleted(u, version) \/ \E answersStatus \in BOOLEAN : Remove(u, version, answersStatus)
  PROVE  MirrorInv'
<1>1. PICK old : old = resources[u]
  OBVIOUS
<1>2. old.life = "live"
  BY <1>1, Zenon DEF MarkDeleted, Remove
<1>3. old \in Living
  BY <1>1, <1>2, AliveMeans, Zenon DEF MirrorInv
<1>4. PICK r, q, obj :
        /\ Store(u, r) /\ Audit(Event("delete", old.scope, NoUID, obj))
        /\ q \in Living /\ q.kind = old.kind /\ q.scope = old.scope
        /\ obj \in {Object(u, version, q), Status(u)}
        /\ r.life \in {"terminating", "gone"} /\ r \in Living \cup [life : {"unborn", "gone", "swept"}]
  <2>1. CASE MarkDeleted(u, version)
    <3> DEFINE r == [old EXCEPT !.life = "terminating"]
    <3>1. r \in Living /\ r.kind = old.kind /\ r.scope = old.scope /\ r.life = "terminating"
      BY <1>3 DEF Living
    <3>2. Store(u, r) /\ Audit(Event("delete", r.scope, NoUID, Object(u, version, r)))
      BY <1>1, <2>1 DEF MarkDeleted
    <3> QED
      BY <3>1, <3>2, Zenon
  <2>2. ASSUME NEW answersStatus \in BOOLEAN, Remove(u, version, answersStatus)
        PROVE  \E obj \in {Object(u, version, old), Status(u)} :
                 /\ Store(u, [life |-> "gone"])
                 /\ Audit(Event("delete", old.scope, NoUID, obj))
    BY <1>1, <2>2, Zenon DEF Remove
  <2> QED
    BY <1>3, <2>1, <2>2, SMTT(30)
<1>5. PICK e : e = Event("delete", old.scope, NoUID, obj)
  BY Zenon
<1>6. Audit(e)
  BY <1>4, <1>5, Zenon
<1>7. e \in Events
  <2>1. u \in AnyUID /\ NoUID \in AnyUID /\ old.scope \in Scopes
    BY <1>3, Zenon DEF AnyUID, Living
  <2>2. Object(u, version, q) \in Answers
    BY <1>4, ObjectFields, Zenon
  <2>3. Status(u) \in Answers
    BY <2>1, StatusFields, Zenon
  <2>4. obj \in Answers
    BY <1>4, <2>2, <2>3, Zenon
  <2> QED
    BY <1>5, <2>1, <2>4, Zenon DEF Event, Events
<1>8. Typed' /\ \A x \in UID \ {u} : resources'[x] = resources[x]
  BY <1>4, <1>6, <1>7, TypeStep, Zenon DEF MirrorInv
<1>9. resources'[u] = r
  BY <1>4, Zenon DEF Store, MirrorInv, Typed
<1>10. \A p \in Policies : Goal(p, u)' = NoDoc /\ Goal(p, u) = Desired(p, old)
  BY <1>1, <1>4, <1>9, ZenonT(40) DEF Goal, Desired, Wanted
<1>11. ASSUME NEW p \in Policies, NEW x \in UID
       PROVE  /\ x # u => ~Touches(e, p, x)
              /\ Result(e, p, u) = NoDoc
              /\ ~Touches(e, p, u) => Desired(p, old) = NoDoc
  <2>1. /\ x # u => ~Touches(e, p, x)
        /\ Result(e, p, u) = NoDoc
        /\ ~Touches(e, p, u) => p.target.kind # old.kind
    BY <1>4, <1>5, DeleteEvent, SMTT(30)
  <2> QED
    BY <2>1, Zenon DEF Desired, Wanted
<1>12. resources[u].life # "swept"
  BY <1>1, <1>2
<1> QED
  BY <1>6, <1>7, <1>8, <1>10, <1>11, <1>12, AuditStep, Zenon DEF Audit

\* The last finalizer goes.
LEMMA RemoveFinalizerStep ==
  ASSUME MirrorInv, NEW u \in UID, NEW version \in Versions, NEW verb \in {"update", "patch"},
         RemoveFinalizer(u, verb, version)
  PROVE  MirrorInv'
<1>1. PICK old : old = resources[u]
  OBVIOUS
<1>2. PICK r : r = [old EXCEPT !.via = version]
  BY Zenon
<1>3. PICK e : e = Event(verb, old.scope, u, Object(u, version, old))
  OBVIOUS
<1>4. Store(u, [life |-> "gone"]) /\ Audit(e) /\ old.life = "terminating"
  BY <1>1, <1>3, Zenon DEF RemoveFinalizer
<1>5. old \in Living
  BY <1>1, <1>4, AliveMeans, Zenon DEF MirrorInv
<1>6. /\ r \in Living /\ r.via = version /\ r.scope = old.scope /\ r.life = "terminating" /\ u \in AnyUID
      /\ e = Event(verb, r.scope, u, Object(u, version, r))
  BY <1>2, <1>3, <1>4, <1>5, Zenon DEF Living, AnyUID, Object
<1>7. e \in Events
  BY <1>3, <1>5, <1>6, ObjectFields, SMTT(30) DEF Event, Events, Living
<1>8. Typed' /\ \A x \in UID \ {u} : resources'[x] = resources[x]
  BY <1>4, <1>7, TypeStep, Zenon DEF MirrorInv
<1>9. resources'[u] = [life |-> "gone"]
  BY <1>4, Zenon DEF Store, MirrorInv, Typed
<1>10. \A p \in Policies : Goal(p, u)' = NoDoc /\ Goal(p, u) = NoDoc /\ Desired(p, r) = NoDoc
  BY <1>1, <1>4, <1>6, <1>9, SMTT(30) DEF Goal, Desired, Wanted
<1>11. ASSUME NEW p \in Policies, NEW x \in UID
       PROVE  /\ x # u => ~Touches(e, p, x)
              /\ Touches(e, p, u) => Result(e, p, u) = NoDoc
  BY <1>6, <1>10, WriteEvent, SMTT(30)
<1>12. resources[u].life # "swept"
  BY <1>1, <1>4
<1> QED
  BY <1>4, <1>7, <1>8, <1>10, <1>11, <1>12, AuditStep, Zenon DEF Audit

\* The requests whose events touch nothing.
LEMMA OtherStep ==
  ASSUME MirrorInv, NEW u \in UID, NEW version \in Versions,
         \/ RemoveCollection(u, version)
         \/ \E verb \in {"create", "update", "delete"} : Refused(u, verb)
         \/ Read(u, version)
  PROVE  MirrorInv'
<1>1. PICK old : old = resources[u]
  OBVIOUS
<1>2. old.life = "live"
  BY <1>1, Zenon DEF RemoveCollection, Refused, Read
<1>3. old \in Living
  BY <1>1, <1>2, AliveMeans, Zenon DEF MirrorInv
<1>4. u \in AnyUID /\ NoUID \in AnyUID /\ old.scope \in Scopes
  BY <1>3, Zenon DEF AnyUID, Living
<1>5. PICK e \in Events :
        /\ Audit(e)
        /\ Store(u, [life |-> "swept"]) \/ UNCHANGED resources
        /\ \/ e.verb \in {"get", "deletecollection"}
           \/ /\ e.obj = Status(NoUID) /\ e.verb \in {"create", "update", "delete"}
              /\ e.verb = "delete" => e.ref.uid = NoUID
  <2>1. CASE RemoveCollection(u, version)
    <3> DEFINE obj == [Object(u, version, old) EXCEPT !.uid = NoUID, !.kind = "List"]
               e == Event("deletecollection", old.scope, NoUID, obj)
    <3>1. obj \in Answers
      <4>1. Object(u, version, old) \in Answers
        BY <1>3, ObjectFields, Zenon
      <4> QED
        BY <1>4, <4>1, Zenon DEF Answers
    <3>2. e \in Events /\ e.verb = "deletecollection"
      BY <1>4, <3>1, Zenon DEF Event, Events
    <3>3. Audit(e) /\ Store(u, [life |-> "swept"])
      BY <1>1, <2>1, Zenon DEF RemoveCollection
    <3> QED
      BY <3>2, <3>3, Zenon
  <2>2. ASSUME NEW verb \in {"create", "update", "delete"}, Refused(u, verb)
        PROVE  \E e \in Events : /\ Audit(e) /\ UNCHANGED resources
                                 /\ e.obj = Status(NoUID) /\ e.verb \in {"create", "update", "delete"}
                                 /\ e.verb = "delete" => e.ref.uid = NoUID
    <3> DEFINE ref == IF verb = "delete" THEN NoUID ELSE u
               e == Event(verb, old.scope, ref, Status(NoUID))
    <3>1. ref \in AnyUID /\ (verb = "delete" => ref = NoUID)
      BY <1>4, Zenon
    <3>2. Status(NoUID) \in Answers
      BY <1>4, StatusFields, Zenon
    <3>3. Audit(e) /\ UNCHANGED resources
      BY <1>1, <2>2, Zenon DEF Refused
    <3> HIDE DEF ref
    <3>4. e \in Events /\ e.verb = verb /\ e.obj = Status(NoUID) /\ e.ref.uid = ref
      BY <1>4, <3>1, <3>2, Zenon DEF Event, Events
    <3> QED
      BY <3>1, <3>3, <3>4, ZenonT(40)
  <2>3. CASE Read(u, version)
    <3>1. PICK obj \in {NoObject, Object(u, version, old)} :
            Audit(Event("get", old.scope, u, obj)) /\ UNCHANGED resources
      BY <1>1, <2>3, Zenon DEF Read
    <3>2. obj \in Answers \cup {NoObject}
      BY <1>3, ObjectFields, SMTT(30)
    <3>3. Event("get", old.scope, u, obj) \in Events /\ Event("get", old.scope, u, obj).verb = "get"
      BY <1>4, <3>2, Zenon DEF Event, Events
    <3> QED
      BY <3>1, <3>3, Zenon
  <2> QED
    BY <2>1, <2>2, <2>3, Zenon
<1>6. Typed' /\ \A x \in UID \ {u} : resources'[x] = resources[x]
  BY <1>5, TypeStep, Zenon DEF MirrorInv
<1>7. \A p \in Policies, x \in UID : ~Touches(e, p, x)
  BY <1>5, OtherEvent, Zenon
<1>8. resources'[u].life # "swept" => UNCHANGED resources
  BY <1>5, SMTT(30) DEF Store, MirrorInv, Typed
<1>9. ASSUME UNCHANGED resources, NEW p \in Policies
      PROVE  Goal(p, u)' = Goal(p, u)
  BY <1>5, <1>9, Zenon DEF Goal, Desired, Wanted, Audit
<1>10. resources[u].life # "swept"
  BY <1>1, <1>2, Zenon
<1> QED
  BY <1>5, <1>6, <1>7, <1>8, <1>9, <1>10, AuditStep, Zenon DEF Audit

\* A step that changes nothing.
LEMMA StutterStep ==
  ASSUME MirrorInv, UNCHANGED vars
  PROVE  MirrorInv'
<1>1. UNCHANGED <<resources, stream, docs, multiTenant>>
  BY Zenon DEF vars
<1>2. Typed'
  BY <1>1 DEF MirrorInv, Typed
<1>3. ASSUME NEW p \in Policies, NEW u \in UID, Converging(p, u)
      PROVE  Converging(p, u)'
  <2>1. \A e : (Touches(e, p, u)' <=> Touches(e, p, u)) /\ Result(e, p, u)' = Result(e, p, u)
    BY <1>1, OpsKept
  <2>2. Goal(p, u)' = Goal(p, u)
    BY <1>1 DEF Goal, Desired, Wanted
  <2> QED
    BY <1>1, <1>3, <2>1, <2>2 DEF Converging, Decides
<1> QED
  BY <1>1, <1>2, <1>3, Zenon DEF MirrorInv

-----------------------------------------------------------------------------
(* The theorems. *)

\* For every resource that no deletecollection swept away, and every policy, the document is
\* right or the last of the events in the stream that touches it will make it so.
THEOREM MirrorInvariance == Spec => []MirrorInv
<1>1. ASSUME MirrorInv, [Next]_vars
      PROVE  MirrorInv'
  <2>1. CASE Handle
    BY <1>1, <2>1, HandleStep
  <2>2. ASSUME NEW u \in UID, NEW version \in Versions, Request(u, version)
        PROVE  MirrorInv'
    BY <1>1, <2>2, CreateStep, UpdateStep, DeleteStep, RemoveFinalizerStep, OtherStep DEF Request
  <2>3. CASE UNCHANGED vars
    BY <1>1, <2>3, StutterStep
  <2> QED
    BY <1>1, <2>1, <2>2, <2>3 DEF Next, Done
<1> QED
  BY InitMirrorInv, <1>1, PTL DEF Spec

\* Once its events are handled, every index mirrors the resources (Mirror).
THEOREM AlwaysMirrors == Spec => []Mirror
<1>1. MirrorInv => Mirror
  <2> SUFFICES ASSUME MirrorInv, stream = <<>>, NEW p \in Policies, NEW u \in UID,
                      resources[u].life # "swept"
               PROVE  docs[p.index][u] = Goal(p, u)
    BY DEF Mirror, Goal
  <2>1. DOMAIN stream = {}
    OBVIOUS
  <2> QED
    BY <2>1 DEF MirrorInv, Converging
<1> QED
  BY MirrorInvariance, <1>1, PTL

\* A document leaves an index only for the reasons that are documented (LeavesOnlyUnmatched).
THEOREM NeverLeavesOtherwise == Spec => LeavesOnlyUnmatched
<1> DEFINE Excused(e, p) == \/ e.verb = "delete" \/ e.obj.deleting
                            \/ e.obj.version # p.target.version
                            \/ \A c \in p.conds : e.obj.state \notin c.holds
           A == \A p \in Policies, u \in UID :
                  (docs[p.index][u] # NoDoc /\ docs'[p.index][u] = NoDoc) =>
                    LET event == Head(stream)
                    IN \/ event.verb = "delete" \/ event.obj.deleting
                       \/ event.obj.version # p.target.version
                       \/ \A c \in p.conds : event.obj.state \notin c.holds
<1>1. ASSUME NEW e \in Events, NEW p \in Policies, NEW u \in UID, Touches(e, p, u),
             Result(e, p, u) = NoDoc
      PROVE  Excused(e, p)
  <2>1. CASE Ops(e) = NoOps
    BY <1>1, <2>1, NoOpsMeans
  <2>2. CASE e.verb = "delete" \/ e.obj.deleting
    BY <2>2
  <2>3. CASE Ops(e) # NoOps /\ e.verb # "delete" /\ ~e.obj.deleting
    <3>1. /\ Ops(e) = EvaluateOps(e) /\ ResolveUID(e) # NoUID /\ e.obj # NoObject
          /\ e.obj \in Answers /\ e.scope \in Scopes
      BY <2>3 DEF Ops, Events
    <3>2. ResolveUID(e) \in UID
      BY <3>1 DEF ResolveUID, Events, AnyUID, Answers
    <3>3. e.obj.kind # "unknown" /\ e.obj.state \in States \cup {"none"}
      BY <3>1, KindsPlain DEF Answers
    <3>4. Transform(e.obj, ExtractTenant(e.scope)) # NoDoc
      BY <3>1, <3>3, NoDocPlain DEF Transform
    <3>5. Deleted(e, p, u) /\ ~Upserted(e, p, u)
      BY <1>1, <3>1, <3>2, <3>4, EvaluateOpsMeans DEF Touches
    <3>6. ~Evaluate(p, e.obj) /\ TargetsResource(p, e.obj.group, e.obj.kind)
      BY <3>1, <3>2, <3>5, EvaluateOpsMeans
    <3> QED
      BY <3>3, <3>6, EvaluateMeans DEF TargetsResource
  <2> QED
    BY <2>1, <2>2, <2>3
<1>2. MirrorInv /\ [Next]_vars => [A]_vars
  <2> SUFFICES ASSUME MirrorInv, [Next]_vars, NEW p \in Policies, NEW u \in UID,
                      docs[p.index][u] # NoDoc, docs'[p.index][u] = NoDoc
               PROVE  Excused(Head(stream), p)
    BY Zenon
  <2>1. Handle
    <3>1. ASSUME NEW v \in UID, NEW version \in Versions, Request(v, version)
          PROVE  docs' = docs
      BY <3>1 DEF Request, Create, Update, MarkDeleted, RemoveFinalizer, Remove,
                  RemoveCollection, Refused, Read, Audit
    <3>2. docs' # docs
      OBVIOUS
    <3> QED
      BY <3>1, <3>2 DEF Next, Done, vars
  <2>2. PICK e : e = Head(stream)
    OBVIOUS
  <2>3. e \in Events
    BY <2>1, <2>2, HeadTailProperties DEF Handle, MirrorInv, Typed
  <2>4. Touches(e, p, u) /\ Result(e, p, u) = NoDoc
    BY <2>1, <2>2, HandleMeans
  <2> QED
    BY <1>1, <2>2, <2>3, <2>4
<1> QED
  BY MirrorInvariance, <1>2, PTL DEF Spec, LeavesOnlyUnmatched
=============================================================================
