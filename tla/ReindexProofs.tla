---------------------------- MODULE ReindexProofs ---------------------------
(***************************************************************************)
(* When everything is done the index is what the newest spec wants, for    *)
(* any resources and specs, and any number of edits and writes.            *)
(***************************************************************************)
EXTENDS Reindex, SequenceTheorems, TLAPS

\* The values of the variables.
Docs == [state : States, tenant : {Platform}] \cup {NoDoc}
Objects == [group : {Target.group}, version : {Target.version}, kind : {Target.kind}, uid : UID,
            details : {NoUID}, state : States, deleting : BOOLEAN]
Operations == [uid : UID, doc : Docs]
Events == [verb : {"update", "delete"}, obj : Objects]
Messages == [hash : Specs, gen : Nat, obj : Objects]
Policies == [conds : Specs, gen : Nat, ready : BOOLEAN, hash : SUBSET Specs, index : {NoIndex, Index}]

\* The type of the state.  The controller works on a spec the policy has or had, and has a
\* list only while it publishes.
Typed ==
  /\ res \in [UID -> [life : {"live", "terminating", "gone"}, state : States]]
  /\ pol \in Policies /\ view \in [Caches -> Policies \cup {Absent}]
  /\ ctl \in [pc : {"idle", "list", "publish"}, conds : Specs \cup {{}}, gen : Nat, todo : SUBSET Objects]
  /\ ctl.pc # "idle" => ctl.conds \in Specs /\ ctl.gen <= pol.gen /\ (ctl.gen = pol.gen => ctl.conds = pol.conds)
  /\ ctl.pc # "publish" => ctl.todo = {}
  /\ audit \in Seq(Events) /\ reindex \subseteq Messages /\ pend \in [Caches -> Seq(Operations)]
  /\ docs \in [UID -> Docs]

\* What a spec makes of a state.
Matching(conds, state) == conds = {} \/ \E c \in conds : state \in c.holds
Document(conds, state) == IF Matching(conds, state) THEN [state |-> state, tenant |-> Platform] ELSE NoDoc

\* The document the newest spec wants.
Goal(u) == IF res[u].life = "live" THEN Document(pol.conds, res[u].state) ELSE NoDoc

\* Once the operations of s are applied to document d of resource u, it is g.
EndsIn(s, d, u, g) ==
  \/ d = g /\ \A n \in DOMAIN s : s[n].uid # u
  \/ \E n \in DOMAIN s : s[n].uid = u /\ s[n].doc = g /\ \A m \in DOMAIN s : m > n => s[m].uid # u

Ends(c, u) == EndsIn(pend[c], docs[u], u, Goal(u))

\* No operation of s is on resource u.
NoneIn(s, u) == \A n \in DOMAIN s : s[n].uid # u

\* Event e is the last one of resource u in s.
LastIn(s, u, e) == \E n \in DOMAIN s : s[n] = e /\ \A m \in DOMAIN s : m > n => s[m].obj.uid # u

\* The audit event that tells of a resource as it is.
RightEvent(u) == [verb |-> IF res[u].life = "live" THEN "update" ELSE "delete", obj |-> Object(u)]

NoEvent(u) == \A n \in DOMAIN audit : audit[n].obj.uid # u
NoAuditOp(u) == NoneIn(pend["audit"], u)
Unwritten(u) == NoEvent(u) /\ NoAuditOp(u)

Fresh(obj, u) == res[u].life # "gone" /\ obj = Object(u)

\* The controller has no old copy of the resource.
ListedFresh(u) == \A obj \in ctl.todo : obj.uid = u => Fresh(obj, u)

\* A re-index message with an old copy is refused under the spec the cache has, and would be
\* under the newest.
StaleRefused(u) ==
  \A m \in reindex : m.obj.uid = u /\ ~Fresh(m.obj, u) =>
    /\ ~m.obj.deleting /\ m.hash # pol.conds
    /\ view["reindex"] = Absent \/ view["reindex"].conds # m.hash

\* While the audit path has something about the resource, all else is calm, and the last
\* that it has is right.
AuditDecides(u) ==
  \/ Unwritten(u)
  \/ Calm /\ (LastIn(audit, u, RightEvent(u)) \/ (NoEvent(u) /\ Ends("audit", u)))

\* A pass under the newest spec is to come, or is about to list.
Awaited == pol.hash # {pol.conds} /\ (ctl.pc \in {"idle", "list"} \/ ctl.gen # pol.gen)

\* The pass under the newest spec is about to publish the resource, or has.
Listed(u) == ctl.pc = "publish" /\ ctl.gen = pol.gen /\ Object(u) \in ctl.todo
Sent(u) == \E m \in reindex : m.hash = pol.conds /\ m.obj = Object(u)

\* What the re-index consumer accepts from now on is right.
UpToDate(u) ==
  res[u].life # "live" \/ (view["reindex"] # Absent /\ view["reindex"].conds = pol.conds)

\* Otherwise the re-index path makes it right.
ReindexDecides(u) ==
  \/ ~Unwritten(u)
  \/ UpToDate(u) /\ Ends("reindex", u)
  \/ res[u].life # "gone" /\ (Awaited \/ Listed(u) \/ Sent(u))

Reasoned(u) == ListedFresh(u) /\ StaleRefused(u) /\ AuditDecides(u) /\ ReindexDecides(u)

ReindexInv == Typed /\ \A u \in UID \ raced : Reasoned(u)

-----------------------------------------------------------------------------
(* Operations and events in order. *)

\* An operation that is added decides for its own resource and for no other.
LEMMA EndsAppend ==
  ASSUME NEW s \in Seq(Operations), NEW o \in Operations, NEW d, NEW u, NEW g,
         (o.uid # u /\ EndsIn(s, d, u, g)) \/ (o.uid = u /\ o.doc = g)
  PROVE  EndsIn(Append(s, o), d, u, g)
<1>1. PICK t : t = Append(s, o)
  BY Zenon
<1>2. PICK k \in Nat : k = Len(s)
  OBVIOUS
<1>3. /\ DOMAIN t = 1 .. k + 1 /\ DOMAIN s = 1 .. k /\ t[k + 1] = o
      /\ \A n \in 1 .. k : t[n] = s[n]
  BY <1>1, <1>2
<1>4. CASE o.uid = u /\ o.doc = g
  BY <1>1, <1>2, <1>3, <1>4 DEF EndsIn
<1>5. CASE o.uid # u /\ d = g /\ \A n \in DOMAIN s : s[n].uid # u
  BY <1>1, <1>2, <1>3, <1>5 DEF EndsIn
<1>6. CASE o.uid # u /\ \E n \in DOMAIN s : s[n].uid = u /\ s[n].doc = g /\ \A m \in DOMAIN s : m > n => s[m].uid # u
  <2>1. PICK n \in 1 .. k : s[n].uid = u /\ s[n].doc = g /\ \A m \in 1 .. k : m > n => s[m].uid # u
    BY <1>3, <1>6
  <2>2. n \in 1 .. k + 1 /\ t[n].uid = u /\ t[n].doc = g
    BY <1>2, <1>3, <2>1
  <2>3. \A m \in 1 .. k + 1 : m > n => t[m].uid # u
    BY <1>2, <1>3, <1>6, <2>1
  <2> QED
    BY <1>1, <1>3, <2>2, <2>3, ZenonT(40) DEF EndsIn
<1> QED
  BY <1>4, <1>5, <1>6 DEF EndsIn

\* Applying the first operation does not change where a document ends.
LEMMA EndsFlush ==
  ASSUME NEW s \in Seq(Operations), s # <<>>, NEW d, NEW e, NEW u, NEW g, EndsIn(s, d, u, g),
         e = IF Head(s).uid = u THEN Head(s).doc ELSE d
  PROVE  EndsIn(Tail(s), e, u, g)
<1>1. PICK t : t = Tail(s)
  BY Zenon
<1>2. PICK k \in Nat : k + 1 = Len(s)
  <2>1. Len(s) \in Nat /\ Len(s) # 0
    OBVIOUS
  <2>2. Len(s) - 1 \in Nat /\ Len(s) - 1 + 1 = Len(s)
    BY <2>1
  <2> QED
    BY <2>2, Zenon
<1>3. /\ DOMAIN s = 1 .. k + 1 /\ DOMAIN t = 1 .. k /\ Head(s) = s[1]
      /\ \A n \in 1 .. k : t[n] = s[n + 1]
  BY <1>1, <1>2
<1>4. CASE d = g /\ \A n \in DOMAIN s : s[n].uid # u
  <2>1. e = d /\ \A n \in 1 .. k : t[n].uid # u
    BY <1>2, <1>3, <1>4, SMTT(30)
  <2> QED
    BY <1>1, <1>3, <1>4, <2>1 DEF EndsIn
<1>5. CASE \E n \in DOMAIN s : s[n].uid = u /\ s[n].doc = g /\ \A m \in DOMAIN s : m > n => s[m].uid # u
  <2>1. PICK n \in 1 .. k + 1 : s[n].uid = u /\ s[n].doc = g /\ \A m \in 1 .. k + 1 : m > n => s[m].uid # u
    BY <1>3, <1>5, Zenon
  <2>2. CASE n = 1
    <3>1. e = g
      BY <1>3, <2>1, <2>2
    <3>2. \A m \in 1 .. k : t[m].uid # u
      BY <1>2, <1>3, <2>1, <2>2
    <3> QED
      BY <1>1, <1>3, <3>1, <3>2 DEF EndsIn
  <2>3. CASE n # 1
    <3>1. PICK j \in 1 .. k : j + 1 = n
      <4>1. n - 1 \in 1 .. k /\ n - 1 + 1 = n
        BY <1>2, <2>1, <2>3
      <4> QED
        BY <4>1
    <3>2. t[j].uid = u /\ t[j].doc = g
      BY <1>3, <2>1, <3>1
    <3>3. \A m \in 1 .. k : m > j => t[m].uid # u
      BY <1>2, <1>3, <2>1, <3>1
    <3> QED
      BY <1>1, <1>3, <3>2, <3>3, Zenon DEF EndsIn
  <2> QED
    BY <2>2, <2>3
<1> QED
  BY <1>4, <1>5 DEF EndsIn

\* An event that is added is the last of its resource, and of no other.
LEMMA LastAppend ==
  ASSUME NEW s \in Seq(Events), NEW o \in Events, NEW u, NEW e, (o.obj.uid # u /\ LastIn(s, u, e)) \/ o = e
  PROVE  LastIn(Append(s, o), u, e)
<1>1. PICK t : t = Append(s, o)
  BY Zenon
<1>2. PICK k \in Nat : k = Len(s)
  OBVIOUS
<1>3. /\ DOMAIN t = 1 .. k + 1 /\ DOMAIN s = 1 .. k /\ t[k + 1] = o
      /\ \A n \in 1 .. k : t[n] = s[n]
  BY <1>1, <1>2
<1>4. CASE o = e
  BY <1>1, <1>2, <1>3, <1>4 DEF LastIn
<1>5. CASE o.obj.uid # u /\ LastIn(s, u, e)
  <2>1. PICK n \in 1 .. k : s[n] = e /\ \A m \in 1 .. k : m > n => s[m].obj.uid # u
    BY <1>3, <1>5 DEF LastIn
  <2>2. n \in 1 .. k + 1 /\ t[n] = e
    BY <1>2, <1>3, <2>1
  <2>3. \A m \in 1 .. k + 1 : m > n => t[m].obj.uid # u
    BY <1>2, <1>3, <1>5, <2>1, SMTT(30)
  <2> QED
    BY <1>1, <1>3, <2>2, <2>3 DEF LastIn
<1> QED
  BY <1>4, <1>5

\* Taking the first event away leaves the last one of a resource, or there are no more.
LEMMA LastTail ==
  ASSUME NEW s \in Seq(Events), s # <<>>, NEW u, NEW e, LastIn(s, u, e)
  PROVE  LastIn(Tail(s), u, e) \/ (Head(s) = e /\ \A n \in DOMAIN Tail(s) : Tail(s)[n].obj.uid # u)
<1>1. PICK t : t = Tail(s)
  BY Zenon
<1>2. PICK k \in Nat : k + 1 = Len(s)
  <2>1. Len(s) \in Nat /\ Len(s) # 0
    OBVIOUS
  <2>2. Len(s) - 1 \in Nat /\ Len(s) - 1 + 1 = Len(s)
    BY <2>1
  <2> QED
    BY <2>2, Zenon
<1>3. /\ DOMAIN s = 1 .. k + 1 /\ DOMAIN t = 1 .. k /\ Head(s) = s[1]
      /\ \A n \in 1 .. k : t[n] = s[n + 1]
  BY <1>1, <1>2
<1>4. PICK n \in 1 .. k + 1 : s[n] = e /\ \A m \in 1 .. k + 1 : m > n => s[m].obj.uid # u
  BY <1>3 DEF LastIn
<1>5. CASE n = 1
  <2>1. \A m \in 1 .. k : t[m].obj.uid # u
    BY <1>2, <1>3, <1>4, <1>5
  <2> QED
    BY <1>1, <1>3, <1>4, <1>5, <2>1
<1>6. CASE n # 1
  <2>1. PICK j \in 1 .. k : j + 1 = n
    <3>1. n - 1 \in 1 .. k /\ n - 1 + 1 = n
      BY <1>2, <1>4, <1>6
    <3> QED
      BY <3>1
  <2>2. t[j] = e
    BY <1>3, <1>4, <2>1
  <2>3. \A m \in 1 .. k : m > j => t[m].obj.uid # u
    BY <1>2, <1>3, <1>4, <2>1
  <2> QED
    BY <1>1, <1>3, <2>2, <2>3, Zenon DEF LastIn
<1> QED
  BY <1>5, <1>6

-----------------------------------------------------------------------------
(* What the operators compute. *)

\* An evaluation is a match of one of the conditions, if there are any.
LEMMA EvaluateMeans ==
  ASSUME NEW conds \in Specs, NEW i, NEW obj \in Objects
  PROVE  Evaluate([target |-> Target, conds |-> conds, index |-> i], obj) <=> Matching(conds, obj.state)
  BY SpecsCompile DEF Evaluate, Compile, Objects, Matching

\* What an upsert and a delete are.
LEMMA OpsMean ==
  ASSUME NEW obj \in Objects
  PROVE  /\ Upsert(obj) \in Operations /\ Upsert(obj).uid = obj.uid
         /\ Upsert(obj).doc = [state |-> obj.state, tenant |-> Platform]
         /\ Delete(obj) \in Operations /\ Delete(obj).uid = obj.uid /\ Delete(obj).doc = NoDoc
  BY DEF Upsert, Delete, Transform, Objects, Operations, Docs

\* An accepted re-index message writes what the cached spec, which is the message's, makes of
\* the copy it carries.
LEMMA ReindexOpMeans ==
  ASSUME Typed, NEW m \in reindex, ReindexOp(m) # Absent
  PROVE  /\ ReindexOp(m) \in Operations /\ ReindexOp(m).uid = m.obj.uid
         /\ \/ m.obj.deleting /\ ReindexOp(m).doc = NoDoc
            \/ /\ ~m.obj.deleting /\ view["reindex"] # Absent /\ view["reindex"].conds = m.hash
               /\ ReindexOp(m).doc = Document(m.hash, m.obj.state)
<1>1. m.obj \in Objects /\ m.hash \in Specs
  BY DEF Typed, Messages
<1>2. CASE m.obj.deleting
  BY <1>1, <1>2, OpsMean, Zenon DEF ReindexOp
<1>3. CASE ~m.obj.deleting
  <2>1. Cached("reindex") # Absent /\ view["reindex"].conds = m.hash
    BY <1>3 DEF ReindexOp
  <2>2. /\ view["reindex"] # Absent
        /\ Cached("reindex") = [target |-> Target, conds |-> m.hash, index |-> view["reindex"].index]
    BY <2>1 DEF Cached
  <2>3. Evaluate(Cached("reindex"), m.obj) <=> Matching(m.hash, m.obj.state)
    BY <1>1, <2>2, EvaluateMeans
  <2>4. ReindexOp(m) = IF Matching(m.hash, m.obj.state) THEN Upsert(m.obj) ELSE Delete(m.obj)
    BY <1>3, <2>1, <2>3 DEF ReindexOp
  <2> QED
    BY <1>1, <1>3, <2>1, <2>2, <2>4, OpsMean DEF Document
<1> QED
  BY <1>2, <1>3

\* The copy of a resource as it is.
LEMMA ObjectMeans ==
  ASSUME Typed, NEW u \in UID
  PROVE  /\ Object(u) \in Objects /\ Object(u).uid = u /\ Object(u).state = res[u].state
         /\ Object(u).deleting <=> res[u].life = "terminating"
         /\ RightEvent(u) \in Events /\ RightEvent(u).obj = Object(u)
  BY Zenon DEF Typed, Object, Objects, RightEvent, Events

\* A goal depends on the resource and the newest spec only.
LEMMA GoalKept ==
  ASSUME NEW u, res'[u] = res[u]
  PROVE  /\ Object(u)' = Object(u) /\ RightEvent(u)' = RightEvent(u)
         /\ \A obj : Fresh(obj, u)' <=> Fresh(obj, u)
         /\ pol'.conds = pol.conds \/ res[u].life # "live" => Goal(u)' = Goal(u)
  BY DEF Object, RightEvent, Fresh, Goal, Document, Matching

\* Where a document ends depends on its operations, itself and the goal.
LEMMA EndsKept ==
  ASSUME NEW u, NEW c, pend'[c] = pend[c], docs'[u] = docs[u], Goal(u)' = Goal(u)
  PROVE  Ends(c, u)' <=> Ends(c, u)
  BY DEF Ends, EndsIn

\* Where everything is calm no re-index message is accepted.
LEMMA CalmRefuses ==
  ASSUME Typed, Calm, NEW m \in reindex
  PROVE  ReindexOp(m) = Absent
  BY ReindexOpMeans DEF Calm, ReindexDrained, Caches

\* A stored policy is not nothing.
LEMMA PolicyThere ==
  ASSUME NEW p \in Policies PROVE p # Absent
  BY AbsentPlain, Zenon DEF Policies, Index

\* A step of the controller or an informer, which is taken only where not all is calm, leaves the
\* audit path alone; it takes each resource towards the index.
LEMMA ControlStep ==
  ASSUME ReindexInv, ~Calm, UNCHANGED <<res, audit, pend, docs>>, pol'.conds = pol.conds,
         NEW u \in UID \ raced,
         \A obj \in ctl'.todo : obj.uid = u => obj \in ctl.todo \/ Fresh(obj, u),
         \A m \in reindex' : m \in reindex \/ m.obj.uid # u \/ Fresh(m.obj, u),
         view'["reindex"] = view["reindex"] \/ (view'["reindex"] # Absent /\ view'["reindex"].conds = pol.conds),
         res[u].life # "gone" /\ Awaited => Awaited' \/ Listed(u)',
         res[u].life # "gone" /\ Listed(u) => Listed(u)' \/ Sent(u)',
         Sent(u) => Sent(u)'
  PROVE  Reasoned(u)'
<1>1. /\ Object(u)' = Object(u) /\ Goal(u)' = Goal(u) /\ \A obj : Fresh(obj, u)' <=> Fresh(obj, u)
  BY GoalKept, Zenon
<1>2. Reasoned(u)
  BY DEF ReindexInv
<1>3. Unwritten(u) /\ Unwritten(u)'
  BY <1>2, ZenonT(40) DEF Reasoned, AuditDecides, Unwritten, NoEvent, NoAuditOp, NoneIn
<1>4. ListedFresh(u)'
  BY <1>1, <1>2 DEF Reasoned, ListedFresh, Fresh, Object
<1>5. StaleRefused(u)'
  <2> SUFFICES ASSUME NEW m \in reindex', m.obj.uid = u, ~Fresh(m.obj, u)
               PROVE  /\ ~m.obj.deleting /\ m.hash # pol'.conds
                      /\ view'["reindex"] = Absent \/ view'["reindex"].conds # m.hash
    BY <1>1 DEF StaleRefused, Fresh, Object
  <2> QED
    BY <1>2, ZenonT(40) DEF Reasoned, StaleRefused
<1>6. Ends("reindex", u)' <=> Ends("reindex", u)
  BY <1>1, EndsKept
<1>7. UpToDate(u) => UpToDate(u)'
  BY DEF UpToDate
<1>8. ReindexDecides(u)'
  BY <1>2, <1>3, <1>6, <1>7 DEF Reasoned, ReindexDecides
<1> QED
  BY <1>3, <1>4, <1>5, <1>8 DEF Reasoned, AuditDecides

\* The controller's steps.
LEMMA ControllerStep ==
  ASSUME ReindexInv,
         StartReindex \/ List \/ FinishReindex \/ ConfirmReady \/ \E obj \in ctl.todo : PublishResource(obj) \/ PublishResourceFails(obj)
  PROVE  ReindexInv'
<1> USE DEF ReindexInv
<1>1. CASE StartReindex
  <2>1. /\ ctl.pc = "idle" /\ pol.hash # {pol.conds} /\ UNCHANGED <<res, view, audit, reindex, pend, docs, raced>>
        /\ pol' = [pol EXCEPT !.ready = FALSE, !.index = Index]
        /\ ctl' = [pc |-> "list", conds |-> pol.conds, gen |-> pol.gen, todo |-> {}]
    BY <1>1 DEF StartReindex, NeedsReindexing
  <2>2. /\ pol' \in Policies /\ pol'.conds = pol.conds /\ pol'.gen = pol.gen /\ pol'.hash = pol.hash
    BY <2>1, Zenon DEF Typed, Policies
  <2>3. Typed'
    BY <2>1, <2>2 DEF Typed, Policies
  <2>4. ~Calm
    BY <2>1 DEF Calm, Published
  <2>5. Awaited'
    BY <2>1, <2>2 DEF Awaited
  <2>6. ASSUME NEW u \in UID \ raced PROVE Reasoned(u)'
    <3>1. ~Listed(u)
      BY <2>1 DEF Listed
    <3>2. Sent(u) => Sent(u)'
      BY <2>1, <2>2 DEF Sent, Object
    <3> QED
      BY <2>1, <2>2, <2>4, <2>5, <3>1, <3>2, ControlStep
  <2> QED
    BY <2>1, <2>3, <2>6
<1>2. CASE List
  <2> DEFINE todo == {Object(u) : u \in {v \in UID : res[v].life # "gone"}}
  <2>1. /\ ctl.pc = "list" /\ UNCHANGED <<res, pol, view, audit, reindex, pend, docs, raced>>
        /\ ctl' = [ctl EXCEPT !.pc = "publish", !.todo = todo]
    BY <1>2 DEF List
  <2>2. todo \subseteq Objects /\ \A u \in UID : res[u].life # "gone" => Object(u) \in todo
    BY ObjectMeans
  <2>3. \A u \in UID, obj \in todo : obj.uid = u => Fresh(obj, u)
    BY ObjectMeans DEF Fresh
  <2> HIDE DEF todo
  <2>4. ctl'.pc = "publish" /\ ctl'.todo = todo /\ ctl'.gen = ctl.gen /\ ctl'.conds = ctl.conds
    BY <2>1 DEF Typed
  <2>5. Typed'
    BY <2>1, <2>2, <2>4, Zenon DEF Typed
  <2>6. ~Calm
    BY <2>1 DEF Calm, Published
  <2>7. ASSUME NEW u \in UID \ raced PROVE Reasoned(u)'
    <3>1. Object(u)' = Object(u)
      BY <2>1, GoalKept
    <3>2. ~Listed(u)
      BY <2>1 DEF Listed
    <3>3. Sent(u) => Sent(u)'
      BY <2>1, <3>1 DEF Sent
    <3>4. res[u].life # "gone" /\ Awaited => Awaited' \/ Listed(u)'
      BY <2>1, <2>2, <2>4, <3>1 DEF Awaited, Listed
    <3> QED
      BY <2>1, <2>3, <2>4, <2>6, <3>2, <3>3, <3>4, ControlStep
  <2> QED
    BY <2>1, <2>5, <2>7
<1>3. CASE FinishReindex
  <2>1. /\ ctl.pc = "publish" /\ ctl.todo = {} /\ UNCHANGED <<res, view, audit, reindex, pend, docs, raced>>
        /\ ctl' = [pc |-> "idle", conds |-> {}, gen |-> 0, todo |-> {}]
        /\ pol' = IF pol.gen = ctl.gen THEN [pol EXCEPT !.ready = TRUE, !.hash = {ctl.conds}] ELSE pol
    BY <1>3 DEF FinishReindex, IdleCtl
  <2>2. pol' \in Policies /\ pol'.conds = pol.conds /\ pol'.gen = pol.gen
    BY <2>1, Zenon DEF Typed, Policies
  <2>3. Typed'
    BY <2>1, <2>2 DEF Typed
  <2>4. ~Calm
    BY <2>1 DEF Calm, Published
  <2>5. Awaited => Awaited'
    BY <2>1 DEF Awaited
  <2>6. ASSUME NEW u \in UID \ raced PROVE Reasoned(u)'
    <3>1. ~Listed(u)
      BY <2>1 DEF Listed
    <3>2. Sent(u) => Sent(u)'
      BY <2>1, <2>2 DEF Sent, Object
    <3> QED
      BY <2>1, <2>2, <2>4, <2>5, <3>1, <3>2, ControlStep
  <2> QED
    BY <2>1, <2>3, <2>6
<1>4. CASE ConfirmReady
  <2>1. /\ ~pol.ready /\ UNCHANGED <<res, view, ctl, audit, reindex, pend, docs, raced>>
        /\ pol' = [pol EXCEPT !.ready = TRUE]
    BY <1>4 DEF ConfirmReady
  <2>2. pol' \in Policies /\ pol'.conds = pol.conds /\ pol'.gen = pol.gen /\ pol'.hash = pol.hash
    BY <2>1, Zenon DEF Typed, Policies
  <2>3. Typed'
    BY <2>1, <2>2 DEF Typed
  <2>4. ~Calm
    BY <2>1 DEF Calm, Published
  <2>5. Awaited => Awaited'
    BY <2>1, <2>2 DEF Awaited
  <2>6. ASSUME NEW u \in UID \ raced PROVE Reasoned(u)'
    <3>1. Object(u)' = Object(u)
      BY <2>1, GoalKept
    <3>2. (Listed(u) => Listed(u)') /\ (Sent(u) => Sent(u)')
      BY <2>1, <2>2, <3>1 DEF Sent, Listed
    <3> QED
      BY <2>1, <2>2, <2>4, <2>5, <3>2, ControlStep
  <2> QED
    BY <2>1, <2>3, <2>6
<1>5. ASSUME NEW obj \in ctl.todo, PublishResource(obj) PROVE ReindexInv'
  <2> DEFINE m == [hash |-> ctl.conds, gen |-> ctl.gen, obj |-> obj]
  <2>1. /\ ctl.pc = "publish" /\ UNCHANGED <<res, pol, view, audit, pend, docs, raced>>
        /\ ctl' = [ctl EXCEPT !.todo = ctl.todo \ {obj}] /\ reindex' = reindex \cup {m}
    BY <1>5 DEF PublishResource
  <2>2. m \in Messages /\ m.obj = obj /\ m.hash = ctl.conds
    BY <2>1 DEF Typed, Messages
  <2> HIDE DEF m
  <2>3. ctl'.pc = "publish" /\ ctl'.todo = ctl.todo \ {obj} /\ ctl'.gen = ctl.gen /\ ctl'.conds = ctl.conds
    BY <2>1 DEF Typed
  <2>4. Typed'
    BY <2>1, <2>2, <2>3, ZenonT(40) DEF Typed
  <2>5. ~Calm
    BY <2>1 DEF Calm, Published
  <2>6. Awaited => Awaited'
    BY <2>1, <2>3 DEF Awaited
  <2>7. ASSUME NEW u \in UID \ raced PROVE Reasoned(u)'
    <3>1. Object(u)' = Object(u)
      BY <2>1, GoalKept
    <3>2. Sent(u) => Sent(u)'
      BY <2>1, <3>1 DEF Sent
    <3>3. Listed(u) => Listed(u)' \/ Sent(u)'
      <4>1. CASE obj = Object(u)
        BY <2>1, <2>2, <3>1, <4>1 DEF Listed, Sent, Typed
      <4>2. CASE obj # Object(u)
        BY <2>1, <2>3, <3>1, <4>2 DEF Listed
      <4> QED
        BY <4>1, <4>2
    <3>4. obj.uid = u => Fresh(obj, u)
      BY DEF Reasoned, ListedFresh
    <3> QED
      BY <2>1, <2>2, <2>3, <2>5, <2>6, <3>2, <3>3, <3>4, ControlStep
  <2> QED
    BY <2>1, <2>4, <2>7
<1>6. ASSUME NEW obj \in ctl.todo, PublishResourceFails(obj) PROVE ReindexInv'
  <2>1. /\ ctl.pc = "publish" /\ UNCHANGED <<res, pol, view, audit, reindex, pend, docs>>
        /\ ctl' = [ctl EXCEPT !.todo = ctl.todo \ {obj}] /\ raced' = raced \cup {obj.uid}
    BY <1>6 DEF PublishResourceFails
  <2>2. ctl'.pc = "publish" /\ ctl'.todo = ctl.todo \ {obj} /\ ctl'.gen = ctl.gen /\ ctl'.conds = ctl.conds
    BY <2>1 DEF Typed
  <2>3. Typed'
    BY <2>1, <2>2, ZenonT(40) DEF Typed
  <2>4. ~Calm
    BY <2>1 DEF Calm, Published
  <2>5. Awaited => Awaited'
    BY <2>1, <2>2 DEF Awaited
  <2>6. ASSUME NEW u \in UID \ raced, u # obj.uid PROVE Reasoned(u)'
    <3>1. Object(u)' = Object(u)
      BY <2>1, GoalKept
    <3>2. Sent(u) => Sent(u)'
      BY <2>1, <3>1 DEF Sent
    <3>3. Listed(u) => Listed(u)'
      BY <2>1, <2>2, <2>6, <3>1 DEF Listed, Object
    <3> QED
      BY <2>1, <2>2, <2>4, <2>5, <2>6, <3>2, <3>3, ControlStep
  <2> QED
    BY <2>1, <2>3, <2>6
<1> QED
  BY <1>1, <1>2, <1>3, <1>4, <1>5, <1>6

\* An informer catches up.
LEMMA SyncStep ==
  ASSUME ReindexInv, NEW c \in Caches, Sync(c)
  PROVE  ReindexInv'
<1> USE DEF ReindexInv
<1>1. /\ view[c] # pol /\ view' = [view EXCEPT ![c] = pol]
      /\ UNCHANGED <<res, pol, ctl, audit, reindex, pend, docs, raced>>
  BY DEF Sync
<1>2. Typed'
  BY <1>1 DEF Typed
<1>3. ~Calm
  BY <1>1 DEF Calm
<1>4. pol # Absent
  BY PolicyThere DEF Typed
<1>5. view'["reindex"] = view["reindex"] \/ (view'["reindex"] # Absent /\ view'["reindex"].conds = pol.conds)
  BY <1>1, <1>4 DEF Typed, Caches
<1>6. Awaited => Awaited'
  BY <1>1 DEF Awaited
<1>7. ASSUME NEW u \in UID \ raced PROVE Reasoned(u)'
  <2>1. Object(u)' = Object(u)
    BY <1>1, GoalKept
  <2>2. (Listed(u) => Listed(u)') /\ (Sent(u) => Sent(u)')
    BY <1>1, <2>1 DEF Sent, Listed
  <2> QED
    BY <1>1, <1>3, <1>5, <1>6, <2>2, ControlStep, Zenon
<1> QED
  BY <1>1, <1>2, <1>7

-----------------------------------------------------------------------------
(* The indexer. *)

\* A message of the re-index stream is handled.
LEMMA HandleReindexStep ==
  ASSUME ReindexInv, NEW m \in reindex, HandleReindex(m)
  PROVE  ReindexInv'
<1> USE DEF ReindexInv
<1>1. PICK op : op = ReindexOp(m)
  OBVIOUS
<1>2. /\ op # Absent /\ reindex' = reindex \ {m} /\ pend' = [pend EXCEPT !["reindex"] = Append(pend["reindex"], op)]
      /\ UNCHANGED <<res, pol, view, ctl, audit, docs, raced>>
  BY <1>1 DEF HandleReindex, Accept
<1>3. /\ op \in Operations /\ op.uid = m.obj.uid
      /\ \/ m.obj.deleting /\ op.doc = NoDoc
         \/ /\ ~m.obj.deleting /\ view["reindex"] # Absent /\ view["reindex"].conds = m.hash
            /\ op.doc = Document(m.hash, m.obj.state)
  BY <1>1, <1>2, ReindexOpMeans
<1>4. ~Calm
  BY <1>1, <1>2, CalmRefuses
<1>5. /\ pend["reindex"] \in Seq(Operations) /\ pend'["audit"] = pend["audit"]
      /\ pend'["reindex"] = Append(pend["reindex"], op) /\ pend' \in [Caches -> Seq(Operations)]
  BY <1>2, <1>3, AppendProperties DEF Typed, Caches
<1>6. Typed'
  BY <1>2, <1>5 DEF Typed
<1>7. ASSUME NEW u \in UID \ raced PROVE Reasoned(u)'
  <2>1. /\ Object(u)' = Object(u) /\ Goal(u)' = Goal(u) /\ \A obj : Fresh(obj, u)' <=> Fresh(obj, u)
    BY <1>2, GoalKept, ZenonT(40)
  <2>2. Reasoned(u)
    OBVIOUS
  <2>3. Unwritten(u) /\ Unwritten(u)'
    BY <1>2, <1>4, <1>5, <2>2, Zenon DEF Reasoned, AuditDecides, Unwritten, NoEvent, NoAuditOp, NoneIn
  <2>4. ListedFresh(u)'
    BY <1>2, <2>1, <2>2, Zenon DEF Reasoned, ListedFresh, Fresh, Object
  <2>5. StaleRefused(u)'
    BY <1>2, <2>1, <2>2 DEF Reasoned, StaleRefused, Fresh, Object
  <2>6. UpToDate(u)' <=> UpToDate(u)
    BY <1>2, Zenon DEF UpToDate
  <2>7. (Awaited => Awaited') /\ (Listed(u) => Listed(u)')
    BY <1>2, <2>1, Zenon DEF Awaited, Listed
  <2>8. ASSUME op.uid # u \/ op.doc = Goal(u), op.uid = u \/ Ends("reindex", u) PROVE Ends("reindex", u)'
    <3>1. PICK s, d, g : s = pend["reindex"] /\ d = docs[u] /\ g = Goal(u)
      OBVIOUS
    <3>2. EndsIn(Append(s, op), d, u, g)
      BY <1>3, <1>5, <2>8, <3>1, EndsAppend, Zenon DEF Ends
    <3> QED
      BY <1>2, <1>5, <2>1, <3>1, <3>2 DEF Ends, EndsIn
  <2>9. ASSUME m.obj # Object(u) \/ m.hash # pol.conds, Sent(u) PROVE Sent(u)'
    BY <1>2, <2>1, <2>9 DEF Sent
  <2>10. ReindexDecides(u)'
    <3>1. CASE m.obj.uid # u
      <4>1. m.obj # Object(u)
        BY <3>1, ObjectMeans, Zenon
      <4> QED
        BY <1>2, <1>3, <2>2, <2>3, <2>6, <2>7, <2>8, <2>9, <3>1, <4>1, Zenon DEF Reasoned, ReindexDecides
    <3>2. CASE m.obj.uid = u
      <4>1. Fresh(m.obj, u)
        BY <1>3, <2>2, <3>2, Zenon DEF Reasoned, StaleRefused
      <4>2. m.obj = Object(u) /\ res[u].life # "gone" /\ m.obj.state = res[u].state
        BY <4>1, ObjectMeans DEF Fresh
      <4>3. m.obj.deleting <=> res[u].life = "terminating"
        BY <4>2, ObjectMeans, Zenon
      <4>4. CASE res[u].life # "live"
        <5>1. op.doc = Goal(u) /\ UpToDate(u)
          BY <1>3, <4>2, <4>3, <4>4, ZenonT(40) DEF Goal, UpToDate, Typed
        <5> QED
          BY <1>3, <2>6, <2>8, <3>2, <5>1, Zenon DEF ReindexDecides
      <4>5. CASE res[u].life = "live" /\ m.hash = pol.conds
        <5>1. op.doc = Goal(u) /\ UpToDate(u)
          BY <1>3, <4>2, <4>3, <4>5, ZenonT(40) DEF Goal, UpToDate
        <5> QED
          BY <1>3, <2>6, <2>8, <3>2, <5>1 DEF ReindexDecides
      <4>6. CASE res[u].life = "live" /\ m.hash # pol.conds
        <5>1. ~UpToDate(u)
          BY <1>3, <4>3, <4>6 DEF UpToDate
        <5> QED
          BY <1>2, <2>2, <2>3, <2>7, <2>9, <4>6, <5>1 DEF Reasoned, ReindexDecides
      <4> QED
        BY <4>4, <4>5, <4>6, Zenon
    <3> QED
      BY <3>1, <3>2, Zenon
  <2> QED
    BY <2>3, <2>4, <2>5, <2>10 DEF Reasoned, AuditDecides
<1> QED
  BY <1>2, <1>6, <1>7

\* What the audit handler submits for the event that tells of a resource as it is.
LEMMA AuditOpMeans ==
  ASSUME Typed, audit # <<>>, HandleAudit
  PROVE  \E op \in Operations :
           /\ op.uid = Head(audit).obj.uid
           /\ pend' = pend \/ pend' = [pend EXCEPT !["audit"] = Append(pend["audit"], op)]
           /\ Calm => pend' = [pend EXCEPT !["audit"] = Append(pend["audit"], op)]
           /\ \A u \in UID : Calm /\ Head(audit) = RightEvent(u) => op.doc = Goal(u)
<1> DEFINE event == Head(audit)
           policy == Cached("audit")
           op == IF event.verb = "delete" \/ ~Evaluate(policy, event.obj) THEN Delete(event.obj) ELSE Upsert(event.obj)
<1>1. event \in Events /\ event.obj \in Objects
  <2>1. event \in Events
    BY HeadTailProperties DEF Typed
  <2> QED
    BY <2>1 DEF Events
<1>2. pend' = IF policy = Absent THEN pend ELSE [pend EXCEPT !["audit"] = Append(pend["audit"], op)]
  BY DEF HandleAudit
<1>3. op \in Operations /\ op.uid = event.obj.uid
  BY <1>1, OpsMean, Zenon
<1>4. ASSUME Calm
      PROVE  policy # Absent /\ (Evaluate(policy, event.obj) <=> Matching(pol.conds, event.obj.state))
  <2>1. view["audit"] = pol /\ pol.ready /\ pol \in Policies
    BY <1>4 DEF Calm, Published, Caches, Typed
  <2>2. policy = [target |-> Target, conds |-> pol.conds, index |-> pol.index]
    BY <2>1, PolicyThere DEF Cached
  <2>3. pol.conds \in Specs /\ pol.index \in {NoIndex, Index}
    BY <2>1 DEF Policies
  <2>4. policy # Absent
    BY <2>2, <2>3, AbsentPlain DEF Index
  <2> QED
    BY <1>1, <2>2, <2>3, <2>4, EvaluateMeans
<1>5. ASSUME NEW u \in UID, Calm, event = RightEvent(u) PROVE op.doc = Goal(u)
  <2>1. event.obj = Object(u) /\ event.obj.state = res[u].state
    BY <1>5, ObjectMeans
  <2>2. event.verb = "delete" <=> res[u].life # "live"
    BY <1>5 DEF RightEvent
  <2> QED
    BY <1>1, <1>4, <1>5, <2>1, <2>2, OpsMean, Zenon DEF Goal, Document
<1> HIDE DEF op, policy
<1> QED
  BY <1>2, <1>3, <1>4, <1>5, Zenon

\* Without an operation, or with one for another resource, a sequence of them has none.
LEMMA NoneAppend ==
  ASSUME NEW s \in Seq(Operations), NEW o \in Operations, NEW u
  PROVE  NoneIn(Append(s, o), u) <=> (o.uid # u /\ NoneIn(s, u))
<1>1. PICK t : t = Append(s, o)
  BY Zenon
<1>2. PICK k \in Nat : k = Len(s)
  OBVIOUS
<1>3. /\ DOMAIN t = 1 .. k + 1 /\ DOMAIN s = 1 .. k /\ t[k + 1] = o
      /\ \A n \in 1 .. k : t[n] = s[n]
  BY <1>1, <1>2
<1>4. ASSUME NoneIn(t, u) PROVE o.uid # u /\ NoneIn(s, u)
  BY <1>2, <1>3, <1>4 DEF NoneIn
<1>5. ASSUME o.uid # u, NoneIn(s, u) PROVE NoneIn(t, u)
  BY <1>2, <1>3, <1>5 DEF NoneIn
<1> QED
  BY <1>1, <1>4, <1>5

\* The rest of a sequence has what the sequence has and its first element is not.
LEMMA TailHas ==
  ASSUME NEW S, NEW s \in Seq(S), s # <<>>
  PROVE  /\ Tail(s) \in Seq(S) /\ Head(s) \in S
         /\ \A n \in DOMAIN Tail(s) : n + 1 \in DOMAIN s /\ Tail(s)[n] = s[n + 1]
         /\ 1 \in DOMAIN s /\ Head(s) = s[1]
<1>1. PICK k \in Nat : k + 1 = Len(s)
  <2>1. Len(s) \in Nat /\ Len(s) # 0
    OBVIOUS
  <2>2. Len(s) - 1 \in Nat /\ Len(s) - 1 + 1 = Len(s)
    BY <2>1
  <2> QED
    BY <2>2, Zenon
<1>2. DOMAIN Tail(s) = 1 .. k /\ DOMAIN s = 1 .. k + 1
  BY <1>1
<1>3. \A n \in 1 .. k : n + 1 \in 1 .. k + 1 /\ Tail(s)[n] = s[n + 1]
  BY <1>1
<1>4. Tail(s) \in Seq(S) /\ Head(s) \in S /\ Head(s) = s[1] /\ 1 \in 1 .. k + 1
  BY <1>1, HeadTailProperties
<1> QED
  BY <1>2, <1>3, <1>4, SMTT(30)

\* An event of the audit stream is handled.
LEMMA HandleAuditStep ==
  ASSUME ReindexInv, HandleAudit
  PROVE  ReindexInv'
<1> USE DEF ReindexInv
<1>1. /\ audit # <<>> /\ audit' = Tail(audit) /\ audit \in Seq(Events)
      /\ UNCHANGED <<res, pol, view, ctl, reindex, docs, raced>>
  BY DEF HandleAudit, Typed
<1>2. PICK event : event = Head(audit)
  OBVIOUS
<1>3. PICK op \in Operations :
           /\ op.uid = event.obj.uid
           /\ pend' = pend \/ pend' = [pend EXCEPT !["audit"] = Append(pend["audit"], op)]
           /\ Calm => pend' = [pend EXCEPT !["audit"] = Append(pend["audit"], op)]
           /\ \A u \in UID : Calm /\ event = RightEvent(u) => op.doc = Goal(u)
  BY <1>1, <1>2, AuditOpMeans
<1>4. /\ audit' \in Seq(Events) /\ event \in Events
      /\ \A n \in DOMAIN audit' : n + 1 \in DOMAIN audit /\ audit'[n] = audit[n + 1]
      /\ 1 \in DOMAIN audit /\ event = audit[1]
  BY <1>1, <1>2, TailHas
<1>5. /\ pend["audit"] \in Seq(Operations) /\ pend'["reindex"] = pend["reindex"]
      /\ pend'["audit"] = pend["audit"] \/ pend'["audit"] = Append(pend["audit"], op)
      /\ Calm => pend'["audit"] = Append(pend["audit"], op)
      /\ pend' \in [Caches -> Seq(Operations)]
  <2>1. PICK added : added = Append(pend["audit"], op)
    BY Zenon
  <2>2. added \in Seq(Operations) /\ pend \in [{"audit", "reindex"} -> Seq(Operations)]
    BY <2>1, AppendProperties DEF Typed, Caches
  <2>3. /\ pend' = pend \/ pend' = [pend EXCEPT !["audit"] = added]
        /\ Calm => pend' = [pend EXCEPT !["audit"] = added]
    BY <1>3, <2>1
  <2> QED
    BY <2>1, <2>2, <2>3, ZenonT(40) DEF Caches
<1>6. Typed'
  BY <1>1, <1>4, <1>5 DEF Typed
<1>7. Calm' <=> Calm
  BY <1>1, <1>5, ZenonT(40) DEF Calm, Published, ReindexDrained
<1>8. ASSUME NEW u \in UID \ raced PROVE Reasoned(u)'
  <2>1. /\ Object(u)' = Object(u) /\ RightEvent(u)' = RightEvent(u) /\ Goal(u)' = Goal(u)
        /\ \A obj : Fresh(obj, u)' <=> Fresh(obj, u)
    BY <1>1, GoalKept, ZenonT(40)
  <2>2. Reasoned(u)
    OBVIOUS
  <2>3. ListedFresh(u)'
    BY <1>1, <2>1, <2>2, Zenon DEF Reasoned, ListedFresh, Fresh, Object
  <2>4. StaleRefused(u)'
    BY <1>1, <2>1, <2>2, Zenon DEF Reasoned, StaleRefused, Fresh, Object
  <2>5. PICK s, t, d, g, r : /\ s = pend["audit"] /\ t = pend'["audit"] /\ d = docs[u] /\ g = Goal(u)
                             /\ r = RightEvent(u)
    OBVIOUS
  <2>6. NoEvent(u) => NoEvent(u)' /\ event.obj.uid # u
    BY <1>4 DEF NoEvent
  <2>7. ASSUME op.uid # u PROVE NoneIn(t, u) <=> NoneIn(s, u)
    <3>1. CASE t = s
      BY <3>1, ZenonT(40)
    <3>2. CASE t = Append(s, op)
      BY <1>5, <2>5, <2>7, <3>2, NoneAppend
    <3> QED
      BY <1>5, <2>5, <3>1, <3>2
  <2>8. CASE Unwritten(u)
    <3>1. Unwritten(u)'
      BY <1>3, <2>5, <2>6, <2>7, <2>8 DEF Unwritten, NoAuditOp, NoneIn
    <3>2. Ends("reindex", u)' <=> Ends("reindex", u)
      BY <1>1, <1>5, <2>1, EndsKept, SMTT(30)
    <3>3. ReindexDecides(u)'
      BY <1>1, <2>1, <2>2, <2>8, <3>2, ZenonT(40) DEF Reasoned, ReindexDecides, UpToDate, Awaited, Listed, Sent
    <3> QED
      BY <2>3, <2>4, <3>1, <3>3, ZenonT(40) DEF Reasoned, AuditDecides
  <2>9. CASE Calm /\ LastIn(audit, u, r)
    <3>1. r \in Events /\ r.obj.uid = u
      BY <2>5, ObjectMeans, SMTT(30)
    <3>2. CASE LastIn(audit', u, r)
      <4>1. LastIn(audit, u, RightEvent(u))'
        BY <2>1, <2>5, <3>2 DEF LastIn
      <4>2. ~NoEvent(u)'
        BY <3>1, <3>2, ZenonT(40) DEF LastIn, NoEvent
      <4> QED
        BY <1>7, <2>3, <2>4, <2>9, <4>1, <4>2, Zenon DEF Reasoned, AuditDecides, ReindexDecides, Unwritten
    <3>3. CASE event = r /\ \A n \in DOMAIN audit' : audit'[n].obj.uid # u
      <4>1. op.uid = u /\ op.doc = g
        BY <1>3, <2>5, <2>9, <3>1, <3>3
      <4>2. t = Append(s, op)
        BY <1>5, <2>5, <2>9, Zenon
      <4>3. EndsIn(t, d, u, g)
        BY <1>5, <2>5, <4>1, <4>2, EndsAppend, SMTT(30)
      <4>4. Ends("audit", u)'
        BY <1>1, <2>1, <2>5, <4>3, Zenon DEF Ends, EndsIn
      <4>5. ~NoneIn(t, u)
        BY <1>5, <2>5, <4>1, <4>2, NoneAppend
      <4>6. ~NoAuditOp(u)'
        BY <2>5, <4>5 DEF NoAuditOp, NoneIn
      <4>7. NoEvent(u)'
        BY <3>3, Zenon DEF NoEvent
      <4> QED
        BY <1>7, <2>3, <2>4, <2>9, <4>4, <4>6, <4>7, Zenon DEF Reasoned, AuditDecides, ReindexDecides, Unwritten
    <3> QED
      BY <1>1, <1>2, <2>9, <3>2, <3>3, LastTail, Zenon
  <2>10. CASE Calm /\ NoEvent(u) /\ Ends("audit", u) /\ ~Unwritten(u)
    <3>1. op.uid # u /\ NoEvent(u)'
      BY <1>3, <2>6, <2>10
    <3>2. t = Append(s, op) /\ EndsIn(s, d, u, g)
      BY <1>5, <2>5, <2>10, ZenonT(40) DEF Ends
    <3>3. EndsIn(t, d, u, g)
      BY <1>5, <2>5, <3>1, <3>2, EndsAppend, ZenonT(40)
    <3>4. Ends("audit", u)'
      BY <1>1, <2>1, <2>5, <3>3 DEF Ends, EndsIn
    <3>5. ~NoAuditOp(u)'
      BY <2>5, <2>7, <2>10, <3>1 DEF NoAuditOp, Unwritten, NoneIn
    <3> QED
      BY <1>7, <2>3, <2>4, <2>10, <3>1, <3>4, <3>5, Zenon DEF Reasoned, AuditDecides, ReindexDecides, Unwritten
  <2> QED
    BY <2>2, <2>5, <2>8, <2>9, <2>10, SMTT(30) DEF Reasoned, AuditDecides
<1> QED
  BY <1>1, <1>6, <1>8

\* The first operation of a batcher is written.
LEMMA FlushStep ==
  ASSUME ReindexInv, NEW c \in Caches, Flush(c)
  PROVE  ReindexInv'
<1> USE DEF ReindexInv
<1>1. PICK s, h : s = pend[c] /\ h = Head(s)
  OBVIOUS
<1>2. /\ s # <<>> /\ docs' = [docs EXCEPT ![h.uid] = h.doc] /\ pend' = [pend EXCEPT ![c] = Tail(s)]
      /\ UNCHANGED <<res, pol, view, ctl, audit, reindex, raced>>
  BY <1>1 DEF Flush
<1>3. s \in Seq(Operations)
  BY <1>1 DEF Typed
<1>4. /\ Tail(s) \in Seq(Operations) /\ h \in Operations
      /\ \A n \in DOMAIN Tail(s) : n + 1 \in DOMAIN s /\ Tail(s)[n] = s[n + 1]
      /\ 1 \in DOMAIN s /\ h = s[1]
  BY <1>1, <1>2, <1>3, TailHas, Zenon
<1>5. /\ pend'[c] = Tail(s) /\ pend' \in [Caches -> Seq(Operations)]
      /\ \A b \in Caches \ {c} : pend'[b] = pend[b]
  BY <1>2, <1>4, Zenon DEF Typed
<1>6. docs' \in [UID -> Docs] /\ \A u \in UID : docs'[u] = IF h.uid = u THEN h.doc ELSE docs[u]
  BY <1>2, <1>4, Zenon DEF Typed, Operations
<1>7. Typed'
  BY <1>2, <1>5, <1>6 DEF Typed
<1>8. ASSUME NEW u \in UID \ raced PROVE Reasoned(u)'
  <2>1. /\ Object(u)' = Object(u) /\ RightEvent(u)' = RightEvent(u) /\ Goal(u)' = Goal(u)
        /\ \A obj : Fresh(obj, u)' <=> Fresh(obj, u)
    BY <1>2, GoalKept, Zenon
  <2>2. Reasoned(u)
    OBVIOUS
  <2>3. ListedFresh(u)'
    BY <1>2, <2>1, <2>2, ZenonT(40) DEF Reasoned, ListedFresh, Fresh, Object
  <2>4. StaleRefused(u)'
    BY <1>2, <2>1, <2>2, Zenon DEF Reasoned, StaleRefused, Fresh, Object
  <2>5. NoEvent(u)' <=> NoEvent(u)
    BY <1>2, Zenon DEF NoEvent
  <2>6. /\ UpToDate(u)' <=> UpToDate(u)
        /\ (Awaited \/ Listed(u) \/ Sent(u)) => (Awaited \/ Listed(u) \/ Sent(u))'
    BY <1>2, <2>1, Zenon DEF UpToDate, Awaited, Listed, Sent
  <2>7. Ends(c, u) => Ends(c, u)'
    <3> SUFFICES ASSUME Ends(c, u) PROVE Ends(c, u)'
      OBVIOUS
    <3>1. PICK d, e, g : d = docs[u] /\ e = docs'[u] /\ g = Goal(u)
      OBVIOUS
    <3>2. EndsIn(s, d, u, g)
      BY <1>1, <3>1, Zenon DEF Ends
    <3>3. EndsIn(Tail(s), e, u, g)
      BY <1>1, <1>2, <1>3, <1>6, <3>1, <3>2, EndsFlush
    <3> QED
      BY <1>5, <2>1, <3>1, <3>3 DEF Ends, EndsIn
  <2>8. NoneIn(s, u) => NoneIn(Tail(s), u) /\ h.uid # u
    BY <1>4 DEF NoneIn
  <2>9. CASE c = "reindex"
    <3>1. ~Calm /\ pend'["audit"] = pend["audit"]
      BY <1>1, <1>2, <1>5, <2>9, Zenon DEF Calm, ReindexDrained, Caches
    <3>2. Unwritten(u) /\ Unwritten(u)'
      BY <2>2, <2>5, <3>1, ZenonT(40) DEF Reasoned, AuditDecides, Unwritten, NoAuditOp, NoneIn
    <3>3. ReindexDecides(u)'
      BY <1>2, <2>2, <2>6, <2>7, <2>9, <3>2, ZenonT(40) DEF Reasoned, ReindexDecides
    <3> QED
      BY <2>3, <2>4, <3>2, <3>3, Zenon DEF Reasoned, AuditDecides
  <2>10. CASE c = "audit"
    <3>1. pend'["reindex"] = pend["reindex"]
      BY <1>5, <2>10 DEF Caches
    <3>2. Calm' <=> Calm
      BY <1>2, <3>1, Zenon DEF Calm, Published, ReindexDrained
    <3>3. CASE Unwritten(u)
      <4>1. h.uid # u /\ NoneIn(Tail(s), u)
        BY <1>1, <2>8, <2>10, <3>3 DEF Unwritten, NoAuditOp
      <4>2. Unwritten(u)'
        BY <1>5, <2>5, <2>10, <3>3, <4>1, ZenonT(40) DEF Unwritten, NoAuditOp, NoneIn
      <4>3. docs'[u] = docs[u]
        BY <1>6, <4>1, ZenonT(40)
      <4>4. Ends("reindex", u)' <=> Ends("reindex", u)
        BY <2>1, <3>1, <4>3, EndsKept
      <4>5. ReindexDecides(u)'
        BY <1>2, <2>2, <2>6, <3>3, <4>4, ZenonT(40) DEF Reasoned, ReindexDecides
      <4> QED
        BY <2>3, <2>4, <4>2, <4>5 DEF Reasoned, AuditDecides
    <3>4. CASE Calm /\ LastIn(audit, u, RightEvent(u))
      <4>1. LastIn(audit, u, RightEvent(u))'
        BY <1>2, <2>1, <3>4, Zenon DEF LastIn
      <4>2. ~NoEvent(u)
        BY <3>4, ObjectMeans, SMTT(30) DEF LastIn, NoEvent
      <4> QED
        BY <2>3, <2>4, <2>5, <3>2, <3>4, <4>1, <4>2, Zenon DEF Reasoned, AuditDecides, ReindexDecides, Unwritten
    <3>5. CASE Calm /\ NoEvent(u) /\ Ends("audit", u)
      <4>1. Ends("audit", u)' /\ NoEvent(u)' /\ Calm'
        BY <2>5, <2>7, <2>10, <3>2, <3>5
      <4>2. ASSUME Unwritten(u)' PROVE UpToDate(u)' /\ Ends("reindex", u)'
        <5>1. docs'[u] = Goal(u)'
          BY <4>1, <4>2 DEF Ends, EndsIn, Unwritten, NoAuditOp, NoneIn
        <5>2. pend'["reindex"] = <<>>
          BY <3>1, <3>5 DEF Calm, ReindexDrained
        <5>3. Ends("reindex", u)'
          BY <5>1, <5>2 DEF Ends, EndsIn
        <5>4. view["reindex"] = pol /\ pol # Absent
          BY <3>5, PolicyThere DEF Calm, Caches, Typed
        <5> QED
          BY <2>6, <5>3, <5>4, ZenonT(40) DEF UpToDate
      <4> QED
        BY <2>3, <2>4, <4>1, <4>2, Zenon DEF Reasoned, AuditDecides, ReindexDecides
    <3> QED
      BY <2>2, <3>3, <3>4, <3>5 DEF Reasoned, AuditDecides
  <2> QED
    BY <2>9, <2>10 DEF Caches
<1> QED
  BY <1>2, <1>7, <1>8

-----------------------------------------------------------------------------
(* Users. *)

\* An edit leaves every resource to the next pass, except those that it upsets.
LEMMA EditStep ==
  ASSUME ReindexInv, NEW conds \in Specs, Edit(conds)
  PROVE  ReindexInv'
<1> USE DEF ReindexInv
<1>1. /\ conds # pol.conds /\ pol' = [pol EXCEPT !.conds = conds, !.gen = pol.gen + 1]
      /\ raced' = raced \cup Upset(conds) /\ UNCHANGED <<res, view, ctl, audit, reindex, pend, docs>>
  BY DEF Edit
<1>2. /\ pol' \in Policies /\ pol'.conds = conds /\ pol'.gen = pol.gen + 1 /\ pol'.hash = pol.hash
      /\ pol.gen \in Nat
  <2>1. pol \in Policies
    BY DEF Typed
  <2>2. pol.gen \in Nat /\ pol.gen + 1 \in Nat
    BY <2>1 DEF Policies
  <2> QED
    BY <1>1, <2>1, <2>2, Zenon DEF Policies
<1>3. Typed'
  BY <1>1, <1>2 DEF Typed
<1>4. ASSUME NEW u \in UID \ raced' PROVE Reasoned(u)'
  <2>1. u \notin raced /\ u \notin Upset(conds) /\ Reasoned(u)
    BY <1>1, <1>4
  <2>2. /\ Object(u)' = Object(u) /\ (res[u].life # "live" => Goal(u)' = Goal(u))
        /\ \A obj : Fresh(obj, u)' <=> Fresh(obj, u)
    BY <1>1, GoalKept, Zenon
  <2>3. pol.hash # {conds}
    BY <2>1 DEF Upset
  <2>4. /\ \A e \in Range(audit) : e.obj.uid # u
        /\ \A o \in Range(pend["audit"]) : o.uid # u
        /\ \A m \in reindex : m.obj.uid = u /\ m.hash = conds => res[u].life # "gone" /\ m.obj = Object(u)
    BY <2>1, <2>3, Zenon DEF Upset
  <2>5. Unwritten(u)
    BY <2>4 DEF Unwritten, NoEvent, NoAuditOp, NoneIn, Range
  <2>6. Unwritten(u)'
    BY <1>1, <2>5 DEF Unwritten, NoEvent, NoAuditOp, NoneIn
  <2>7. ListedFresh(u)'
    BY <1>1, <2>1, <2>2, Zenon DEF Reasoned, ListedFresh, Fresh, Object
  <2>8. StaleRefused(u)'
    <3> SUFFICES ASSUME NEW m \in reindex, m.obj.uid = u, ~Fresh(m.obj, u)
                 PROVE  /\ ~m.obj.deleting /\ m.hash # conds
                        /\ view["reindex"] = Absent \/ view["reindex"].conds # m.hash
      BY <1>1, <1>2, <2>2, SMTT(30) DEF StaleRefused, Fresh, Object
    <3> QED
      BY <2>1, <2>4 DEF Reasoned, StaleRefused, Fresh
  <2>9. CASE res[u].life = "gone"
    <3>1. Ends("reindex", u) /\ UpToDate(u)'
      BY <1>1, <2>1, <2>5, <2>9 DEF Reasoned, ReindexDecides, UpToDate
    <3>2. Ends("reindex", u)'
      BY <1>1, <2>2, <2>9, <3>1, EndsKept
    <3> QED
      BY <2>6, <2>7, <2>8, <3>1, <3>2, Zenon DEF Reasoned, AuditDecides, ReindexDecides
  <2>10. CASE res[u].life # "gone"
    <3>1. Awaited'
      BY <1>1, <1>2, <2>3 DEF Awaited, Typed
    <3> QED
      BY <1>1, <2>6, <2>7, <2>8, <2>10, <3>1 DEF Reasoned, AuditDecides, ReindexDecides
  <2> QED
    BY <2>9, <2>10
<1> QED
  BY <1>3, <1>4

\* A write where all is calm is left to the audit path; one elsewhere is a race.
LEMMA WriteStep ==
  ASSUME ReindexInv, NEW v \in UID, NEW r \in [life : {"live", "terminating", "gone"}, state : States], NEW verb,
         verb = (IF r.life = "live" THEN "update" ELSE "delete"), Write(v, r, verb)
  PROVE  ReindexInv'
<1> USE DEF ReindexInv
<1>1. PICK event : event = [verb |-> verb, obj |-> [Object(v) EXCEPT !.state = r.state, !.deleting = r.life = "terminating"]]
  BY Zenon
<1>2. /\ res' = [res EXCEPT ![v] = r] /\ audit' = Append(audit, event)
      /\ raced' = (IF Calm THEN raced \ {v} ELSE raced \cup {v})
      /\ UNCHANGED <<pol, view, ctl, reindex, pend, docs>>
  BY <1>1 DEF Write
<1>3. event.obj = [Object(v) EXCEPT !.state = r.state, !.deleting = r.life = "terminating"] /\ event.verb = verb
  BY <1>1
<1>4. event \in Events /\ event.obj.uid = v
  <2>1. Object(v) \in Objects /\ Object(v).uid = v
    BY ObjectMeans
  <2>2. event.obj \in Objects /\ event.obj.uid = v
    BY <1>3, <2>1, ZenonT(40) DEF Objects
  <2> QED
    BY <1>1, <2>2, Zenon DEF Events
<1>5. res' \in [UID -> [life : {"live", "terminating", "gone"}, state : States]] /\ res'[v] = r
      /\ \A u \in UID \ {v} : res'[u] = res[u]
  BY <1>2, Zenon DEF Typed
<1>6. audit \in Seq(Events) /\ audit' \in Seq(Events)
  BY <1>2, <1>4, AppendProperties, Zenon DEF Typed
<1>7. Typed'
  BY <1>2, <1>5, <1>6, Zenon DEF Typed
<1>8. Calm' <=> Calm
  BY <1>2 DEF Calm, Published, ReindexDrained
<1>9. PICK k \in Nat : k = Len(audit)
  BY <1>6, SMTT(30)
<1>10. /\ DOMAIN audit' = 1 .. k + 1 /\ DOMAIN audit = 1 .. k /\ audit'[k + 1] = event
       /\ \A n \in 1 .. k : audit'[n] = audit[n]
  <2>1. PICK q : q = audit
    BY ZenonT(40)
  <2>2. /\ Append(q, event) \in Seq(Events) /\ Len(Append(q, event)) = k + 1 /\ DOMAIN q = 1 .. k
        /\ \A n \in 1 .. k : Append(q, event)[n] = q[n]
        /\ Append(q, event)[k + 1] = event
    BY <1>4, <1>6, <1>9, <2>1, AppendProperties
  <2>3. DOMAIN Append(q, event) = 1 .. k + 1
    BY <2>2
  <2> QED
    BY <1>2, <2>1, <2>2, <2>3, Zenon
<1>11. ASSUME NEW u \in UID \ raced', u # v PROVE Reasoned(u)'
  <2>1. u \notin raced /\ Reasoned(u)
    BY <1>2, <1>11, ZenonT(40)
  <2>2. /\ Object(u)' = Object(u) /\ RightEvent(u)' = RightEvent(u) /\ Goal(u)' = Goal(u)
        /\ \A obj : Fresh(obj, u)' <=> Fresh(obj, u)
    BY <1>2, <1>5, <1>11, GoalKept, SMTT(30)
  <2>3. ListedFresh(u)'
    BY <1>2, <1>5, <1>11, <2>1, <2>2, ZenonT(40) DEF Reasoned, ListedFresh, Fresh, Object
  <2>4. StaleRefused(u)'
    BY <1>2, <1>5, <1>11, <2>1, <2>2, ZenonT(40) DEF Reasoned, StaleRefused, Fresh, Object
  <2>5. NoEvent(u)' <=> NoEvent(u)
    BY <1>4, <1>9, <1>10, <1>11, SMTT(30) DEF NoEvent
  <2>6. Unwritten(u)' <=> Unwritten(u)
    BY <1>2, <2>5, ZenonT(40) DEF Unwritten, NoAuditOp, NoneIn
  <2>7. LastIn(audit, u, RightEvent(u)) => LastIn(audit, u, RightEvent(u))'
    <3> SUFFICES ASSUME LastIn(audit, u, RightEvent(u)) PROVE LastIn(audit, u, RightEvent(u))'
      OBVIOUS
    <3>1. PICK e : e = RightEvent(u)
      BY SMTT(30)
    <3>2. LastIn(audit', u, e)
      BY <1>2, <1>4, <1>6, <1>11, <3>1, LastAppend, ZenonT(40)
    <3> QED
      BY <2>2, <3>1, <3>2, Zenon DEF LastIn
  <2>8. (Ends("audit", u)' <=> Ends("audit", u)) /\ (Ends("reindex", u)' <=> Ends("reindex", u))
    BY <1>2, <2>2, EndsKept
  <2>9. AuditDecides(u)'
    BY <1>8, <2>1, <2>5, <2>6, <2>7, <2>8, SMTT(30) DEF Reasoned, AuditDecides
  <2>10. ReindexDecides(u)'
    BY <1>2, <1>5, <1>11, <2>1, <2>2, <2>6, <2>8, ZenonT(40) DEF Reasoned, ReindexDecides, UpToDate, Awaited, Listed, Sent
  <2> QED
    BY <2>3, <2>4, <2>9, <2>10 DEF Reasoned
<1>12. ASSUME v \notin raced' PROVE Reasoned(v)'
  <2>1. Calm
    BY <1>2, <1>12, SMTT(30)
  <2>2. ListedFresh(v)'
    BY <1>2, <2>1, Zenon DEF ListedFresh, Calm, Published, Typed
  <2>3. StaleRefused(v)'
    <3> SUFFICES ASSUME NEW m \in reindex
                 PROVE  ~m.obj.deleting /\ m.hash # pol.conds /\ view["reindex"].conds # m.hash
      BY <1>2 DEF StaleRefused
    <3> QED
      BY <2>1, ZenonT(40) DEF Calm, ReindexDrained, Caches
  <2>4. RightEvent(v)' = event
    BY <1>1, <1>5, Zenon DEF RightEvent, Object
  <2>5. LastIn(audit', v, event)
    BY <1>2, <1>4, <1>6, LastAppend
  <2>6. LastIn(audit, v, RightEvent(v))'
    BY <2>4, <2>5 DEF LastIn
  <2>7. ~NoEvent(v)'
    BY <1>4, <1>9, <1>10 DEF NoEvent
  <2> QED
    BY <1>8, <2>1, <2>2, <2>3, <2>6, <2>7, Zenon DEF Reasoned, AuditDecides, ReindexDecides, Unwritten
<1> QED
  BY <1>7, <1>11, <1>12

\* At first nothing is indexed, and a pass is to come.
LEMMA InitReindexInv == Init => ReindexInv
<1> SUFFICES ASSUME Init PROVE ReindexInv
  OBVIOUS
<1>1. PICK conds \in Specs : pol = [conds |-> conds, gen |-> 1, ready |-> FALSE, hash |-> {}, index |-> NoIndex]
  BY ZenonT(40) DEF Init
<1>2. Typed
  <2>1. pol \in Policies
    BY <1>1, SMTT(30) DEF Policies
  <2>2. ctl \in [pc : {"idle", "list", "publish"}, conds : Specs \cup {{}}, gen : Nat, todo : SUBSET Objects]
        /\ ctl.pc = "idle" /\ ctl.todo = {}
    BY Zenon DEF Init, IdleCtl
  <2>3. pend \in [Caches -> Seq(Operations)] /\ audit \in Seq(Events)
    BY SMTT(30) DEF Init
  <2> QED
    BY <2>1, <2>2, <2>3, Zenon DEF Init, Typed, Docs
<1>3. ASSUME NEW u \in UID PROVE Reasoned(u)
  <2>1. Unwritten(u)
    <3>1. audit = <<>> /\ pend["audit"] = <<>>
      BY SMTT(30) DEF Init, Caches
    <3> QED
      BY <3>1 DEF Unwritten, NoEvent, NoAuditOp, NoneIn
  <2>2. Awaited
    <3>1. pol.hash = {}
      BY <1>1, Zenon
    <3>2. ctl.pc = "idle"
      BY Zenon DEF Init, IdleCtl
    <3> QED
      BY <3>1, <3>2, Zenon DEF Awaited
  <2>3. ListedFresh(u) /\ StaleRefused(u)
    BY DEF Init, IdleCtl, ListedFresh, StaleRefused
  <2>4. res[u].life = "live"
    BY DEF Init
  <2> QED
    BY <2>1, <2>2, <2>3, <2>4 DEF Reasoned, AuditDecides, ReindexDecides
<1> QED
  BY <1>2, <1>3 DEF ReindexInv

\* For every instance: a resource that was not raced is made right by the audit event or by the
\* re-index message that is on its way, or is right, or a pass is to come.
THEOREM ReindexInvariance == Spec => []ReindexInv
<1>1. ReindexInv /\ [Next]_vars => ReindexInv'
  <2> SUFFICES ASSUME ReindexInv, [Next]_vars PROVE ReindexInv'
    OBVIOUS
  <2>1. CASE \/ StartReindex \/ List \/ FinishReindex \/ ConfirmReady
            \/ \E obj \in ctl.todo : PublishResource(obj) \/ PublishResourceFails(obj)
    BY <2>1, ControllerStep
  <2>2. CASE \E c \in Caches : Sync(c) \/ Flush(c)
    BY <2>2, SyncStep, FlushStep
  <2>3. CASE HandleAudit \/ \E m \in reindex : HandleReindex(m)
    BY <2>3, HandleAuditStep, HandleReindexStep
  <2>4. CASE \E conds \in Specs : Edit(conds)
    BY <2>4, EditStep
  <2>5. ASSUME NEW u \in UID, MarkDeleted(u) \/ Remove(u) \/ (\E state \in States : Update(u, state)) PROVE ReindexInv'
    <3>1. res[u] \in [life : {"live", "terminating", "gone"}, state : States]
      BY DEF ReindexInv, Typed
    <3>2. PICK r \in [life : {"live", "terminating", "gone"}, state : States], verb \in {"update", "delete"} :
             verb = (IF r.life = "live" THEN "update" ELSE "delete") /\ Write(u, r, verb)
      <4>1. CASE MarkDeleted(u)
        <5>1. PICK r : r = [res[u] EXCEPT !.life = "terminating"]
          BY Zenon
        <5> QED
          BY <3>1, <4>1, <5>1 DEF MarkDeleted
      <4>2. CASE Remove(u)
        <5>1. PICK r : r = [res[u] EXCEPT !.life = "gone"]
          BY Zenon
        <5> QED
          BY <3>1, <4>2, <5>1 DEF Remove
      <4>3. ASSUME NEW state \in States, Update(u, state)
            PROVE  \E r \in [life : {"live", "terminating", "gone"}, state : States], verb \in {"update", "delete"} :
                     verb = (IF r.life = "live" THEN "update" ELSE "delete") /\ Write(u, r, verb)
        <5>1. PICK r : r = [res[u] EXCEPT !.state = state]
          BY ZenonT(40)
        <5> QED
          BY <3>1, <4>3, <5>1 DEF Update
      <4> QED
        BY <2>5, <4>1, <4>2, <4>3
    <3> QED
      BY <3>2, WriteStep, Zenon
  <2>6. CASE UNCHANGED vars
    <3>1. UNCHANGED <<res, pol, view, ctl, audit, reindex, pend, docs, raced>>
      BY <2>6, Zenon DEF vars
    <3>2. Typed'
      BY <3>1 DEF ReindexInv, Typed
    <3>3. ASSUME NEW u \in UID \ raced PROVE Reasoned(u)'
      <4>1. /\ Object(u)' = Object(u) /\ RightEvent(u)' = RightEvent(u) /\ Goal(u)' = Goal(u)
            /\ \A obj : Fresh(obj, u)' <=> Fresh(obj, u)
        BY <3>1, GoalKept, Zenon
      <4>2. Calm' <=> Calm
        BY <3>1 DEF Calm, Published, ReindexDrained
      <4>3. (Ends("audit", u)' <=> Ends("audit", u)) /\ (Ends("reindex", u)' <=> Ends("reindex", u))
        BY <3>1, <4>1, EndsKept, Zenon
      <4>4. /\ ListedFresh(u) => ListedFresh(u)'
            /\ StaleRefused(u) => StaleRefused(u)'
        BY <3>1, <4>1, Zenon DEF ListedFresh, StaleRefused
      <4>5. /\ Unwritten(u)' <=> Unwritten(u)
            /\ NoEvent(u)' <=> NoEvent(u)
            /\ LastIn(audit, u, RightEvent(u)) => LastIn(audit, u, RightEvent(u))'
        BY <3>1, <4>1, Zenon DEF Unwritten, NoEvent, NoAuditOp, NoneIn, LastIn
      <4>6. UpToDate(u) => UpToDate(u)'
        BY <3>1, <4>1, Zenon DEF UpToDate
      <4>7. (Awaited \/ Listed(u) \/ Sent(u)) => (Awaited \/ Listed(u) \/ Sent(u))'
        BY <3>1, <4>1 DEF Awaited, Listed, Sent
      <4> QED
        BY <3>1, <4>2, <4>3, <4>4, <4>5, <4>6, <4>7, ZenonT(40) DEF ReindexInv, Reasoned, AuditDecides, ReindexDecides
    <3> QED
      BY <3>1, <3>2, <3>3 DEF ReindexInv
  <2> QED
    BY <2>1, <2>2, <2>3, <2>4, <2>5, <2>6 DEF Next
<1> QED
  BY <1>1, InitReindexInv, PTL DEF Spec

\* For every instance: an index for which everything is done is what the newest spec wants
\* (SettledConsistent).
THEOREM AlwaysSettledConsistent == Spec => []SettledConsistent
<1>1. ReindexInv => SettledConsistent
  <2> SUFFICES ASSUME ReindexInv, Settled, NEW u \in UID \ raced PROVE Right(u)
    BY DEF SettledConsistent, Consistent
  <2>1. /\ Calm /\ audit = <<>> /\ pend["audit"] = <<>> /\ pend["reindex"] = <<>>
        /\ pol.hash = {pol.conds} /\ ctl.pc = "idle" /\ \A m \in reindex : m.hash # pol.conds
    BY DEF Settled, Calm, AuditDrained, Published, ReindexDrained
  <2>2. Unwritten(u)
    BY <2>1 DEF Unwritten, NoEvent, NoAuditOp, NoneIn
  <2>3. ~Awaited /\ ~Listed(u) /\ ~Sent(u)
    BY <2>1, Zenon DEF Awaited, Listed, Sent
  <2>4. Ends("reindex", u)
    BY <2>2, <2>3 DEF ReindexInv, Reasoned, ReindexDecides
  <2>5. docs[u] = Goal(u)
    BY <2>1, <2>4 DEF Ends, EndsIn
  <2> QED
    BY <2>5 DEF Right, Wanted, Goal, Document, Matching
<1> QED
  BY <1>1, ReindexInvariance, PTL
=============================================================================
