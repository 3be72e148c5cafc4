------------------------------ MODULE PolicyAPI ------------------------------
(***************************************************************************)
(* The API server's side of ResourceIndexPolicy: the strategies of the     *)
(* policy and of its status (internal/registry/policy/resourceindexpolicy),*)
(* the validation they share (internal/policy/validation), and what a      *)
(* policy they admit means to the indexer's PolicyCache.                   *)
(*                                                                         *)
(* A write is validated against a list of the policies and committed in a  *)
(* later step; writes of different policies overlap.  Users create, edit   *)
(* and delete; the controller adds its finalizer, reports Ready and        *)
(* removes the finalizer, and each of these is an update that is validated *)
(* like any other.                                                         *)
(***************************************************************************)
EXTENDS Evaluation, PolicyNames, CelValidator

CONSTANTS Policy,        \* names of policies
          Targets,       \* target resources: [group, version, kind]
          Authors,       \* the conditions and fields users write, for each policy:
                         \* conds: a sequence of [name, expr]; fields: of paths
          States,        \* states of a resource
          MaxWrites(_),  \* bound on writes by users, for each choice of them
          MaxListFaults, \* bound on List calls that fail
          Absent         \* no such object

ASSUME WritesAreNat == MaxListFaults \in Nat /\ \A f \in Authors : MaxWrites(f) \in Nat

\* The names of Kubernetes types have no separator, and their versions and kinds no dots.  Admission
\* does not look: a target that is named otherwise has no resources.
ASSUME TargetsAreNames ==
  LET chars == UNION {Range(t.group) \cup Range(t.version) \cup Range(t.kind) : t \in Targets}
  IN \A t \in Targets :
       /\ {t.group, t.version, t.kind} \subseteq Seq(chars \ {Separator})
       /\ {t.version, t.kind} \subseteq Seq(chars \ {Separator, "."})

\* Conditions and fields are lists, and an expression holds in some of the states.
ASSUME DraftsAreLists ==
  \A f \in Authors, p \in Policy :
    /\ f[p].conds \in Seq(Range(f[p].conds)) /\ f[p].fields \in Seq(Range(f[p].fields))
    /\ \A c \in Range(f[p].conds) : c.expr # Empty => c.expr.holds \subseteq States

VARIABLES store,      \* the policies in the API server's storage
          draft,      \* the conditions and fields each policy's author writes
          writes,     \* validated writes that are not committed yet
          raced,      \* some write was committed on a list that was no longer true
          edits, listFaults

vars == <<store, draft, writes, raced, edits, listFaults>>

-----------------------------------------------------------------------------
(* Validation.                                                             *)

\* What a List shows of the other policies.
Others(p) == {<<q, store[q].spec.target>> : q \in {q \in Policy \ {p} : store[q] # Absent}}

\* An error of the List is dropped, and the policy validated as if it were the only one.
Listed(p) == {Others(p)} \cup (IF listFaults < MaxListFaults THEN {{}} ELSE {})

UniqueTarget(spec, others) == \A o \in others : o[2] # spec.target

NoneRepeated(s) == \A m, n \in DOMAIN s : s[m] = s[n] => m = n

\* Faulty variants: targets are not compared; the conditions are not checked; their
\* paths are not.
ValidateSpecAlone(spec, others) ==
  /\ \A n \in DOMAIN spec.conds : Validate(spec.conds[n].expr)
  /\ \A n \in DOMAIN spec.fields : ValidatePath(spec.fields[n])
  /\ NoneRepeated(spec.fields)
  /\ NoneRepeated([n \in DOMAIN spec.conds |-> spec.conds[n].name])

ValidateTargetOnly(spec, others) == UniqueTarget(spec, others)

ValidateResourceIndexPolicy(spec, others) ==
  /\ UniqueTarget(spec, others)
  /\ \A n \in DOMAIN spec.conds : Validate(spec.conds[n].expr)
  /\ \A n \in DOMAIN spec.fields : ValidatePath(spec.fields[n])
  /\ NoneRepeated(spec.fields)
  /\ NoneRepeated([n \in DOMAIN spec.conds |-> spec.conds[n].name])

-----------------------------------------------------------------------------
(* Writes.                                                                 *)

SpecFor(p, target) == [target |-> target, conds |-> draft[p].conds, fields |-> draft[p].fields]

Init == /\ store = [p \in Policy |-> Absent]
        /\ draft \in Authors
        /\ writes = {} /\ raced = FALSE
        /\ edits = 0 /\ listFaults = 0

\* Validate, ValidateUpdate and the status's ValidateUpdate are the same function.
\* An invalid write is refused, which changes nothing.
Admit(p, by, obj) ==
  \E listed \in Listed(p) :
    /\ ValidateResourceIndexPolicy(obj.spec, listed)
    /\ writes' = writes \cup {[p |-> p, by |-> by, obj |-> obj, listed |-> listed,
                               stale |-> FALSE]}
    /\ listFaults' = IF listed = Others(p) THEN listFaults ELSE listFaults + 1
    /\ UNCHANGED <<store, draft, raced>>

Create(p, target) ==
  /\ edits < MaxWrites(draft) /\ store[p] = Absent
  /\ Admit(p, "user", [spec |-> SpecFor(p, target), fin |-> FALSE, del |-> FALSE, ready |-> FALSE])
  /\ edits' = edits + 1

Update(p, target) ==
  /\ edits < MaxWrites(draft) /\ store[p] # Absent
  /\ store[p].spec.target # target
  /\ Admit(p, "user", [store[p] EXCEPT !.spec = SpecFor(p, target)])
  /\ edits' = edits + 1

\* Every other write of the policy is on a version that is no longer the stored one.
Superseding(p) == {IF w.p = p THEN [w EXCEPT !.stale = TRUE] ELSE w : w \in writes}

\* A create of a name that is taken, and an update of an older version, are refused.
\* An object being deleted goes with its last finalizer.
Commit(w) ==
  /\ w \in writes
  /\ IF w.stale
     THEN writes' = writes \ {w} /\ UNCHANGED <<store, raced>>
     ELSE /\ store' = [store EXCEPT ![w.p] = IF w.obj.del /\ ~w.obj.fin THEN Absent ELSE w.obj]
          /\ writes' = Superseding(w.p) \ {[w EXCEPT !.stale = TRUE]}
          /\ raced' = (raced \/ w.listed # Others(w.p))
  /\ UNCHANGED <<draft, edits, listFaults>>

\* Deleting is not validated.
Delete(p) ==
  /\ edits < MaxWrites(draft) /\ store[p] # Absent /\ ~store[p].del
  /\ store' = [store EXCEPT ![p] = IF @.fin THEN [@ EXCEPT !.del = TRUE] ELSE Absent]
  /\ writes' = Superseding(p)
  /\ edits' = edits + 1
  /\ UNCHANGED <<draft, raced, listFaults>>

\* The controller's one worker writes one thing at a time.
Idle == \A w \in writes : w.by # "controller"

\* Faulty variant: the finalizer of a deleted policy stays.
ControlKeeping(p) ==
  /\ Idle /\ store[p] # Absent
  /\ ~store[p].del /\ ~store[p].fin
  /\ Admit(p, "controller", [store[p] EXCEPT !.fin = TRUE])
  /\ UNCHANGED edits

\* The finalizer comes first, then the status; a deleted policy is let go.  The
\* status strategy takes the spec from the stored object.
Control(p) ==
  /\ Idle /\ store[p] # Absent
  /\ \/ /\ ~store[p].del /\ ~store[p].fin
        /\ Admit(p, "controller", [store[p] EXCEPT !.fin = TRUE])
     \/ /\ ~store[p].del /\ store[p].fin /\ ~store[p].ready
        /\ Admit(p, "controller", [store[p] EXCEPT !.ready = TRUE])
     \/ /\ store[p].del
        /\ Admit(p, "controller", [store[p] EXCEPT !.fin = FALSE])
  /\ UNCHANGED edits

Next == \/ \E p \in Policy, t \in Targets : Create(p, t) \/ Update(p, t)
        \/ \E p \in Policy : Delete(p) \/ Control(p)
        \/ \E w \in writes : Commit(w)

Spec == Init /\ [][Next]_vars

\* The API server finishes what it has admitted, and the controller's worker, which
\* is woken by a requeue, works.
Fairness == /\ WF_vars(\E p \in Policy : Control(p))
            /\ WF_vars(\E w \in writes : Commit(w))

FairSpec == Spec /\ Fairness

-----------------------------------------------------------------------------
(* What the PolicyCache makes of a stored policy.                          *)

Stored == {p \in Policy : store[p] # Absent}

CachedCondition(c) ==
  IF c.expr = Empty THEN [compiles |-> FALSE, holds |-> {}, fails |-> {}]
  ELSE [compiles |-> c.expr.compiles /\ c.expr.bool, holds |-> c.expr.holds, fails |-> {}]

Cached(spec) == [target |-> spec.target,
                 conds |-> {CachedCondition(spec.conds[n]) : n \in DOMAIN spec.conds}]

\* The states of its target's resources that a policy puts into its index.
Indexed(spec) ==
  {s \in States : Evaluate(Cached(spec), [group |-> spec.target.group,
                    version |-> spec.target.version, kind |-> spec.target.kind, state |-> s])}

Satisfying(spec) ==
  IF spec.conds = <<>> THEN States
  ELSE UNION {spec.conds[n].expr.holds : n \in {n \in DOMAIN spec.conds :
                                                  spec.conds[n].expr # Empty}}

-----------------------------------------------------------------------------
(* Properties.                                                             *)

SameButForDots(t, u) ==
  /\ t # u
  /\ GetSearchIndex(t) = GetSearchIndex(u)
  /\ t.version = u.version /\ t.kind = u.kind

\* Two policies share an index only if one of them was committed on a list that had
\* changed or could not be read, or if their groups differ in nothing but dots and
\* dashes: the uniqueness that admission checks on a list is lost in no other way,
\* whatever users, the controller and the status do in between.
IndexOwned ==
  \A p, q \in Stored : p # q /\
     GetSearchIndex(store[p].spec.target) = GetSearchIndex(store[q].spec.target)
     => raced \/ SameButForDots(store[p].spec.target, store[q].spec.target)

\* Every stored condition is empty or a boolean expression with no function outside
\* the allowed ones at any place of its tree and no deeper than the limit, and no
\* condition's name or field's path is repeated: there is no way round the check.
StoredIsValid ==
  \A p \in Stored : LET spec == store[p].spec IN
     /\ \A n \in DOMAIN spec.conds :
          LET x == spec.conds[n].expr
          IN x = Empty \/ (x.compiles /\ x.bool /\ SpineAllowed(x.spine))
     /\ Len(spec.fields) = Cardinality(Range(spec.fields))
     /\ Len(spec.conds) = Cardinality({c.name : c \in Range(spec.conds)})

\* "a resource is indexed if it satisfies ANY condition", of every stored policy.
IndexesSatisfying == \A p \in Stored : Indexed(store[p].spec) = Satisfying(store[p].spec)

\* The same for policies that have an expression in some condition: what admission
\* lets through the PolicyCache compiles, so no condition is dropped in silence.
IndexesSatisfyingSome ==
  \A p \in Stored : LET spec == store[p].spec IN
     (spec.conds = <<>> \/ \E n \in DOMAIN spec.conds : spec.conds[n].expr # Empty)
     => Indexed(spec) = Satisfying(spec)

\* The attribute that is made searchable for a stored path is the field the path
\* names by the validator's grammar, unless the path has a quoted key with a "]" in
\* it or a key that is "*": two parsers agree on everything else admission accepts.
AttributesNamed ==
  \A p \in Stored : \A n \in DOMAIN store[p].spec.fields :
     LET path == store[p].spec.fields[n]
     IN Attribute(path) = Named(path) \/ AwkwardKey(path)

\* A deleted policy goes in the end, or has its target in common with another one:
\* the finalizer's removal is validated too, so a duplicate that slipped in blocks it.
DeletionCompletes ==
  \A p \in Policy :
     (p \in Stored /\ store[p].del)
     ~> \/ p \notin Stored
        \/ \E q \in Stored \ {p} : store[q].spec.target = store[p].spec.target
=============================================================================
