----------------------------- MODULE Evaluation -----------------------------
(***************************************************************************)
(* Matching a resource against a cached policy and turning it into a       *)
(* document (internal/policy/evaluation/evaluator.go, the compiling part of*)
(* internal/indexer/policy_cache.go, internal/indexer/helper.go and the    *)
(* tenant part of internal/indexer/consumer.go), as operators.             *)
(*                                                                         *)
(* A resource's content is one value, its state.  A condition is the       *)
(* record [compiles, holds, fails]: whether its expression compiles to a   *)
(* boolean program, the states it holds in, and the states on which its    *)
(* evaluation is an error.  A policy is [target, conds, index]; an audit   *)
(* event is [verb, scope, ref, obj], obj being NoObject or a response.     *)
(***************************************************************************)
EXTENDS FiniteSets

NoObject == [kind |-> "none"]
NoUID == 0

\* The name of an index that a policy's status does not have yet.
NoIndex == "none"

\* Conditions that do not compile are logged and left out of the cached policy.
Compile(policy) == {c \in policy.conds : c.compiles}

\* Faulty variant: every condition has to hold.
EvaluateAll(policy, obj) ==
  /\ obj.group = policy.target.group
  /\ obj.version = policy.target.version
  /\ obj.kind = policy.target.kind
  /\ \A c \in Compile(policy) : obj.state \notin c.fails /\ obj.state \in c.holds

\* Conditions are alternatives; a failing evaluation counts as false, and a policy
\* without compiled conditions matches every resource of its target.
Evaluate(policy, obj) ==
  /\ obj.group = policy.target.group
  /\ obj.version = policy.target.version
  /\ obj.kind = policy.target.kind
  /\ \/ Compile(policy) = {}
     \/ \E c \in Compile(policy) : obj.state \notin c.fails /\ obj.state \in c.holds

\* cases.Title on the scope types that are written: a first capital, the rest small.
Title == [project |-> "Project", Project |-> "Project", global |-> "Global",
          organization |-> "Organization", user |-> "User"]

\* No annotation: the platform's own control plane.
NoScope == [type |-> "none", name |-> "none"]

\* The tenant of an event, from its two scope annotations.
ExtractTenant(scope) ==
  [type |-> IF scope.type \in {"none", "platform"} THEN "platform" ELSE Title[scope.type],
   name |-> IF scope.name = "none" THEN "platform" ELSE scope.name]

\* The document of a matching resource.  Its key is the UID.
Transform(obj, tenant) == [state |-> obj.state, tenant |-> tenant]

ResolveUID(event) ==
  IF event.obj # NoObject /\ event.obj.uid # NoUID THEN event.obj.uid
  ELSE IF event.ref.uid # NoUID THEN event.ref.uid
  ELSE IF event.obj # NoObject /\ event.obj.details # NoUID THEN event.obj.details
  ELSE NoUID

\* An unknown kind matches every kind of the group.
TargetsResource(policy, group, kind) ==
  policy.target.group = group /\ (kind = "unknown" \/ policy.target.kind = kind)

\* The type of a deleted resource; a Status response tells the group only.
DeletedResourceType(event) ==
  IF event.obj # NoObject /\ event.obj.kind # "Status"
  THEN [group |-> event.obj.group, kind |-> event.obj.kind]
  ELSE [group |-> event.ref.group, kind |-> "unknown"]

=============================================================================
