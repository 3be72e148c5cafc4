---------------------------- MODULE CelValidator ----------------------------
(***************************************************************************)
(* The check of a condition's CEL expression (internal/cel/validator.go).  *)
(* An expression is Empty, or a record of what compiling it gives: whether *)
(* it compiles, whether its type is bool, its tree, and the resource       *)
(* states it holds in.  A tree's nodes are those of cel-go's ast package;  *)
(* identifiers and literals are leaves.                                    *)
(***************************************************************************)
EXTENDS Integers, Sequences, SequencesExt

CONSTANT MaxDepth    \* the depth NewStrategy gives the validator

ASSUME DepthIsNat == MaxDepth \in Nat

Empty == [text |-> "empty"]

AllowedOperators ==
  {"_==_", "_!=_", "_<_", "_<=_", "_>_", "_>=_", "_&&_", "_||_", "!_", "_[_]", "_._",
   "_?_:_", "has", "contains", "startsWith", "endsWith", "matches", "@in", "exists",
   "all", "size", "map", "filter"}

\* Names with a leading "@": what macros expand to.
Internal == {"@in", "@not_strictly_false"}

Leaf == [kind |-> "leaf"]
None == [kind |-> "none"]

\* Adding is allowed only where a list literal is added, as the macros do.
Callable(call) ==
  \/ call.fn \in Internal \cup AllowedOperators
  \/ /\ call.fn = "_+_" /\ Len(call.args) = 2
     /\ \E n \in 1..2 : call.args[n].kind = "list"

\* Faulty variant: the receiver of a member function is not looked into.
ChildrenWithoutTarget(e) ==
  CASE e.kind = "call" -> e.args
    [] e.kind = "select" -> <<e.operand>>
    [] e.kind = "list" -> e.elements
    [] e.kind = "map" -> FlattenSeq([n \in DOMAIN e.entries |-> <<e.entries[n].key, e.entries[n].value>>])
    [] e.kind = "struct" -> e.fields
    [] e.kind = "comprehension" ->
         <<e.iterRange, e.accuInit, e.loopCondition, e.loopStep, e.result>>
    [] OTHER -> <<>>

\* The parts of a node that are checked in turn.
Children(e) ==
  CASE e.kind = "call" -> (IF e.target = None THEN <<>> ELSE <<e.target>>) \o e.args
    [] e.kind = "select" -> <<e.operand>>
    [] e.kind = "list" -> e.elements
    [] e.kind = "map" -> FlattenSeq([n \in DOMAIN e.entries |-> <<e.entries[n].key, e.entries[n].value>>])
    [] e.kind = "struct" -> e.fields
    [] e.kind = "comprehension" ->
         <<e.iterRange, e.accuInit, e.loopCondition, e.loopStep, e.result>>
    [] OTHER -> <<>>

\* The descent, by depth: no node is deeper than the limit, and every call is callable.
CheckExpr(e) ==
  LET at[depth \in 0 .. MaxDepth + 1] ==
        IF depth = 0 THEN {e} ELSE UNION {ToSet(Children(x)) : x \in at[depth - 1]}
  IN /\ at[MaxDepth + 1] = {}
     /\ \A depth \in 0 .. MaxDepth : \A x \in at[depth] : x.kind = "call" => Callable(x)

\* An empty expression is not looked at.
Validate(x) == x # Empty => x.compiles /\ x.bool /\ CheckExpr(x.tree)

-----------------------------------------------------------------------------
(* Trees along one branch: a spine is the sequence of the places its nodes *)
(* are in, from the root down, each with a function name where it is one   *)
(* of a call.  What the validator must say of such a tree can be read off  *)
(* the spine.                                                              *)

Place == {"arg", "target", "operand", "element", "key", "value", "field", "iterRange",
          "accuInit", "loopCondition", "loopStep", "result"}

Call(fn, target, args) == [kind |-> "call", fn |-> fn, target |-> target, args |-> args]
Comprehension == [kind |-> "comprehension", iterRange |-> Leaf, accuInit |-> Leaf,
                  loopCondition |-> Leaf, loopStep |-> Leaf, result |-> Leaf]

Around(node, e) ==
  CASE node.place = "arg" -> Call(node.fn, None, <<Leaf, e>>)
    [] node.place = "target" -> Call(node.fn, e, <<Leaf>>)
    [] node.place = "operand" -> [kind |-> "select", operand |-> e]
    [] node.place = "element" -> [kind |-> "list", elements |-> <<Leaf, e>>]
    [] node.place = "key" -> [kind |-> "map", entries |-> <<[key |-> e, value |-> Leaf]>>]
    [] node.place = "value" -> [kind |-> "map", entries |-> <<[key |-> Leaf, value |-> e]>>]
    [] node.place = "field" -> [kind |-> "struct", fields |-> <<Leaf, e>>]
    [] OTHER -> [Comprehension EXCEPT ![node.place] = e]

TreeOf(spine) == FoldRight(LAMBDA node, e : Around(node, e), spine, Leaf)

\* The reference: no deeper than allowed, and no call but of an allowed function,
\* of an internal one, or "+" with a list below it.
SpineAllowed(spine) ==
  /\ Len(spine) <= MaxDepth
  /\ \A n \in DOMAIN spine : spine[n].place \in {"arg", "target"} =>
       \/ spine[n].fn \in AllowedOperators \cup Internal
       \/ /\ spine[n].fn = "_+_" /\ spine[n].place = "arg"
          /\ n < Len(spine) /\ spine[n + 1].place = "element"
=============================================================================
