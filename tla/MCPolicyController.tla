------------------------ MODULE MCPolicyController ------------------------
(* Instances of PolicyController for TLC.                                  *)
EXTENDS PolicyController

CONSTANTS p, q

\* Two kinds of resources, each with its index.
IndexOf(target) == <<"index", target>>

Field(path, searchable) == [path |-> path, searchable |-> searchable]

\* Two versions of a policy's fields, a plain path, and an array with a path that is not
\* searchable; a version with two paths to one attribute; and one with another target.
Plain == [target |-> "K", fields |-> <<Field(<<"name">>, TRUE)>>]
Nested == [target |-> "K", fields |-> <<Field(<<"ports", "*", "name">>, TRUE),
                                                Field(<<"kind">>, FALSE)>>]
Doubled == [target |-> "K", fields |-> <<Field(<<"ports", "*", "name">>, TRUE),
                                                 Field(<<"ports", "name">>, TRUE)>>]
Moved == [Plain EXCEPT !.target = "L"]

\* The status of a manifest exported when the policy was ready.
Exported == [index |-> GetSearchIndex(Plain.target), hash |-> <<Plain, 0>>, ready |-> "yes",
             valid |-> "ok", idx |-> "created", srch |-> "synced", filt |-> "synced",
             reidx |-> "published"]

OneResource == {<<"platform", "r1">>}
OneTenant == {<<"platform", "r1">>, <<"platform", "r2">>}
TwoTenants == {<<"platform", "r1">>, <<"project", "r2">>}

AnyCall == {"exists", "task", "create", "wait", "attributes", "status", "list", "publish", "process"}

\* A single author, and nothing that goes wrong.
Calm == [names |-> {p}, specs |-> {Plain}, statuses |-> {NoStatus}, calls |-> AnyCall,
         faults |-> 0, edits |-> 2, admitted |-> 1, late |-> 0, restarts |-> 0]

\* An edit or a deletion, a failure and a restart; a policy created with a status.
PublishScopes ==
  {[Calm EXCEPT !.specs = {Plain, Nested}, !.faults = 1, !.restarts = 1],
   [Calm EXCEPT !.specs = {Plain, Nested}, !.statuses = {Exported}, !.faults = 1]}

\* Policies that succeed each other, an edit with a restart, a spec that never settles, and
\* a policy that moves to another target.
LiveScopes ==
  {[Calm EXCEPT !.names = {p, q}, !.calls = AnyCall \ {"wait"}, !.edits = 3, !.faults = 1],
   [Calm EXCEPT !.names = {p, q}, !.calls = {"wait"}, !.edits = 3, !.faults = 1, !.restarts = 1],
   [Calm EXCEPT !.names = {p, q}, !.edits = 3, !.late = 1],
   [Calm EXCEPT !.specs = {Plain, Nested}, !.restarts = 1],
   [Calm EXCEPT !.specs = {Plain, Doubled}],
   [Calm EXCEPT !.specs = {Plain, Moved}, !.edits = 3]}

\* One creation and one publication that fails.
FailedPublication == {[Calm EXCEPT !.calls = {"publish"}, !.faults = 1, !.edits = 1]}
=============================================================================
