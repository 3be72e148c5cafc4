----------------------------- MODULE MCPipeline -----------------------------
(* Small instances of Pipeline: two audit events about one document, so that *)
(* redelivery, replacement in the buffer and overlapping flushes all concern  *)
(* the same key.                                                              *)
EXTENDS Pipeline, TLC

CONSTANTS i1, i2, d, h

Pair(dels, ups) == [dels |-> dels, ups |-> ups]

\* An update and a later update of one resource.
TwoUpdates == (1 :> Pair({}, {<<i1, d>>})) @@ (2 :> Pair({}, {<<i1, d>>}))

\* An update, and an event that moves the resource to another policy's index.
MoveIndex == (1 :> Pair({}, {<<i1, d>>})) @@ (2 :> Pair({<<i1, d>>}, {<<i2, d>>}))

MCContents == {Event[m] : m \in Msg}
=============================================================================
