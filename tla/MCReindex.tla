----------------------------- MODULE MCReindex ------------------------------
(* Small instances of Reindex: two contents, and specs that want one or the other. *)
EXTENDS Reindex

MCTarget == [group |-> "apps.example", version |-> "v1", kind |-> "Web"]
MCWants(state) == {[compiles |-> TRUE, holds |-> {state}, fails |-> {}]}
MCSpecs == {MCWants("a"), MCWants("b")}
=============================================================================
