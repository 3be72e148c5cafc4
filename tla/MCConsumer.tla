----------------------------- MODULE MCConsumer -----------------------------
(* Small instances of Consumer: two policies of the core group, which error answers carry too. *)
EXTENDS Consumer

MCTarget(kind) == [group |-> "", version |-> "v1", kind |-> kind]

\* Alternatives: one on a field that every content has, one that is an error on content b,
\* and one whose expression does not compile.  Content c satisfies none.
MCConds == {[compiles |-> TRUE, holds |-> {"a", "b"}, fails |-> {}],
            [compiles |-> TRUE, holds |-> {"a"}, fails |-> {"b"}],
            [compiles |-> FALSE, holds |-> {}, fails |-> {}]}

MCPolicies == {[target |-> MCTarget("Web"), conds |-> MCConds, index |-> "webs"],
               [target |-> MCTarget("Job"), conds |-> {}, index |-> "jobs"]}

MCScopes == {NoScope, [type |-> "project", name |-> "p1"], [type |-> "global", name |-> "none"]}
=============================================================================
