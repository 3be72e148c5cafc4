---------------------------- MODULE MCPolicyAPI ----------------------------
(* Two policies.  The author of q writes something plain; the author of p   *)
(* writes one of many drafts, so that every small tree and path goes        *)
(* through the same admission and the same races.                           *)
EXTENDS PolicyAPI

CONSTANTS p, q, PathLength

Target(g) == [group |-> g, version |-> <<"1">>, kind |-> <<"K">>]
MCTargets == {Target(<<"a", ".", "b">>), Target(<<"a", "-", "b">>)}
MCStates == {"s1", "s2"}

Cond(name, expr) == [name |-> name, expr |-> expr]
Text(compiles, bool, spine, holds) ==
  [text |-> "given", compiles |-> compiles, bool |-> bool, spine |-> spine,
   tree |-> TreeOf(spine), holds |-> holds]
Plain(name, s) == Cond(name, Text(TRUE, TRUE, <<>>, {s}))

\* Every place, with allowed, internal, adding and other functions where it is a call's.
Nodes == {[place |-> pl, fn |-> fn] : pl \in {"arg", "target"},
                                      fn \in {"matches", "@not_strictly_false", "_+_", "duration"}}
         \cup {[place |-> pl, fn |-> "none"] : pl \in Place \ {"arg", "target"}}
Spines == UNION {[1..n -> Nodes] : n \in 0..MaxDepth}
          \cup {[n \in 1..MaxDepth + 1 |-> [place |-> pl, fn |-> "matches"]] : pl \in Place}

Path(s) == <<".", "a">> \o s
Chars == Letter \cup Digit \cup {Quote, ".", "[", "]", "*"}
Paths == UNION {{Path(s) : s \in [1..n -> Chars]} : n \in 0..PathLength}
         \cup {Path(<<"[">> \o s \o <<"]">> \o rest) :
                  s \in {<<"*">>, <<"0">>} \cup {<<Quote, ch, Quote>> : ch \in Chars},
                  rest \in [1..2 -> Chars]}
         \cup {<<>>, <<"a">>, <<".">>, <<".", ".", "a">>, <<"[", "*", "]">>}

Draft(conds, fields) == [conds |-> conds, fields |-> fields]
PlainDraft == Draft(<<>>, <<Path(<<>>)>>)

MCDrafts ==
  {PlainDraft, Draft(<<>>, <<Path(<<>>), Path(<<>>)>>)}
  \cup {Draft(<<Cond("n", Text(TRUE, TRUE, spine, {"s1"}))>>, <<Path(<<>>)>>) : spine \in Spines}
  \cup {Draft(<<>>, <<path>>) : path \in Paths}
  \cup {Draft(<<c>>, <<Path(<<>>)>>) :
          c \in {Cond("n", Empty), Cond("n", Text(FALSE, FALSE, <<>>, {})),
                 Cond("n", Text(TRUE, FALSE, <<>>, {}))}}
  \cup {Draft(<<Plain("n", "s1"), c>>, <<Path(<<>>)>>) :
          c \in {Plain("n", "s2"), Plain("m", "s2"), Cond("m", Empty)}}

Both(dp, dq) == [r \in {p, q} |-> IF r = p THEN dp ELSE dq]
EmptyDraft == Draft(<<Cond("n", Empty)>>, <<Path(<<>>)>>)

\* Trees and paths are written once; plain drafts are edited and raced.
MCAuthors == {Both(dr, PlainDraft) : dr \in MCDrafts}
MCMaxWrites(f) == IF f[p] \in {PlainDraft, EmptyDraft} THEN 3 ELSE 1

FewAuthors == {Both(PlainDraft, EmptyDraft)}
FewMaxWrites(f) == 2
=============================================================================
