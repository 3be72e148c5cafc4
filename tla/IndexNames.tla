----------------------------- MODULE IndexNames -----------------------------
(***************************************************************************)
(* The name of the search index of a policy's target                       *)
(* (internal/utils/search.go).  A name is a sequence of characters.        *)
(***************************************************************************)
EXTENDS Sequences

Separator == "_"

GetSearchIndex(t) ==
  LET res == t.group \o <<Separator>> \o t.version \o <<Separator>> \o t.kind
  IN [i \in DOMAIN res |-> IF res[i] = "." THEN "-" ELSE res[i]]
=============================================================================
