------------------------------ MODULE KindNames -----------------------------
(***************************************************************************)
(* The names of searchable kinds in the command line client                *)
(* (cmd/milo-search/helpers.go, kinds.go): references Kind[.group][/version]*)
(* are parsed, printed, and resolved against the listed policies, and a    *)
(* misspelt name gets the nearest kind as a suggestion.  A string is a     *)
(* sequence of characters.                                                 *)
(***************************************************************************)
EXTENDS Integers, Sequences, SequencesExt

\* The alphabet's upper case letters; every other character is its own lower case.
LowerCase(c) == CASE c = "A" -> "a" [] c = "B" -> "b" [] c = "C" -> "c" [] OTHER -> c

ToLower(s) == [n \in DOMAIN s |-> LowerCase(s[n])]

EqualFold(s, t) == ToLower(s) = ToLower(t)

\* The parts of s before and after the first c; all of s and nothing without a c.
Cut(s, c) ==
  LET at == SelectInSeq(s, LAMBDA x : x = c)
  IN IF at = 0 THEN <<s, <<>>>> ELSE <<SubSeq(s, 1, at - 1), SubSeq(s, at + 1, Len(s))>>

\* Faulty variant: the group starts after the last dot.
ParseKindRefAtLastDot(ref) ==
  LET slash == Cut(ref, "/")
      dot == Cut(Reverse(slash[1]), ".")
  IN IF dot[2] = <<>> THEN [kind |-> slash[1], group |-> <<>>, version |-> slash[2]]
     ELSE [kind |-> Reverse(dot[2]), group |-> Reverse(dot[1]), version |-> slash[2]]

ParseKindRef(ref) ==
  LET slash == Cut(ref, "/")
      dot == Cut(slash[1], ".")
  IN [kind |-> dot[1], group |-> dot[2], version |-> slash[2]]

\* The reference that "kinds -o name" prints for a target.
KindRef(target) ==
  IF target.group = <<>> THEN target.kind ELSE target.kind \o <<".">> \o target.group

\* The targets a parsed reference matches; what the reference leaves out matches all.
Matches(ref, targets) ==
  {t \in targets : /\ EqualFold(t.kind, ref.kind)
                   /\ ref.group # <<>> => EqualFold(t.group, ref.group)
                   /\ ref.version # <<>> => EqualFold(t.version, ref.version)}

\* Faulty variant: a letter can be inserted or deleted but not replaced.
LevenshteinWithoutReplacing(a, b) ==
  LET dist[i \in 0 .. Len(a), j \in 0 .. Len(b)] ==
        IF i = 0 THEN j
        ELSE IF j = 0 THEN i
        ELSE IF a[i] = b[j] THEN dist[i - 1, j - 1]
        ELSE Min({dist[i - 1, j] + 1, dist[i, j - 1] + 1})
  IN dist[Len(a), Len(b)]

\* The table of levenshtein; the code keeps its last two rows.
Levenshtein(a, b) ==
  LET dist[i \in 0 .. Len(a), j \in 0 .. Len(b)] ==
        IF i = 0 THEN j
        ELSE IF j = 0 THEN i
        ELSE Min({dist[i - 1, j] + 1, dist[i, j - 1] + 1,
                  dist[i - 1, j - 1] + (IF a[i] = b[j] THEN 0 ELSE 1)})
  IN dist[Len(a), Len(b)]

\* How far a suggestion may be from the name that was typed.
Close(name) == 1 + Len(name) \div 3

\* The kinds nearestKind may suggest: the nearest ones (the listing's order decides between
\* them), none when they are too far.
NearestKinds(name, targets) ==
  {t \in targets :
     LET d == Levenshtein(ToLower(name), ToLower(t.kind))
     IN d <= Close(name) /\ \A u \in targets : d <= Levenshtein(ToLower(name), ToLower(u.kind))}

-----------------------------------------------------------------------------
(* The reference: an alignment pairs letters of a with letters of b in order; letters that *)
(* are not paired are deleted or inserted, and unequal letters of a pair are replaced. *)

Alignments(a, b) ==
  {m \in SUBSET ((DOMAIN a) \X (DOMAIN b)) :
     \A x, y \in m : (x[1] < y[1] <=> x[2] < y[2]) /\ (x[1] = y[1] <=> x[2] = y[2])}

EditDistance(a, b) ==
  Min({Len(a) + Len(b) - 2 * Cardinality(m) + Cardinality({x \in m : a[x[1]] # b[x[2]]}) :
         m \in Alignments(a, b)})

=============================================================================
