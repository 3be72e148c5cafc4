----------------------------- MODULE PolicyNames -----------------------------
(***************************************************************************)
(* The names a ResourceIndexPolicy gives rise to: the index of its target  *)
(* (IndexNames), and the segments of its field paths, which admission      *)
(* checks with one parser (internal/jsonpath/validator.go) and the         *)
(* controller and the indexer read with another (ParsePath,                *)
(* internal/policy/evaluation/evaluator.go).                               *)
(*                                                                         *)
(* Names and paths are sequences of characters, since what is stated of    *)
(* them is what these functions do to single characters.  One letter, one  *)
(* digit and one kind of quote stand for all of them.                      *)
(***************************************************************************)
EXTENDS Integers, Sequences, Functions, FiniteSetsExt, IndexNames

-----------------------------------------------------------------------------
(* The validator: a path is a dot and then segments the regex matches.     *)

Letter == {"a"}
Digit == {"0"}
Quote == "'"

\* The four alternatives of segmentRegex, on the whole of t.
IsField(t) == /\ Len(t) >= 2 /\ t[1] = "." /\ t[2] \in Letter
              /\ \A n \in 3..Len(t) : t[n] \in Letter \cup Digit
IsKey(t) == /\ Len(t) >= 5
            /\ t[1] = "[" /\ t[2] = Quote /\ t[Len(t) - 1] = Quote /\ t[Len(t)] = "]"
            /\ \A n \in 3..Len(t) - 2 : t[n] # Quote
IsArrayIndex(t) == /\ Len(t) >= 3 /\ t[1] = "[" /\ t[Len(t)] = "]"
                   /\ \A n \in 2..Len(t) - 1 : t[n] \in Digit
IsTraversal(t) == t = <<"[", "*", "]">>

\* The length of the longest segment a path starts with, 0 if it starts with none.
MatchLength(path) ==
  Max({0} \cup {n \in DOMAIN path :
                  LET t == SubSeq(path, 1, n)
                  IN IsField(t) \/ IsKey(t) \/ IsArrayIndex(t) \/ IsTraversal(t)})

\* From the n-th character on, the path is a sequence of segments.
AllSegments(path) ==
  LET from[n \in 1..Len(path) + 1] ==
        LET len == MatchLength(SubSeq(path, n, Len(path)))
        IN n > Len(path) \/ (len > 0 /\ from[n + len])
  IN from[1]

ValidatePath(path) == path # <<>> /\ path[1] = "." /\ AllSegments(path)

-----------------------------------------------------------------------------
(* The parser.                                                             *)

\* strings.Index for one of several characters: 0 if there is none.
IndexOf(s, chars) ==
  IF \E n \in DOMAIN s : s[n] \in chars
  THEN Min({n \in DOMAIN s : s[n] \in chars}) ELSE 0

\* strings.Trim of quotes, at both ends.
TrimQuotes(s) ==
  LET kept == {n \in DOMAIN s : s[n] # Quote}
  IN IF kept = {} THEN <<>> ELSE SubSeq(s, Min(kept), Max(kept))

\* The position after a dot at n, if there is one.
PastDot(path, n) == IF n <= Len(path) /\ path[n] = "." THEN n + 1 ELSE n

\* A bracket ends at the first "]" whatever is quoted; a plain segment ends at the
\* next dot or bracket.
Segments(path) ==
  LET from[n \in 1..Len(path) + 1] ==
        LET rest == SubSeq(path, n, Len(path))
            end == IndexOf(rest, {"]"})
            cut == IndexOf(rest, {".", "["})
        IN IF rest = <<>> THEN <<>>
           ELSE IF rest[1] = "["
           THEN <<TrimQuotes(SubSeq(rest, 2, end - 1))>> \o from[PastDot(path, n + end)]
           ELSE IF cut = 0 THEN <<rest>>
           ELSE <<SubSeq(rest, 1, cut - 1)>> \o from[PastDot(path, n + cut - 1)]
  IN from[PastDot(path, 1)]

\* Faulty variant: a dot ends a segment even inside brackets.
SegmentsAtDots(path) ==
  LET Bare(s) == SelectSeq(s, LAMBDA ch : ch \notin {"[", "]", Quote})
      from[n \in 1..Len(path) + 1] ==
        LET rest == SubSeq(path, n, Len(path))
            cut == IndexOf(rest, {"."})
        IN IF cut = 0 THEN <<Bare(rest)>>
           ELSE <<Bare(SubSeq(rest, 1, cut - 1))>> \o from[n + cut]
  IN from[PastDot(path, 1)]

ParsePathAtDots(path) ==
  IF PastDot(path, 1) > Len(path) THEN <<>> ELSE SegmentsAtDots(path)

\* A bracket that is not closed makes the whole path nil; admission lets none through.
ParsePath(path) ==
  IF \E n \in DOMAIN path : path[n] = "[" /\ \A m \in n..Len(path) : path[m] # "]"
  THEN <<>> ELSE Segments(path)

\* Meilisearch traverses arrays by itself, so the "*" segments of a searchable path
\* are dropped.
Attribute(path) == SelectSeq(ParsePath(path), LAMBDA seg : seg # <<"*">>)

-----------------------------------------------------------------------------
(* What a path means, from the validator's grammar: the reference the      *)
(* parser is compared with.                                                *)

SegmentName(t) == IF t[1] = "." THEN Tail(t)
                  ELSE SelectSeq(SubSeq(t, 2, Len(t) - 1), LAMBDA ch : ch # Quote)

Named(path) ==
  LET from[n \in 1..Len(path) + 1] ==
        LET len == MatchLength(SubSeq(path, n, Len(path)))
            seg == SubSeq(path, n, n + len - 1)
        IN IF n > Len(path) THEN <<>>
           ELSE (IF IsTraversal(seg) THEN <<>> ELSE <<SegmentName(seg)>>) \o from[n + len]
  IN from[1]

\* A quoted key the parser misreads: one that holds a "]", or is a lone "*".
AwkwardKey(path) ==
  LET from[n \in 1..Len(path) + 1] ==
        LET len == MatchLength(SubSeq(path, n, Len(path)))
            seg == SubSeq(path, n, n + len - 1)
        IN /\ n <= Len(path)
           /\ \/ IsKey(seg) /\ (SegmentName(seg) = <<"*">> \/ "]" \in Range(SegmentName(seg)))
              \/ from[n + len]
  IN from[1]
=============================================================================
