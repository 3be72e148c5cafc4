--------------------------- MODULE IndexContract ---------------------------
(***************************************************************************)
(* What the indexer promises about a stream of messages and a search index:*)
(* the index changes only by applying effects that messages really have,   *)
(* and a message is acknowledged, for good, only once each of its effects  *)
(* was applied or was replaced, before it was sent, by one that was.       *)
(***************************************************************************)
CONSTANTS Msg, Key, Effect, NoOp   \* Effect[m][k]: what m does to k, or NoOp

VARIABLES acked, covered, docs

Init ==
  /\ acked = {}
  /\ covered = {}
  /\ docs = [k \in Key |-> NoOp]

\* One Meilisearch task writes the keys K: each gets the effect of one message
\* on it, which covers messages whose effect it carries or replaces.
Apply(K) ==
  /\ \A k \in Key \ K : docs'[k] = docs[k]
  /\ \A k \in K : docs'[k] # NoOp /\ \E m \in Msg : docs'[k] = Effect[m][k]
  /\ covered \subseteq covered'
  /\ \A c \in covered' \ covered : c[2] \in K /\ Effect[c[1]][c[2]] # NoOp
  /\ UNCHANGED acked

Ack(S) ==
  /\ \A m \in S, k \in Key : Effect[m][k] # NoOp => <<m, k>> \in covered
  /\ acked' = acked \cup S
  /\ UNCHANGED <<covered, docs>>

Next ==
  \/ \E K \in SUBSET Key : Apply(K)
  \/ \E S \in SUBSET Msg : Ack(S)

Spec == Init /\ [][Next]_<<acked, covered, docs>>
=============================================================================
