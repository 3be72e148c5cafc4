------------------------- MODULE MCIndexerProcess ---------------------------
(* A chunk of two items and a shorter one, each sent at most twice, and the message is flushed  *)
(* up to twice.  An interval of two is in range; in an ackWait of two the start-up refuses it,  *)
(* four leaves no heartbeat to spare, and six, the shipped value, leaves one.                   *)
EXTENDS IndexerProcess

MCOptions == {[progress |-> 1, inRange |-> FALSE], [progress |-> 2, inRange |-> TRUE],
              [progress |-> 3, inRange |-> TRUE]}
Live(audit, reindex) == [c \in Consumers |-> IF c = "audit" THEN audit ELSE reindex]
MCLive == {Live(2, 4), Live(4, 4), Live(6, 4)}
=============================================================================
