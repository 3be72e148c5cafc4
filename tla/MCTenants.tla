------------------------------ MODULE MCTenants -----------------------------
(* Two policies and two project names, from five situations. *)
EXTENDS Tenants

CONSTANTS a, b, p, q

Start(indexed, engaged, projects, writes, edits) ==
  [indexed |-> indexed, engaged |-> engaged,
   left |-> [projects |-> projects, writes |-> writes, edits |-> edits, faults |-> 1]]

MCStarts == {
  Start({q}, {}, 1, 2, 0),          \* a new policy, a project that comes, two writes
  Start({p, q}, {a, b}, 0, 0, 1),   \* an edit while both projects go
  Start({p, q}, {a, b}, 1, 1, 0),   \* both go, and one name is taken again and written to
  Start({p, q}, {a}, 1, 0, 1),      \* an edit while the name is taken again
  Start({p, q}, {a}, 0, 2, 1)}      \* an edit among two writes
=============================================================================
