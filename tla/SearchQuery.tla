----------------------------- MODULE SearchQuery ----------------------------
(***************************************************************************)
(* The ResourceSearchQuery endpoint (internal/registry/resourcesearchquery)*)
(* and the state of its server: the policies of the API, the server's cache*)
(* of them, the paging secret and the clock.  Meilisearch ranks the        *)
(* documents; the model fixes a ranking, and a federated search returns the*)
(* slice [offset, offset + limit) of the ranked documents of the searched  *)
(* indexes that the filter lets through.  A continue token is the record of*)
(* its claims with the secret that signs it.                               *)
(***************************************************************************)
EXTENDS Integers, Sequences, SequencesExt

CONSTANTS Ranked,               \* the documents, best first: [index, uid, tenant, wellFormed]
          Catalogs,             \* sets of policies [target, index, ready] the API may hold
          NoParent,
          MaxSearchLimit, DefaultSearchLimit, PagingTimeout,
          MaxTime, MaxChanges, MaxRestarts,   \* bounds of the clock, of policy changes, of restarts
          NoToken, NoIndexName

ASSUME SearchBounds ==
  /\ {PagingTimeout, MaxTime, MaxChanges, MaxRestarts} \subseteq Nat
  /\ MaxSearchLimit \in Nat \ {0} /\ DefaultSearchLimit \in 1 .. MaxSearchLimit

VARIABLES catalog,   \* the policies of the API
          cached,    \* the policies the server has seen through its informer
          secret,    \* the paging secret: the number of the process that drew it
          changes,   \* the number of policy changes
          now

serverVars == <<catalog, cached, secret, changes, now>>

-----------------------------------------------------------------------------
(* The endpoint. *)

\* Faulty variant: the cache of the API server also keeps policies that are not Ready.
AnyPolicies(policies) == {p \in policies : TRUE}

\* The policies the cache keeps: the server asks for the Ready condition.
GetPolicies(policies) == {p \in policies : p.ready}

\* A cache is a map; its policies come in any order.
Orders(policies) ==
  {s \in [1 .. Cardinality(policies) -> policies] : IsInjective(s)}

Ready(policies) == SelectSeq(policies, LAMBDA p : p.index # NoIndexName)

\* Targets without repetitions, in their first order.
Unique(targets) ==
  LET Seen(n) == \E k \in 1 .. n - 1 : targets[k] = targets[n]
      kept == {n \in DOMAIN targets : ~Seen(n)}
  IN [k \in 1 .. Len(SetToSortSeq(kept, <)) |-> targets[SetToSortSeq(kept, <)[k]]]

Known(target, policies) == \E n \in DOMAIN policies :
  policies[n].target = target /\ policies[n].index # NoIndexName

ClassifyTargets(targets, policies) ==
  IF targets = <<>>
  THEN [allowed |-> [n \in DOMAIN Ready(policies) |-> Ready(policies)[n].target], denied |-> <<>>]
  ELSE [allowed |-> SelectSeq(Unique(targets), LAMBDA t : Known(t, policies)),
        denied |-> SelectSeq(Unique(targets), LAMBDA t : ~Known(t, policies))]

\* The index of the first ready policy of each target.
IndexUIDsFor(allowed, policies) ==
  LET Of(target) == SelectSeq(Ready(policies), LAMBDA p : p.target = target)
  IN FlattenSeq([n \in DOMAIN allowed |->
       IF Of(allowed[n]) = <<>> THEN <<>> ELSE <<Of(allowed[n])[1].index>>])

\* The tenant filter; Meilisearch compares strings without regard to case, so the stored
\* type Project is found by the filter's project.
Lower == [Project |-> "project", Organization |-> "organization", platform |-> "platform"]
Scoped(parent, doc) ==
  \/ parent = NoParent
  \/ Lower[doc.tenant.type] = Lower[parent.type] /\ doc.tenant.name = parent.name

\* What all pages of a federated search hold together.
Matching(indexes, parent) ==
  SelectSeq(Ranked, LAMBDA d : Scoped(parent, d) /\ \E n \in DOMAIN indexes : indexes[n] = d.index)

MultiSearch(indexes, limit, offset, parent) ==
  LET all == Matching(indexes, parent)
      last == IF offset + limit > Len(all) THEN Len(all) ELSE offset + limit
  IN SubSeq(all, offset + 1, last)

\* The results of a page; a hit that cannot be decoded is dropped.
FormatSearchResults(hits) == SelectSeq(hits, LAMBDA h : h.wellFormed)

Refuse == [ok |-> FALSE, limit |-> 0, offset |-> 0]

ValidateAndGetPagination(spec) ==
  IF spec.continue # NoToken
  THEN LET claims == spec.continue IN
       IF \/ claims.secret # secret \/ claims.expires <= now
          \/ spec.query # claims.query
          \/ DefaultSearchLimit # claims.limit /\ spec.limit # 0 /\ spec.limit # claims.limit
          \/ spec.targets # claims.targets
       THEN Refuse
       ELSE [ok |-> TRUE, limit |-> claims.limit, offset |-> claims.offset]
  ELSE IF spec.limit < 0 \/ spec.limit > MaxSearchLimit THEN Refuse
  ELSE [ok |-> TRUE, limit |-> IF spec.limit > 0 THEN spec.limit ELSE DefaultSearchLimit,
        offset |-> 0]

\* Faulty variants: a page that is exactly full ends the search; the next page is the
\* same page.
NextTokenUnlessFull(offset, limit, hits, spec) ==
  IF hits > limit
  THEN [offset |-> offset + limit, limit |-> limit, query |-> spec.query,
        targets |-> spec.targets, expires |-> now + PagingTimeout,
        secret |-> secret]
  ELSE NoToken

NextTokenSamePage(offset, limit, hits, spec) ==
  IF hits > 0 /\ hits >= limit
  THEN [offset |-> offset, limit |-> limit, query |-> spec.query,
        targets |-> spec.targets, expires |-> now + PagingTimeout,
        secret |-> secret]
  ELSE NoToken

CalculateNextContinueToken(offset, limit, hits, spec) ==
  IF hits > 0 /\ hits >= limit
  THEN [offset |-> offset + limit, limit |-> limit, query |-> spec.query,
        targets |-> spec.targets, expires |-> now + PagingTimeout,
        secret |-> secret]
  ELSE NoToken

\* The whole of REST.Create: [ok, results, denied, continue].
Create(spec, parent, policies) ==
  LET page == ValidateAndGetPagination(spec)
      classes == ClassifyTargets(spec.targets, policies)
      indexes == IndexUIDsFor(classes.allowed, policies)
      hits == MultiSearch(indexes, page.limit, page.offset, parent)
  IN IF ~page.ok THEN [ok |-> FALSE]
     ELSE IF indexes = <<>>
     THEN [ok |-> TRUE, results |-> <<>>, denied |-> classes.denied, continue |-> NoToken]
     ELSE [ok |-> TRUE, results |-> FormatSearchResults(hits), denied |-> classes.denied,
           continue |-> CalculateNextContinueToken(page.offset, page.limit, Len(hits), spec)]

-----------------------------------------------------------------------------
(* The server. *)

ServerInit ==
  /\ catalog \in Catalogs /\ cached = catalog
  /\ secret = 0 /\ changes = 0 /\ now = 0

Tick == now < MaxTime /\ now' = now + 1 /\ UNCHANGED <<catalog, cached, secret, changes>>

\* A policy is created, deleted, or changes its readiness.
ChangePolicies ==
  /\ changes < MaxChanges /\ changes' = changes + 1
  /\ catalog' \in Catalogs \ {catalog}
  /\ UNCHANGED <<cached, secret, now>>

\* The informer's events reach the cache.
SyncPolicies ==
  /\ cached # catalog /\ cached' = catalog
  /\ UNCHANGED <<catalog, secret, changes, now>>

\* A new process draws a new secret (SEARCH_PAGING_SECRET is not set).  It waits for the
\* informer's store, not for the handlers that fill the cache from it: the cache starts empty.
RestartServer ==
  /\ secret < MaxRestarts /\ secret' = secret + 1
  /\ cached' = {}
  /\ UNCHANGED <<catalog, changes, now>>

=============================================================================
