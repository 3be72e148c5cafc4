------------------------------ MODULE SearchCLI -----------------------------
(***************************************************************************)
(* The command line client (cmd/milo-search) against the search endpoint:  *)
(* one user asks one question, with one command or page by page.  A command*)
(* checks its flags, builds its client, resolves --kind against the listed *)
(* policies, fetches one page or all of them, and exits with a code.  The  *)
(* next page is asked for with the command that the footer prints, or by a *)
(* script that passes .status.continue of -o json back.                    *)
(***************************************************************************)
EXTENDS SearchQuery, KindNames

CONSTANTS Invocations,   \* the flags of the first command
          Contexts,      \* what datumctl injects: [org, project, usable]
          Errors,        \* the ways a call can fail besides Create's refusals: HTTP codes, "unreachable"
          MaxErrors, MaxCommands, MaxLimit,
          NoLimit, NoName, NoScope

ASSUME CommandBounds ==
  {MaxErrors, MaxCommands, MaxLimit} \subseteq Nat /\ "400" \notin Errors /\ "422" \notin Errors

VARIABLES env,        \* the context datumctl injects, one of Contexts
          cmd,        \* the running command
          chain,      \* what the first page's server searched: [begun, parent, text, targets, ready, limit]
          shown,      \* the results the commands have printed
          disturbed,  \* the policies changed, in the API or in the cache, since the first command
          errors,     \* the number of failed calls
          commands    \* the number of commands

cliVars == <<env, cmd, chain, shown, disturbed, errors, commands>>
vars == <<serverVars, cliVars>>

-----------------------------------------------------------------------------
(* Flags, transport and errors. *)

Outputs == {"table", "wide", "json", "yaml", "name"}

\* PersistentPreRunE and the checks of runQuery before any call.
BadUsage(f) ==
  \/ f.output \notin Outputs
  \/ f.text = "none"
  \/ f.reserved
  \/ f.limit # NoLimit /\ f.limit \notin 1 .. MaxLimit

\* A flag overrides the context; the scope is that of the control plane's URL, which the
\* front door turns into the parent of the request.  A kubeconfig has no front door.
Datum(f) == ~f.kubeconfig /\ env.usable
EffectiveOf(flag, injected) == IF flag = NoScope THEN injected ELSE flag
ControlPlane(f) ==
  LET project == EffectiveOf(f.project, env.project)
      org == EffectiveOf(f.org, env.org)
  IN IF ~Datum(f) THEN NoParent
     ELSE IF project # NoScope THEN [type |-> "Project", name |-> project]
     ELSE IF org # NoScope THEN [type |-> "Organization", name |-> org]
     ELSE NoParent

ExitCode == [ok |-> 0, error |-> 1, usage |-> 2, forbidden |-> 3, notFound |-> 4,
             invalid |-> 6, partial |-> 7, unavailable |-> 8]

\* The exit code of a failed call.
Classify(err) ==
  CASE err = "401" -> ExitCode.unavailable
    [] err = "403" -> ExitCode.forbidden
    [] err = "404" -> ExitCode.notFound
    [] err \in {"400", "422"} -> ExitCode.invalid
    [] err = "unreachable" -> ExitCode.unavailable
    [] OTHER -> ExitCode.error

-----------------------------------------------------------------------------
(* A command. *)

\* The text a shell and then cobra read back from "datumctl search %q".  %q quotes for Go:
\* a shell still expands a $ or a backquote in it and keeps Go's escapes, so such a text
\* ("expanded") comes back as another one; and without a "--" the name of a subcommand is
\* taken as that subcommand, which refuses the flags that follow ("none" to search for).
Pasted == [plain |-> "plain", expanded |-> "other", subcommand |-> "none", other |-> "other"]

\* The flags of the next page's command.  Faulty variant: the kinds are left out.
NextPageWithoutKinds(f, token) ==
  [f EXCEPT !.text = Pasted[f.text], !.token = token, !.refs = <<>>, !.output = "table", !.all = FALSE,
            !.strict = FALSE, !.project = NoScope, !.org = NoScope, !.kubeconfig = FALSE]

\* Only the query, --kind, --limit and the token are echoed.
NextPageCommand(f, token) ==
  [f EXCEPT !.text = Pasted[f.text], !.token = token, !.output = "table", !.all = FALSE,
            !.strict = FALSE, !.project = NoScope, !.org = NoScope, !.kubeconfig = FALSE]

Command(f) ==
  [phase |-> "start", flags |-> f, parent |-> NoParent, listed |-> {}, targets |-> <<>>,
   sent |-> NoToken, continue |-> f.token, results |-> <<>>, denied |-> <<>>, ready |-> {},
   dropped |-> {}, pages |-> 0, bound |-> 0, exit |-> 0, unknown |-> NoName, hint |-> NoName]

Exit(code) == cmd' = [cmd EXCEPT !.phase = "exited", !.exit = code]

CLIInit ==
  /\ env \in Contexts
  /\ \E f \in Invocations : cmd = Command(f)
  /\ chain = [begun |-> FALSE] /\ shown = <<>> /\ disturbed = FALSE
  /\ errors = 0 /\ commands = 1

Fail(code) == errors < MaxErrors /\ errors' = errors + 1 /\ Exit(code)

CheckFlags ==
  /\ cmd.phase = "start"
  /\ IF BadUsage(cmd.flags) THEN Exit(ExitCode.usage) ELSE cmd' = [cmd EXCEPT !.phase = "connect"]
  /\ UNCHANGED <<env, chain, shown, disturbed, errors, commands>>

\* The client is built once, before the first call: with --kind by policies(), otherwise
\* by runQuery.  Whatever fails, the token, the kubeconfig or the clientset, the service counts as unavailable.
Connect ==
  /\ cmd.phase = "connect"
  /\ \/ Fail(ExitCode.unavailable)
     \/ /\ cmd' = [cmd EXCEPT !.parent = ControlPlane(cmd.flags),
                      !.phase = IF cmd.flags.refs = <<>> THEN "fetch" ELSE "resolve"]
        /\ UNCHANGED errors
  /\ UNCHANGED <<env, chain, shown, disturbed, commands>>

\* The outcome of resolveKind: a target, or an exit code with a suggestion.
ResolveKind(ref, targets) ==
  LET parsed == ParseKindRef(ref)
      found == Matches(parsed, targets)
      near == NearestKinds(parsed.kind, targets)
  IN IF parsed.kind = <<>> THEN [target |-> <<>>, exit |-> ExitCode.usage, unknown |-> NoName, near |-> {}]
     ELSE IF found = {} THEN [target |-> <<>>, exit |-> ExitCode.notFound, unknown |-> parsed.kind,
                              near |-> near]
     ELSE IF Cardinality(found) > 1
     THEN [target |-> <<>>, exit |-> ExitCode.usage, unknown |-> NoName, near |-> {}]
     ELSE [target |-> CHOOSE t \in found : TRUE, exit |-> 0, unknown |-> NoName, near |-> {}]

\* The listing and resolveKinds: the first reference that does not resolve ends the command.
Resolve ==
  /\ cmd.phase = "resolve"
  /\ \/ \E err \in Errors : Fail(Classify(err))
     \/ /\ UNCHANGED errors
        /\ LET targets == {p.target : p \in catalog}
               refs == cmd.flags.refs
               bad == SelectInSeq(refs, LAMBDA r : ResolveKind(r, targets).exit # 0)
               r == ResolveKind(refs[bad], targets)
           IN IF bad = 0
              THEN cmd' = [cmd EXCEPT !.phase = "fetch", !.listed = targets,
                             !.targets = [n \in DOMAIN refs |-> ResolveKind(refs[n], targets).target]]
              ELSE \E hint \in IF r.near = {} THEN {NoName} ELSE {t.kind : t \in r.near} :
                     cmd' = [cmd EXCEPT !.phase = "exited", !.exit = r.exit, !.listed = targets,
                               !.unknown = r.unknown, !.hint = hint]
  /\ UNCHANGED <<env, chain, shown, disturbed, commands>>

\* The command once the page of answer r is merged.  Only the first page's denied kinds are
\* kept; ready and dropped record, for the properties, the policies that were Ready at that
\* page and the denied kinds of later pages that nobody is told of.  Without --all the first
\* page ends the command, and --strict is checked at the end.
Merge(c, r, limit) ==
  LET denied == IF c.pages = 0 THEN r.denied ELSE c.denied
      merged == [c EXCEPT !.results = c.results \o r.results, !.sent = c.continue,
                          !.continue = r.continue, !.pages = c.pages + 1, !.bound = limit,
                          !.denied = denied,
                          !.ready = IF c.pages = 0 THEN {p \in cached : p.ready} ELSE c.ready,
                          !.dropped = c.dropped \cup (ToSet(r.denied) \ ToSet(denied))]
  IN IF c.flags.all /\ r.continue # NoToken THEN merged
     ELSE [merged EXCEPT !.phase = "exited",
             !.exit = IF c.flags.strict /\ merged.denied # <<>>
                        THEN ExitCode.partial ELSE ExitCode.ok]

Begin ==
  [begun |-> TRUE, parent |-> cmd.parent, text |-> cmd.flags.text, targets |-> cmd.targets,
   limit |-> cmd.flags.limit, ready |-> {p \in cached : p.ready}]

\* One turn of fetchQuery.
Fetch ==
  LET spec == [query |-> cmd.flags.text, limit |-> IF cmd.flags.limit = NoLimit THEN 0 ELSE cmd.flags.limit,
               targets |-> cmd.targets, continue |-> cmd.continue]
  IN
  /\ cmd.phase = "fetch"
  /\ \/ \E err \in Errors : Fail(Classify(err)) /\ UNCHANGED <<chain, shown>>
     \/ /\ UNCHANGED errors
        /\ \E policies \in Orders(GetPolicies(cached)) :
           LET r == Create(spec, cmd.parent, policies)
               done == Merge(cmd, r, ValidateAndGetPagination(spec).limit)
           IN IF ~r.ok
              THEN /\ cmd' = [cmd EXCEPT !.phase = "exited", !.exit = Classify("400"), !.sent = cmd.continue]
                   /\ UNCHANGED <<chain, shown>>
              ELSE /\ cmd' = done
                   /\ chain' = IF chain.begun THEN chain ELSE Begin
                   /\ shown' = IF done.phase = "exited" /\ done.exit = 0
                               THEN shown \o done.results ELSE shown
  /\ UNCHANGED <<env, disturbed, commands>>

\* The user runs the footer's command, or a script repeats its own with the token and a
\* limit of its choice; -o name prints no token.
NextPage ==
  /\ cmd.phase = "exited" /\ cmd.exit = 0 /\ cmd.continue # NoToken
  /\ commands < MaxCommands /\ commands' = commands + 1
  /\ \/ /\ cmd.flags.output \in {"table", "wide"}
        /\ cmd' = Command(NextPageCommand(cmd.flags, cmd.continue))
     \/ /\ cmd.flags.output \in {"json", "yaml"}
        /\ \E limit \in {cmd.flags.limit} \cup 1 .. MaxLimit :
             cmd' = Command([cmd.flags EXCEPT !.token = cmd.continue, !.limit = limit])
  /\ UNCHANGED <<env, chain, shown, disturbed, errors>>

-----------------------------------------------------------------------------
(* The composition. *)

Init == ServerInit /\ CLIInit

Step == (CheckFlags \/ Connect \/ Resolve \/ Fetch \/ NextPage) /\ UNCHANGED serverVars

Begun == chain.begun \/ cmd.phase # "start"

\* The question is not finished; what the server does later no longer matters to it.
Open == cmd.phase # "exited" \/ (cmd.exit = ExitCode.ok /\ cmd.continue # NoToken)

Server ==
  /\ Open
  /\ ChangePolicies \/ SyncPolicies \/ RestartServer \/ Tick
  /\ disturbed' = (disturbed \/ (Begun /\ <<catalog, cached>>' # <<catalog, cached>>))
  /\ UNCHANGED <<env, cmd, chain, shown, errors, commands>>

Next == Step \/ Server

Spec == Init /\ [][Next]_vars

-----------------------------------------------------------------------------
(* Properties. *)

\* What the question's first page promised: the well-formed documents, in order, of the
\* requested kinds that were Ready, in the scope of the first command.
Expected ==
  LET indexes == {p.index : p \in {q \in chain.ready : chain.targets = <<>>
                                     \/ q.target \in ToSet(chain.targets)}}
  IN SelectSeq(Ranked, LAMBDA d : d.wellFormed /\ d.index \in indexes /\ Scoped(chain.parent, d))

Complete == cmd.phase = "exited" /\ cmd.exit = 0 /\ chain.begun /\ cmd.continue = NoToken

\* Policies that stay as they are: once a command exits with 0 and no page is left, the
\* user has seen every matching document of the scope once and in order, by --all or page by
\* page, also when a hit cannot be decoded, when a page is exactly full, and when a script
\* changes the limit (fetchQuery, nextPageCommand, calculateNextContinueToken).  The
\* exception is a footer's command that runs in another scope than the first one.
AnsweredUndisturbed ==
  Complete /\ ~disturbed /\ cmd.parent = chain.parent => shown = Expected

\* The command the footer prints continues the search whose page it follows: with it, too,
\* the user sees every matching document of the first command's scope (printContinueFooter).
FooterContinues == Complete /\ ~disturbed => shown = Expected

\* A token is refused only when it is too old, signed by another process, or sent by a
\* script with another limit than it was issued for: never in a page of --all with time
\* left, and never in the command that the footer prints, unless its query does not survive
\* the pasting, or the policies changed and with them what --kind resolves to
\* (nextPageCommand with validateAndGetPagination).  A first page is refused only for a
\* limit above the server's maximum.
FooterAccepted ==
  cmd.phase = "exited" /\ cmd.exit = ExitCode.invalid =>
    IF cmd.sent = NoToken THEN cmd.flags.limit # NoLimit /\ cmd.flags.limit > MaxSearchLimit
    ELSE \/ cmd.sent.expires <= now
         \/ cmd.sent.secret # secret
         \/ disturbed /\ cmd.flags.refs # <<>>
         \/ cmd.flags.output \in {"json", "yaml"} /\ cmd.flags.limit # chain.limit
         \/ cmd.pages = 0 /\ cmd.flags.output = "table" /\ Pasted[chain.text] # chain.text

\* A search is finite: at most one answer is not a full page, whatever happens to the
\* policies in between (the loop of fetchQuery with --all terminates).
PagesBounded == cmd.pages > 0 => cmd.pages <= Len(Ranked) \div cmd.bound + 1

\* No page leaves a requested kind both unsearched and unreported: the warning of a command
\* names exactly the requested kinds that were not Ready at its first page, each once, and
\* with --strict the command fails if there is one (classifyTargets, renderQuery).  The
\* exception is a kind that was Ready at the first page of --all and is denied at a later
\* one, because the policies changed in between: fetchQuery drops the later pages' denied
\* kinds, so neither the warning nor --strict tells of it.
NoSilentGap ==
  cmd.pages > 0 =>
    /\ IsInjective(cmd.denied)
    /\ ToSet(cmd.denied) = {t \in ToSet(cmd.targets) : \A p \in cmd.ready : p.target # t}
    /\ cmd.dropped # {} => disturbed /\ cmd.flags.all
    /\ \A t \in cmd.dropped : \E p \in cmd.ready : p.target = t
    /\ cmd.phase = "exited" /\ cmd.flags.strict /\ cmd.denied # <<>> => cmd.exit # 0

\* What "kinds -o name" prints for a kind resolves to that kind, also for a group with
\* dots, unless another listed kind has its name and group, or only its name when it is of
\* the core group (kindRef with parseKindRef and resolveKind).
KindRefResolves ==
  LET targets == {p.target : p \in catalog}
      Another(t) == \E u \in targets \ {t} :
        EqualFold(u.kind, t.kind) /\ (t.group = <<>> \/ EqualFold(u.group, t.group))
  IN \A t \in targets : Another(t) \/ ResolveKind(KindRef(t), targets).target = t

\* The suggestion for an unknown kind is the closest of the listed kinds by the number of
\* single-letter edits, and there is one exactly when that number is within a third of the
\* name, rounded down, plus one (nearestKind, levenshtein).
SuggestsNearest ==
  cmd.unknown # NoName =>
    LET Distance(kind) == EditDistance(ToLower(cmd.unknown), ToLower(kind))
        near == {t \in cmd.listed : Distance(t.kind) <= 1 + Len(cmd.unknown) \div 3}
    IN IF near = {} THEN cmd.hint = NoName
       ELSE /\ cmd.hint \in {t.kind : t \in near}
            /\ \A t \in cmd.listed : Distance(cmd.hint) <= Distance(t.kind)

=============================================================================
