----------------------------- MODULE MCSearchCLI ----------------------------
(* Three kinds, one of them of the core group, two of one name; seven ranked documents.  *)
EXTENDS SearchCLI

Doc(index, uid, type, name, ok) ==
  [index |-> index, uid |-> uid, tenant |-> [type |-> type, name |-> name], wellFormed |-> ok]

MCRanked == << Doc("webs", 1, "Project", "p1", TRUE), Doc("jobs", 2, "platform", "platform", TRUE),
               Doc("webs", 3, "Project", "p2", TRUE), Doc("jobs", 4, "Project", "p1", FALSE),
               Doc("webs", 5, "Project", "p1", TRUE), Doc("jobs", 6, "Project", "p1", TRUE),
               Doc("webs", 7, "platform", "platform", TRUE) >>

Kind(kind, group, version) == [kind |-> kind, group |-> group, version |-> version]
Web == Kind(<<"A", "b">>, <<"g", ".", "h">>, <<"1">>)
Web2 == Kind(<<"A", "b">>, <<"k">>, <<"1">>)
Job == Kind(<<"C", "b", "c">>, <<>>, <<"1">>)

Policy(target, index, ready) == [target |-> target, index |-> index, ready |-> ready]
Webs == Policy(Web, "webs", TRUE)
Jobs == Policy(Job, "jobs", TRUE)

MCCatalogs == { {Webs, Jobs},
                {Webs, Policy(Job, "jobs", FALSE)},
                {Webs, Jobs, Policy(Web2, NoIndexName, FALSE)} }

\* A name, one in another case and one with its group; misspelt, empty and far names.
Known1 == << <<"a", "B">> >>
Known2 == << <<"c", "b", "c", "/", "1">>, <<"A", "b", ".", "g", ".", "h">>, <<"C", "b", "c">> >>
Unready == << <<"A", "b", ".", "k">> >>
Misspelt == { << <<"A", "b">>, <<"b", "b">> >>, << <<"b", "c", "c">> >>, << <<"x", "y", "z">> >>, << <<".", "g">> >>,
              << <<"A", "a", "c", "c", "c">> >> }

Flags == [output |-> "table", text |-> "plain", reserved |-> FALSE, limit |-> NoLimit,
          refs |-> <<>>, all |-> FALSE, strict |-> FALSE, token |-> NoToken,
          project |-> NoScope, org |-> NoScope, kubeconfig |-> FALSE]

Asked == {[Flags EXCEPT !.limit = limit, !.refs = refs] :
            limit \in {NoLimit, 1, 3}, refs \in {<<>>, Known1, Known2, Unready}}

MCInvocations ==
  {[f EXCEPT !.all = all, !.strict = all, !.project = project] :
     f \in Asked, all \in BOOLEAN, project \in {NoScope, "p1"}}
  \cup {[f EXCEPT !.output = "json"] : f \in Asked}
  \cup {[Flags EXCEPT !.text = text, !.output = output, !.all = all] :
           text \in {"expanded", "subcommand"}, output \in {"wide", "json"}, all \in BOOLEAN}
  \cup {[Flags EXCEPT !.refs = refs] : refs \in Misspelt}
  \cup {[Flags EXCEPT !.output = "bad"], [Flags EXCEPT !.text = "none"], [Flags EXCEPT !.reserved = TRUE],
        [Flags EXCEPT !.limit = 0], [Flags EXCEPT !.limit = 4], [Flags EXCEPT !.limit = 5], [Flags EXCEPT !.org = "o"],
        [Flags EXCEPT !.kubeconfig = TRUE], [Flags EXCEPT !.output = "name", !.strict = TRUE, !.refs = Unready]}

\* The scope of the first command comes from a flag.
MCScoped == {[Flags EXCEPT !.project = "p1", !.limit = limit] : limit \in {NoLimit, 1, 3}}

MCContexts == {[org |-> NoScope, project |-> NoScope, usable |-> TRUE],
               [org |-> "o", project |-> "p2", usable |-> TRUE],
               [org |-> NoScope, project |-> NoScope, usable |-> FALSE]}
=============================================================================
