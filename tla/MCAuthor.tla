------------------------------- MODULE MCAuthor -------------------------------
(* Values of Author's constants for TLC.                                   *)
EXTENDS Author

\* One field of the template at a time.
Metas ==
  UNION {{[MetaTemplate EXCEPT ![p] = x] : x \in Paths} : p \in {"tasks_dir", "runners_dir", "compose"}}
  \cup {[MetaTemplate EXCEPT !.rest = FALSE], [MetaTemplate EXCEPT !.slug = "other"],
        [MetaTemplate EXCEPT !.fixtures = "none"], [MetaTemplate EXCEPT !.fixtures = "other"]}
  \cup {[MetaTemplate EXCEPT !.range = x] : x \in {"out", "bad"}}

Tasks ==
  {[TaskTemplate EXCEPT !.rest = FALSE], [TaskTemplate EXCEPT !.service = "browser"]}
  \cup {[TaskTemplate EXCEPT !.id = x] : x \in {"own", "other", "missing"}}

Runners ==
  {[RunnerTemplate EXCEPT !.imports = "forbidden"], [RunnerTemplate EXCEPT !.calls = "forbidden"],
   [RunnerTemplate EXCEPT !.loads = FALSE]}
  \cup {[RunnerTemplate EXCEPT !.image = x] : x \in {"pinned", "tag", "computed", "none"}}

\* A second network, with a way out or not, and what a service can say of its networks.
Networks == {<<>>} \cup [{"bench"} -> BOOLEAN] \cup [{"bench", "web"} -> {TRUE}]
            \cup {[n \in {"bench", x} |-> n = "bench"] : x \in {"web", "nonstring"}}
Services ==
  {ServiceTemplate, [ServiceTemplate EXCEPT !.network_mode = TRUE], [ServiceTemplate EXCEPT !.mapping = FALSE],
   [ServiceTemplate EXCEPT !.image = "tag"], [ServiceTemplate EXCEPT !.image = "none"],
   [ServiceTemplate EXCEPT !.image = "none", !.build = TRUE]}
  \cup {[ServiceTemplate EXCEPT !.networks = [kind |-> k, names |-> {}]] : k \in {"names", "absent", "other"}}
  \cup {[ServiceTemplate EXCEPT !.networks.names = {"bench", "web"}]}

Composes ==
  {[ComposeTemplate EXCEPT !.services = <<>>]}
  \cup {[ComposeTemplate EXCEPT !.networks = n, !.services = [x \in {"example"} |-> s]] :
          n \in Networks, s \in {ServiceTemplate, [ServiceTemplate EXCEPT !.networks.names = {"bench", "web"}]}}
  \cup {[ComposeTemplate EXCEPT !.services = [x \in {"example", "browser"} |->
          IF x = "browser" THEN s ELSE ServiceTemplate]] : s \in Services}
  \* Names that are no strings: of one service of two, and of all services and networks.
  \cup {[ComposeTemplate EXCEPT !.services = [x \in {"example", "nonstring"} |->
          IF x = "example" THEN ServiceTemplate ELSE [ServiceTemplate EXCEPT !.network_mode = TRUE]]]}
  \cup {[ComposeTemplate EXCEPT !.networks = [n \in {"nonstring"} |-> i],
                               !.services = [x \in {"nonstring"} |-> ServiceTemplate]] : i \in BOOLEAN}

Broken == {[kind |-> k] : k \in {"none", "garbled", "unusable"}}

MCContents ==
  [f \in Files |->
     CASE f = "meta" -> Broken \cup Metas
       [] f = "tasks" -> Broken \cup {[kind |-> "empty"]} \cup Tasks
       [] f = "runners" -> Broken \cup {[kind |-> "empty"]} \cup Runners
       [] f = "compose" -> Broken \cup Composes
       [] OTHER -> {None, Text}]

==============================================================================
