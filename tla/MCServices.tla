----------------------------- MODULE MCServices -----------------------------
(***************************************************************************)
(* Small inputs for the model checker: what the parts of Services are      *)
(* about, where a configuration file cannot say it.                        *)
(***************************************************************************)
EXTENDS Services

CONSTANTS i1, i2, i3

Artifacts == {i1, i2, i3}
Chains == {<<>>, <<i2, i1>>}

\* Lists of a template.json with one file, src/settings, and its directory.
Item(name, dir, mode) == [path |-> name, dir |-> dir, mode |-> mode]
Settings == <<"src", "settings">>
FilesLists ==
  {<<>>,
   <<Item(Settings, FALSE, "locked")>>,
   <<Item(<<"src">>, TRUE, "locked")>>,
   <<Item(<<"src">>, TRUE, "locked"), Item(Settings, FALSE, "configure")>>,
   <<Item(<<"src">>, TRUE, "configure"), Item(Settings, TRUE, "locked")>>}

\* Some of AUTH_SERVICES (cli/auth_config.py).
SomeServices == <<"groq", "gcp", "linear", "gke">>
Selected == {{"groq", "gcp", "linear", "gke"}, {"linear", "gcp"}}

\* Calls of a tool with one of the actions, targets, backends and flags.
Of(tool, actions, targets, backends, flags) ==
  [tool : {tool}, action : actions, target : targets, via : backends, flag : flags]

SomeCalls ==
  Of("db_migrate", {"upgrade", "current", "dry_run"}, {"dev"}, {"alembic", "prisma"},
     {"unset", "True", "maybe"})
  \cup Of("git_ops", {"status", "push", "pr_create"}, {"main", "current"}, {"none"}, {"unset"})
  \cup Of("env_manager", {"get", "set"}, {"dev", "production"}, {"auto", "dotenv", "vault"},
          {"unset"})
  \cup Of("kubernetes_apply", {"apply"}, {"staging", "production"}, {"none"},
          {"unset", "False", "true"})
  \cup Of("cloud_run_deploy", {"deploy", "tampered"}, {"dev"}, {"none"},
          {"unset", "no", "true"})
  \cup Of("gcloud_cli", {"update", "delete"}, {"dev"}, {"none"}, {"unset"})
  \cup Of("shell_exec", {"command", "denied"}, {"dev"}, {"none"}, {"unset"})
  \cup Of("code_sandbox", {"code", "long", "outside"}, {"dev"}, {"none"}, {"unset"})
  \cup Of("linter_run", {"check"}, {"dev"}, {"python", "go"}, {"1"})
  \cup Of("test_runner", {"test"}, {"dev"}, {"python"}, {"unset"})
  \cup Of("dependency_audit", {"audit"}, {"dev"}, {"python", "node"}, {"unset"})
  \cup Of("docker_build", {"build"}, {"dev"}, {"none"}, {"unset", "yes"})
  \cup Of("docker_compose_deploy", {"up", "ps"}, {"dev"}, {"none"}, {"unset"})

\* Spellings that meet, one that leaves built/, and one that leaves the working
\* directory for a sibling.
FilePaths == {<<"app">>, <<"/", "swarm", "built", "app">>, <<"app", "main">>, <<"built">>,
              <<"..", "notes">>, <<"..", "..", "swarm-x", "main">>}

Scaffolded == {<<"app">>, <<"built", "app">>}

TemplateFiles == {<<<<"main">>>>, <<<<"config">>, <<"main", "index">>>>}

NeverTouched == {<<"notes">>}

=============================================================================
