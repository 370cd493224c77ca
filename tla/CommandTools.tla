---------------------------- MODULE CommandTools ----------------------------
(* The tools that run a command: db_migrate, git_ops, env_manager,           *)
(* kubernetes_apply, cloud_run_deploy, gcloud_cli, shell_exec, code_sandbox, *)
(* linter_run, test_runner, dependency_audit, docker_build and               *)
(* docker_compose_deploy, behind ToolHandler.run (src/tools/base.py), which  *)
(* fits the model's arguments to the schema, validates them and gives the    *)
(* whole call a time limit. A call is a record: the tool, the action, what   *)
(* it is aimed at, the backend or runtime, and the flag (dry_run, fix or     *)
(* push) as the model wrote it ("unset" when it left it out). A command      *)
(* either looks or changes something; what it changes it may have changed at *)
(* any time before it ends.                                                  *)
EXTENDS Naturals, Sequences

CONSTANTS
    Inputs,   \* the calls the model may make
    Tokens,   \* the backends whose token is in the environment
    MaxCalls  \* a bound on the calls

(* Of each call: its inputs as they were fitted, the commands still to run   *)
(* (the first of them is running), whether one that only looks has           *)
(* succeeded, whether anything was changed, and the answer ("none" while     *)
(* the call is being run). The last call may be running; those before have   *)
(* an answer, and commands only if one was abandoned and goes on.            *)
VARIABLE calls
vars == calls

Plain == {"unset", "true", "false"}
(* What the constants are meant to be: calls of these tools, and of          *)
(* db_migrate only with the actions that its schema lets through. The MC     *)
(* module assumes it.                                                        *)
Handlers == {"db_migrate", "git_ops", "env_manager", "kubernetes_apply", "cloud_run_deploy",
             "gcloud_cli", "shell_exec", "code_sandbox", "linter_run", "test_runner",
             "dependency_audit", "docker_build", "docker_compose_deploy"}
CommandAssumption ==
    /\ Inputs \subseteq [tool : Handlers, action : STRING, target : STRING, via : STRING,
                       flag : STRING]
    /\ \A c \in Inputs : c.tool = "db_migrate" =>
          c.action \in {"upgrade", "downgrade", "current", "history", "dry_run"}
(* The text "True" is read as the value; a text that is neither stays text.  *)
_coerce_inputs(flag) ==
    CASE flag \in {"True", "1", "yes"} -> "true"
      [] flag \in {"False", "0", "no"} -> "false"
      [] OTHER -> flag
Default(flag, value) == IF flag = "unset" THEN value ELSE flag = "true"

(* What a handler does with its arguments: the commands it will run one      *)
(* after another, or the answer it gives without running any.                *)
Plan(seq) == [answer |-> "none", commands |-> seq]
Says(text) == [answer |-> text, commands |-> <<>>]
Change(yes) == IF yes THEN "change" ELSE "look"

_alembic(c, dry_run) ==
    CASE c.action \in {"upgrade", "downgrade"} -> Plan(<<Change(~dry_run)>>)
      [] c.action \in {"current", "history", "dry_run"} -> Plan(<<"look">>)
_prisma(c, dry_run) ==
    CASE c.action \in {"upgrade", "dry_run"} -> Plan(<<Change(~dry_run)>>)
      [] c.action = "downgrade" -> Says("error")
      [] OTHER -> Plan(<<"look">>)
db_migrate(c) ==
    LET dry_run == Default(c.flag, FALSE)
    IN IF c.via = "prisma" THEN _prisma(c, dry_run) ELSE _alembic(c, dry_run)

(* A push that names no branch pushes the current one, whichever that is,    *)
(* and nobody is asked; a branch without a name lists them; a pull request   *)
(* is asked of git, which has no such command.                               *)
git_ops(c) ==
    IF c.action = "push" /\ c.target = "main" THEN Says("asks")
    ELSE Plan(<<Change(/\ c.action \notin {"status", "log", "diff", "pr_create"}
                       /\ c.action = "branch" => c.target # "unset")>>)

_detect_backend == IF "doppler" \in Tokens THEN "doppler"
                   ELSE IF "vault" \in Tokens THEN "vault"
                   ELSE IF "aws_ssm" \in Tokens THEN "aws_ssm" ELSE "dotenv"
(* The dotenv backend reads and writes the file itself, without a command.   *)
_dotenv(c) == CASE c.action \in {"set", "export_example"} -> Plan(<<"write">>)
                [] c.action \in {"get", "list"} -> Says("ok")
                [] OTHER -> Says("error")
env_manager(c) ==
    LET backend == IF c.via = "auto" THEN _detect_backend ELSE c.via
    IN IF c.action \in {"set", "delete"} /\ c.target = "production" THEN Says("asks")
       ELSE IF backend = "dotenv" THEN _dotenv(c)
       ELSE IF backend \notin Tokens THEN Says("skipped")
       ELSE IF backend = "vault" \/ c.action \notin {"get", "set", "list"} THEN Says("error")
       ELSE Plan(<<Change(c.action = "set")>>)

kubernetes_apply(c) ==
    LET dry_run == Default(c.flag, TRUE)
    IN IF c.target = "production" /\ ~dry_run THEN Says("asks")
       ELSE Plan(IF dry_run THEN <<"look">> ELSE <<"look", "change">>)

(* The script must be there and be the one that was reviewed, and the image, *)
(* service, region and project must look like ones.                          *)
cloud_run_deploy(c) ==
    IF c.action \in {"missing", "tampered", "malformed"} THEN Says("raises")
    ELSE Plan(<<Change(~Default(c.flag, TRUE))>>)

gcloud_cli(c) ==
    IF c.action \in {"shell_operator", "not_gcloud", "other_group", "delete"} THEN Says("raises")
    ELSE Plan(<<Change(c.action = "update")>>)

_check_command(c) == c.action \notin {"denied", "outside"}
shell_exec(c) == IF _check_command(c) THEN Plan(<<"change">>) ELSE Says("raises")
code_sandbox(c) == CASE c.action = "outside" -> Says("raises")
                     [] c.action = "other_runtime" -> Says("error")
                     [] OTHER -> Plan(<<"change">>)

(* golangci-lint is not asked to fix.                                        *)
linter_run(c) == Plan(<<Change(Default(c.flag, FALSE) /\ c.via # "go")>>)
(* Tests do what they do.                                                    *)
test_runner(c) == Plan(<<"change">>)
dependency_audit(c) == Plan(<<"look">>)
docker_build(c) == IF Default(c.flag, FALSE) THEN Says("asks") ELSE Plan(<<"change">>)
docker_compose_deploy(c) == Plan(<<Change(c.action \notin {"ps", "logs"})>>)

_run(c) == CASE c.tool = "db_migrate" -> db_migrate(c)
             [] c.tool = "git_ops" -> git_ops(c)
             [] c.tool = "env_manager" -> env_manager(c)
             [] c.tool = "kubernetes_apply" -> kubernetes_apply(c)
             [] c.tool = "cloud_run_deploy" -> cloud_run_deploy(c)
             [] c.tool = "gcloud_cli" -> gcloud_cli(c)
             [] c.tool = "shell_exec" -> shell_exec(c)
             [] c.tool = "code_sandbox" -> code_sandbox(c)
             [] c.tool = "linter_run" -> linter_run(c)
             [] c.tool = "test_runner" -> test_runner(c)
             [] c.tool = "dependency_audit" -> dependency_audit(c)
             [] c.tool = "docker_build" -> docker_build(c)
             [] c.tool = "docker_compose_deploy" -> docker_compose_deploy(c)

(* A command that overruns its limit is killed by subprocess.run and by the  *)
(* two shells, unless the shell's own limit is longer than the call's; what  *)
(* a killed shell or script has started may go on. The others go on: some    *)
(* say that the time is over, the rest raise out of the call.                *)
Killed(c) == \/ c.tool \in {"cloud_run_deploy", "gcloud_cli", "shell_exec"}
             \/ c.tool = "code_sandbox" /\ c.action # "long"
Tells(c) == Killed(c) \/ c.tool \in {"linter_run", "test_runner", "docker_build"}
GoesOn(c) == CASE c.tool = "gcloud_cli" -> {FALSE}
               [] Killed(c) /\ c.tool # "gcloud_cli" -> BOOLEAN
               [] ~Killed(c) -> {TRUE}

(* npm audit and govulncheck: whatever becomes of the command, what it       *)
(* printed is searched for findings, and none is an answer like another.     *)
Unnoticed(c) == c.tool = "dependency_audit" /\ c.via # "python"

-----------------------------------------------------------------------------
Current == calls[Len(calls)]
Busy == calls # <<>> /\ Current.answer = "none"
Becomes(call) == calls' = [calls EXCEPT ![Len(calls)] = call]

Init == calls = <<>>

(* ToolHandler.run: validation, then the handler up to its first command.    *)
run(c) ==
    /\ ~Busy /\ Len(calls) < MaxCalls
    /\ LET fit == [c EXCEPT !.flag = _coerce_inputs(c.flag)]
           does == IF fit.flag \in Plain THEN _run(fit) ELSE Says("raises")
           writes == does.commands = <<"write">>
       IN calls' = Append(calls, [inputs |-> fit,
                                  commands |-> IF writes THEN <<>> ELSE does.commands,
                                  previewed |-> FALSE,
                                  changed |-> writes,
                                  answer |-> IF writes THEN "ok" ELSE does.answer])

(* The program is not installed, so nothing starts.                          *)
NotFound ==
    /\ Busy /\ ~Current.changed
    /\ LET c == Current.inputs
           told == CASE c.tool \in {"cloud_run_deploy", "gcloud_cli"} -> "raises"
                     [] c.tool \in {"db_migrate", "env_manager", "shell_exec",
                                    "linter_run"} -> "failed"
                     [] Unnoticed(c) -> "ok"
                     [] OTHER -> "error"
       IN Becomes([Current EXCEPT !.commands = <<>>, !.answer = told])

(* A command changes what it is there to change, waited for or abandoned.    *)
Works == \E i \in DOMAIN calls :
    /\ calls[i].commands # <<>> /\ Head(calls[i].commands) = "change"
    /\ calls' = [calls EXCEPT ![i].changed = TRUE]

Succeeds ==
    /\ Busy
    /\ Head(Current.commands) = "change" => Current.changed
    /\ Becomes([Current EXCEPT !.commands = Tail(@),
                               !.previewed = @ \/ Head(Current.commands) = "look",
                               !.answer = IF Len(Current.commands) = 1 THEN "ok" ELSE "none"])

(* Variant with a plausible mistake: the apply follows a failed dry run.     *)
Fails_goesOn ==
    /\ Busy
    /\ Becomes([Current EXCEPT !.commands = Tail(@),
                               !.answer = IF Len(Current.commands) = 1 THEN "failed" ELSE "none"])

(* kubernetes_apply returns when the dry run of the server fails.            *)
Fails ==
    /\ Busy
    /\ Becomes([Current EXCEPT !.commands = <<>>,
                               !.answer = IF Unnoticed(Current.inputs) THEN "ok" ELSE "failed"])

(* A limit passes, the command's own or the call's.                          *)
Overruns ==
    /\ Busy
    /\ \E goesOn \in GoesOn(Current.inputs) :
          Becomes([Current EXCEPT
                     !.commands = IF goesOn THEN <<Head(@)>> ELSE <<>>,
                     !.answer = IF Tells(Current.inputs) THEN "timeout" ELSE "raises"])

(* A command nobody waits for ends, having changed something or not.         *)
LeftEnds == \E i \in DOMAIN calls :
    /\ calls[i].answer # "none" /\ calls[i].commands # <<>>
    /\ calls' = [calls EXCEPT ![i].commands = <<>>]

Next == \/ \E c \in Inputs : run(c)
        \/ NotFound
        \/ Works
        \/ Succeeds
        \/ Fails
        \/ Overruns
        \/ LeftEnds
Spec == Init /\ [][Next]_vars
-----------------------------------------------------------------------------
(* A call with the argument dry_run, given in any spelling or by default     *)
DryRun(c) == \/ c.flag = "true" /\ c.tool \in {"db_migrate", "kubernetes_apply",
                                               "cloud_run_deploy"}
             \/ c.flag = "unset" /\ c.tool \in {"kubernetes_apply", "cloud_run_deploy"}

(* A call whose handler has a change to make                                 *)
Promises(c) == c.flag \in Plain
               /\ _run(c).commands \in {<<"write">>, <<"change">>, <<"look", "change">>}

(* What a call was answered stays true while commands that overran their     *)
(* time go on behind it and behind later calls: "ok" of a call that changes  *)
(* something says that the change is made, of another that none is and none  *)
(* will be; a failure, that nothing of the call runs any more; a question, a *)
(* refusal and an error, that moreover nothing was changed. And whether its  *)
(* time is over or not, a call with dry_run changes nothing, and kubectl     *)
(* applies only what the server's dry run has accepted in the same call      *)
(* (ToolHandler.run and _run of the handlers).                               *)
AnswersStayTrue == \A i \in DOMAIN calls :
    LET call == calls[i]
    IN /\ call.answer \in {"ok", "failed", "asks", "skipped", "error"} => call.commands = <<>>
       /\ call.answer = "ok" => (call.changed <=> Promises(call.inputs))
       /\ call.answer \in {"asks", "skipped", "error"} => ~call.changed
       /\ DryRun(call.inputs) => ~call.changed
       /\ call.inputs.tool = "kubernetes_apply" /\ call.changed => call.previewed

(* What db_migrate says of its dry runs: the action of that name and the     *)
(* argument preview. Violated: for Prisma the action deploys.                *)
DryRunChangesNothing == \A i \in DOMAIN calls :
    calls[i].inputs.tool = "db_migrate" /\ calls[i].changed =>
        calls[i].inputs.action # "dry_run" /\ calls[i].inputs.flag # "true"
=============================================================================
