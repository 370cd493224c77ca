------------------------------ MODULE Filesystem ------------------------------
(***************************************************************************)
(* The filesystem tool (tools/filesystem/handler.py): writes, appends and  *)
(* deletes of a bare path are redirected into built/, reads take a path as *)
(* it is; and project_scaffold, which writes the files of a template into  *)
(* a directory of built/.  The agents of a run share the tree, and so do   *)
(* their other tools.  No operation waits, so each is one step.            *)
(* A path is the sequence of its parts, after a first "/" when it is given *)
(* as an absolute one; a text is the sequence of what was written and      *)
(* appended.  list, search and exists change nothing and are left out.     *)
(***************************************************************************)
EXTENDS Naturals, Sequences, SequencesExt, Functions

CONSTANTS Rels,      \* the paths an agent may give
          Texts,     \* what it may write
          Kept,      \* files of the repository
          Siblings,  \* what begins like the working directory, next to it
          Scaffolds, \* the directories an agent may have scaffolded
          Templates, \* sequences of the files of a template
          MaxText    \* bound on the length of a text

VARIABLES files,   \* path -> text
          dirs,    \* the directories
          last     \* history: of each path given to write, what it should hold

vars == <<files, dirs, last>>

_CWD == <<"swarm">>

\* resolve(): ".." drops the part before it, there are no links.
Resolved(path) ==
  LET upTo[n \in 0..Len(path)] ==
        IF n = 0 THEN <<>>
        ELSE IF path[n] # ".." THEN Append(upTo[n - 1], path[n])
        ELSE IF upTo[n - 1] = <<>> THEN <<>> ELSE Front(upTo[n - 1])
  IN upTo[Len(path)]

\* _safe_path, and whether it does not raise: it compares the texts, so what
\* is next to the working directory and begins like it passes too.
_safe_path(rel) ==
  IF rel # <<>> /\ rel[1] = "/" THEN Resolved(Tail(rel)) ELSE Resolved(_CWD \o rel)
Safe(path) == path # <<>> /\ path[1] \in {"swarm"} \cup Siblings

_INTERNAL_PREFIXES == {"traces", "memory_store", "configs", "agents", "tools",
                       "coordination", "core", "providers", "observability",
                       "memory", "api", "cli", "tests", "built"}

_build_path(rel) ==
  IF rel # <<>> /\ rel[1] \in _INTERNAL_PREFIXES \cup {"/"} THEN _safe_path(rel)
  ELSE _safe_path(<<"built">> \o rel)

\* What the constants are meant to be; the module that composes the parts
\* assumes it.  No agent names the working directory itself: deleting it is
\* not guarded against.  The paths of a scaffold are resolved as they stand
\* (a "/" at the start is dropped before), and no file of a template is below
\* another.
FilesystemAssumption ==
  /\ \A rel \in Rels :
       \/ rel \in Seq(STRING \ {"/"})
       \/ rel # <<>> /\ rel[1] = "/" /\ Tail(rel) \in Seq(STRING \ {"/"})
  /\ \A rel \in Rels : _build_path(rel) # _CWD
  /\ \A dir \in Scaffolds : dir \in Seq(STRING \ {"/", ".."})
  /\ \A template \in Templates :
       /\ template \in Seq(Seq(STRING \ {"/", ".."}))
       /\ \A i, j \in DOMAIN template : ~IsStrictPrefix(template[i], template[j])
  /\ MaxText \in Nat \ {0}

\* str(path.relative_to(_CWD)), the path that is reported, and whether it does
\* not raise
Reportable(path) == IsPrefix(_CWD, path)
Reported(path) == SubSeq(path, Len(_CWD) + 1, Len(path))

Above(path) == {SubSeq(path, 1, i) : i \in 1..Len(path) - 1}
Within(path) == {p \in DOMAIN files \cup dirs : IsPrefix(path, p)}
Exists(path) == path \in DOMAIN files \cup dirs

Init == /\ files = [p \in {_CWD \o k : k \in Kept} |-> <<>>]
        /\ dirs = {_CWD} \cup UNION {Above(_CWD \o k) : k \in Kept}
        /\ last = << >>

\* The texts with those of some paths replaced
With(texts, paths, text) ==
  [p \in paths \cup DOMAIN texts |-> IF p \in paths THEN text ELSE texts[p]]

\* The file at a path gets a text: what the given paths should hold follows.
Holds(path, text) ==
  [r \in DOMAIN last |-> IF _build_path(r) = path THEN text ELSE last[r]]

-----------------------------------------------------------------------------
\* mkdir(parents=True) and the open() that follows, unless a file is in the way
\* of the one or a directory in the way of the other
Openable(path) == Above(path) \cap DOMAIN files = {} /\ path \notin dirs

Put(path, text) == /\ files' = With(files, {path}, text)
                   /\ dirs' = dirs \cup Above(path)

\* Otherwise it raises, and nothing is changed.  Outside of the working
\* directory it raises after it has written, so no path is reported.
write(rel, text) ==
  LET path == _build_path(rel)
  IN /\ Safe(path) /\ Openable(path)
     /\ Put(path, <<text>>)
     /\ last' = IF Reportable(path) THEN With(Holds(path, <<text>>), {rel}, <<text>>)
                 ELSE last

append(rel, text) ==
  LET path == _build_path(rel)
      old == IF path \in DOMAIN files THEN files[path] ELSE <<>>
  IN /\ Len(old) < MaxText
     /\ Safe(path) /\ Openable(path)
     /\ Put(path, Append(old, text))
     /\ last' = Holds(path, Append(old, text))

\* What a deletion leaves of the given paths
Outlast(gone) == Restrict(last, {r \in DOMAIN last : _build_path(r) \notin gone})

\* unlink(), or rmtree() of a directory; an error where there is nothing
delete(rel) ==
  LET path == _build_path(rel)
      gone == Within(path)
  IN /\ Safe(path) /\ Exists(path)
     /\ files' = Restrict(files, DOMAIN files \ gone)
     /\ dirs' = dirs \ gone
     /\ last' = Outlast(gone)

\* project_scaffold: a "built/" at the start is not doubled.
out(dir) == IF Len(dir) > 1 /\ dir[1] = "built" THEN _CWD \o dir
            ELSE _CWD \o <<"built">> \o dir

\* The files it writes, one after the other, until one raises
Wanted(path, overwrite) == overwrite \/ ~Exists(path)

project_scaffold(dir, template, overwrite) ==
  LET path(i) == out(dir) \o template[i]
      wanted == {i \in DOMAIN template : Wanted(path(i), overwrite)}
      raising == {i \in wanted : ~Openable(path(i))}
      done == {path(i) : i \in {j \in wanted : \A k \in raising : j < k}}
      asked == {path(i) : i \in {j \in DOMAIN template : overwrite \/ ~Exists(path(j))}}
  IN /\ files' = With(files, done, <<"template">>)
     /\ dirs' = dirs \cup UNION {Above(p) : p \in done}
     /\ last' = With([r \in DOMAIN last |-> IF _build_path(r) \in done \cap asked
                                             THEN <<"template">> ELSE last[r]],
                     {Reported(p) : p \in done \cap asked}, <<"template">>)

\* Variant with a plausible mistake: reads are redirected as writes are.
ReadPath_redirected(rel) == _build_path(rel)

\* Reads take the path as it is.
ReadPath(rel) == _safe_path(rel)

\* The text that is read, or the error where there is none
read(rel) == IF ReadPath(rel) \in DOMAIN files THEN files[ReadPath(rel)] ELSE <<"error">>

\* Another tool, of this agent or of another, changes a file.
Elsewhere(rel) ==
  LET path == _safe_path(rel)
  IN /\ Safe(path) /\ Openable(path)
     /\ Put(path, <<"elsewhere">>)
     /\ last' = Outlast({path})

Next == \/ \E rel \in Rels, text \in Texts : write(rel, text) \/ append(rel, text)
        \/ \E rel \in Rels : delete(rel) \/ Elsewhere(rel)
        \/ \E dir \in Scaffolds, template \in Templates, overwrite \in BOOLEAN :
             project_scaffold(dir, template, overwrite)

Spec == Init /\ [][Next]_vars

-----------------------------------------------------------------------------
(* Under the path that a write reported, an agent reads what was last       *)
(* written and appended there, under whatever spellings of the path and by  *)
(* whichever agents, until it is deleted, with a directory above it or      *)
(* alone; a scaffold replaces it only if it was asked to (_build_path,      *)
(* _safe_path and project_scaffold).                                        *)
ReportedIsRead ==
  \A rel \in DOMAIN last : read(Reported(_build_path(rel))) = last[rel]

(* tests/integration/test_single_agent.py:101-105 writes hello.txt, reads   *)
(* hello.txt and asserts that it finds what it wrote; so does self_test.    *)
(* Violated: the write went to built/hello.txt.                             *)
WrittenIsRead == \A rel \in DOMAIN last : read(rel) = last[rel]

=============================================================================
