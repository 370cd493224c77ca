------------------------------ MODULE Workspace ------------------------------
(***************************************************************************)
(* The tools that put repositories on disk and check them: template_clone  *)
(* and template_verify under workspace/, github_clone under built/. The    *)
(* calls of concurrent agents meet in one target directory of each root.   *)
(* A template has one file besides its template.json; bytes are named by   *)
(* the call that fetched them, and a hash is equal iff the bytes are.      *)
(***************************************************************************)
EXTENDS Naturals, Sequences, FiniteSets

CONSTANTS TemplateCalls, GithubCalls,
          Specs,       \* the "files" lists a template.json may have
          Nothing

VARIABLES pc,        \* of each call
          result,    \* what the agent was told
          spec,      \* the files list of the template a call has cloned
          hashes,    \* locked_hashes of the call's answer: the file's hash or Nothing
          target,    \* workspace/<target_dir>: [owner, file, manifest] or Nothing
          nested,    \* the call whose repository is in workspace/<target_dir>/repo
          built      \* built/<target_dir>: [owner, whole] or Nothing

vars == <<pc, result, spec, hashes, target, nested, built>>

Calls == TemplateCalls \cup GithubCalls

Init == /\ pc = [c \in Calls |-> "called"]
        /\ result = [c \in Calls |-> "none"]
        /\ spec = [c \in TemplateCalls |-> <<>>]
        /\ hashes = [c \in TemplateCalls |-> Nothing]
        /\ target = Nothing /\ nested = Nothing /\ built = Nothing

Told(c, what) == /\ pc' = [pc EXCEPT ![c] = "returned"]
                 /\ result' = [result EXCEPT ![c] = what]

File == <<"src", "settings">>   \* the path of the template's file

(* A variant with a plausible mistake. *)

\* Variant: locked files are substituted, too.
Substituted_locked(mode) == mode \in {"configure", "locked"}

-----------------------------------------------------------------------------
(* template_clone *)

Prefixes(item) == item.dir /\ Len(item.path) <= Len(File)
                           /\ SubSeq(File, 1, Len(item.path)) = item.path

\* The first entry with the file's path, else the first of the longest
\* directories above it, else "extend".
_resolve_file_mode(items) ==
    LET exact == {i \in DOMAIN items : ~items[i].dir /\ items[i].path = File}
        above == {i \in DOMAIN items : Prefixes(items[i])}
        first == CHOOSE i \in exact : \A j \in exact : i <= j
        best  == CHOOSE i \in above : \A j \in above :
                     \/ Len(items[i].path) > Len(items[j].path)
                     \/ Len(items[i].path) = Len(items[j].path) /\ i <= j
    IN  IF exact # {} THEN items[first].mode
        ELSE IF above # {} THEN items[best].mode
        ELSE "extend"

Bytes(c)    == <<c, "as cloned">>
Replaced(c) == <<c, "substituted">>
Edited      == <<Nothing, "edited">>

\* What the target may be, and what the constants are meant to be: Nothing is
\* none of what is on disk. The MC module assumes it.
Targets == UNION {[owner : {c}, file : {Bytes(c), Replaced(c), Edited, Nothing},
                   manifest : {Bytes(c), Nothing}] : c \in TemplateCalls}
WorkspaceAssumption ==
    /\ TemplateCalls \cap GithubCalls = {}
    /\ Nothing \notin TemplateCalls \cup GithubCalls \cup Targets
                      \cup UNION {{Bytes(c), Replaced(c)} : c \in TemplateCalls}

\* Only a "configure" file has its parameters substituted.
Substituted(mode) == mode = "configure"

\* What the call leaves in its temporary directory, the manifest included.
Prepared(c, items) ==
    LET mode == _resolve_file_mode(items)
    IN  [owner    |-> c,
         file     |-> IF Substituted(mode) THEN Replaced(c) ELSE Bytes(c),
         manifest |-> IF mode = "locked" THEN Bytes(c) ELSE Nothing]

\* An existing target is refused; without organisation or token, an error.
BeginTemplate(c) ==
    /\ pc[c] = "called"
    /\ \/ target # Nothing /\ Told(c, "error")
       \/ target = Nothing /\ Told(c, "error")
       \/ target = Nothing /\ pc' = [pc EXCEPT ![c] = "cloning"] /\ UNCHANGED result
    /\ UNCHANGED <<spec, hashes, target, nested, built>>

\* The clone into the temporary directory fails, or a parameter is missing, or
\* the tool's timeout cancels the call: the target is not touched.
FailTemplate(c) ==
    /\ pc[c] = "cloning"
    /\ Told(c, "error")
    /\ UNCHANGED <<spec, hashes, target, nested, built>>

\* shutil.move of the prepared directory `repo`: onto a directory that exists by
\* now, it moves into it, and raises if that is taken as well.
Move(c) ==
    /\ pc[c] = "cloning"
    /\ \E items \in Specs :
           /\ spec' = [spec EXCEPT ![c] = items]
           /\ hashes' = [hashes EXCEPT ![c] = Prepared(c, items).manifest]
           /\ \/ target = Nothing /\ target' = Prepared(c, items) /\ UNCHANGED nested
              \/ target # Nothing /\ nested = Nothing /\ nested' = c /\ UNCHANGED target
    /\ Told(c, "success")
    /\ UNCHANGED built

MoveRaises(c) ==
    /\ pc[c] = "cloning"
    /\ target # Nothing /\ nested # Nothing
    /\ Told(c, "error")
    /\ UNCHANGED <<spec, hashes, target, nested, built>>

\* An agent edits or removes the file with another tool.
EditFile ==
    /\ target # Nothing
    /\ target' \in {[target EXCEPT !.file = Edited], [target EXCEPT !.file = Nothing]}
    /\ UNCHANGED <<pc, result, spec, hashes, nested, built>>

\* template_verify: against the given hash of the file, if there is one.
Unchanged(hash) == hash = Nothing \/ target.file = hash

template_verify_given(c) == target # Nothing /\ Unchanged(hashes[c])
template_verify          == target # Nothing /\ Unchanged(target.manifest)

-----------------------------------------------------------------------------
(* github_clone: git writes into the target itself. *)

BeginGithub(c) ==
    /\ pc[c] = "called"
    /\ \/ built # Nothing /\ Told(c, "error")
       \/ built = Nothing /\ pc' = [pc EXCEPT ![c] = "spawned"] /\ UNCHANGED result
    /\ UNCHANGED <<spec, hashes, target, nested, built>>

\* git makes the directory, or finds one that another call's git has made.
MakeDirectory(c) ==
    /\ pc[c] = "spawned"
    /\ \/ /\ built = Nothing
          /\ built' = [owner |-> c, whole |-> FALSE]
          /\ pc' = [pc EXCEPT ![c] = "cloning"]
          /\ UNCHANGED result
       \/ /\ built # Nothing
          /\ Told(c, "error")
          /\ UNCHANGED built
    /\ UNCHANGED <<spec, hashes, target, nested>>

\* git ends: it has the repository, or removes what it made; killed after 150 s
\* it leaves the part it has. If the tool's own timeout was earlier, the thread
\* goes on and git does the same.
GitEnds(c) ==
    /\ pc[c] = "cloning"
    /\ \/ built' = [built EXCEPT !.whole = TRUE] /\ Told(c, "success")
       \/ built' = [built EXCEPT !.whole = TRUE] /\ Told(c, "error")
       \/ built' = Nothing /\ Told(c, "error")
       \/ UNCHANGED built /\ Told(c, "error")
    /\ UNCHANGED <<spec, hashes, target, nested>>

Next == \/ \E c \in TemplateCalls : \/ BeginTemplate(c) \/ FailTemplate(c)
                                    \/ Move(c) \/ MoveRaises(c)
        \/ EditFile
        \/ \E c \in GithubCalls : BeginGithub(c) \/ MakeDirectory(c) \/ GitEnds(c)

Spec == Init /\ [][Next]_vars

-----------------------------------------------------------------------------
(* Properties. *)

\* What a template call reports as its clone's locked hashes, and what its
\* manifest says, is true of the target until somebody changes the file: both
\* verifications accept a clone that nobody edited, whatever its files list
\* says, and reject one whose locked file was edited or removed.
VerificationIsExact ==
    \A c \in TemplateCalls :
        result[c] = "success" /\ target.owner = c =>
            LET untouched == target.file \in {Bytes(c), Replaced(c)}
                locked    == _resolve_file_mode(spec[c]) = "locked"
            IN  /\ template_verify_given(c) = (untouched \/ ~locked)
                /\ template_verify = template_verify_given(c)

=============================================================================
