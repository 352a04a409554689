----------------------------- MODULE OutputPath -----------------------------
(* The output files of the applications: how a configured path is rendered, *)
(* how its parent directories are created, and how it is opened.  nanoinit  *)
(* itself opens the files of captured streams, every forked child those of  *)
(* its other streams, and all of them work on the same directories at the   *)
(* same time.  The sources are src/source/supervisor/output_path.c,         *)
(* src/source/log_formatter.c and the callers in lifecycle.c and            *)
(* app_logging.c.                                                           *)
(*                                                                          *)
(* A definition marked "Mutant" is a wrong variant of the next one, used    *)
(* only to show which property would notice.                                *)
EXTENDS Integers, Sequences, FiniteSets, SequencesExt

CONSTANTS Openers,       \* 0 is nanoinit, the others are children
          MaxRemovals    \* bound on what others remove meanwhile

ASSUME OutputPathAssumption == 0 \in Openers /\ MaxRemovals \in Nat

VARIABLES dirs,     \* the directories that exist
          files,    \* the files that exist
          removals, \* how much was removed by others
          job       \* what every opener is doing

outputVars == <<dirs, files, removals, job>>

-----------------------------------------------------------------------------
(* Paths *)

(* log_format_render() on a format whose elements are one name each: a text *)
(* or a placeholder.  {env:NAME} comes first and is empty when unset, an    *)
(* unknown placeholder stays as it is.                                      *)
RenderPart(part, values, env) ==
    CASE part.kind = "text" -> part.name
      [] part.kind = "env" -> IF part.name \in DOMAIN env THEN env[part.name] ELSE ""
      [] part.kind = "value" ->
            IF part.name \in DOMAIN values THEN values[part.name] ELSE part.name

(* Adjacent slashes count as one, so an empty name disappears. *)
Render(format, values, env) ==
    FlattenSeq([i \in DOMAIN format |->
        LET name == RenderPart(format[i], values, env)
        IN  IF name = "" THEN <<>> ELSE <<name>>])

DevNull == <<"dev", "null">>

(* supervisor_output_path_redirect_target(): an empty path is /dev/null. *)
RedirectTarget(path) == IF path = <<>> THEN DevNull ELSE path

-----------------------------------------------------------------------------
(* Creating the parent directories and opening.  The step of a job is the   *)
(* system call it makes next on the first of its paths: mkdir() and stat()  *)
(* on the ancestor of length depth, or open().                              *)

(* supervisor_output_path_create_parent_dirs() has nothing to do for a path *)
(* without a directory.                                                     *)
BeginPath(paths, create, failed) ==
    [paths |-> paths, create |-> create, depth |-> 1, failed |-> failed,
     step |-> CASE paths = <<>> -> "idle"
                [] paths # <<>> /\ create /\ Len(Head(paths)) > 1 -> "mkdir"
                [] OTHER -> "open"]

Idle == BeginPath(<<>>, FALSE, {})

Path(o) == Head(job[o].paths)
Ancestor(o) == SubSeq(Path(o), 1, job[o].depth)

(* The directory that holds p is there. *)
ParentExists(p) == Len(p) = 1 \/ Front(p) \in dirs
LookupError(p) == IF \E f \in files : IsStrictPrefix(f, p) THEN "ENOTDIR" ELSE "ENOENT"

Advanced(j) ==
    IF j.depth = Len(Head(j.paths)) - 1 THEN [j EXCEPT !.step = "open"]
    ELSE [j EXCEPT !.step = "mkdir", !.depth = j.depth + 1]

NextAncestor(o) == job' = [job EXCEPT ![o] = Advanced(job[o])]

(* Mutant: the work is over after the first path. *)
NextPathForgotten(o) == job' = [job EXCEPT ![o].step = "idle"]

NextPath(o) ==
    job' = [job EXCEPT ![o] = BeginPath(Tail(@.paths), @.create, @.failed)]

(* nanoinit falls back to /dev/null and goes on; a child reports the error  *)
(* and exits.                                                               *)
Failed(o, errno) ==
    LET failure == [path |-> Path(o), errno |-> errno, create |-> job[o].create]
    IN  job' = [job EXCEPT ![o] =
                  BeginPath(IF o = 0 THEN Tail(@.paths) ELSE <<>>, @.create,
                            @.failed \cup {failure})]

(* Mutant: a directory that is there already is an error. *)
MkdirNew(o) ==
    /\ job[o].step = "mkdir"
    /\ IF Ancestor(o) \notin dirs \cup files /\ ParentExists(Ancestor(o))
         THEN dirs' = dirs \cup {Ancestor(o)} /\ NextAncestor(o)
         ELSE UNCHANGED dirs /\ Failed(o, "EEXIST")
    /\ UNCHANGED <<files, removals>>

(* output_path_ensure_directory(), the mkdir() *)
Mkdir(o) ==
    /\ job[o].step = "mkdir"
    /\ \/ /\ Ancestor(o) \in dirs \cup files          \* EEXIST
          /\ job' = [job EXCEPT ![o].step = "stat"]
          /\ UNCHANGED dirs
       \/ /\ Ancestor(o) \notin dirs \cup files
          /\ ParentExists(Ancestor(o))
          /\ dirs' = dirs \cup {Ancestor(o)}
          /\ NextAncestor(o)
       \/ /\ Ancestor(o) \notin dirs \cup files
          /\ ~ParentExists(Ancestor(o))
          /\ Failed(o, LookupError(Ancestor(o)))
          /\ UNCHANGED dirs
    /\ UNCHANGED <<files, removals>>

(* Mutant: what is no directory is tried again. *)
StatTriesAgain(o) ==
    /\ job[o].step = "stat"
    /\ IF Ancestor(o) \in dirs THEN NextAncestor(o)
                               ELSE job' = [job EXCEPT ![o].step = "mkdir"]
    /\ UNCHANGED <<dirs, files, removals>>

(* output_path_ensure_directory(), the stat() after EEXIST *)
Stat(o) ==
    /\ job[o].step = "stat"
    /\ IF Ancestor(o) \in dirs THEN NextAncestor(o) ELSE Failed(o, "ENOTDIR")
    /\ UNCHANGED <<dirs, files, removals>>

Open(o) ==
    /\ job[o].step = "open"
    /\ \/ /\ ParentExists(Path(o))
          /\ Path(o) \notin dirs
          /\ files' = files \cup {Path(o)}
          /\ NextPath(o)
       \/ /\ ~(ParentExists(Path(o)) /\ Path(o) \notin dirs)
          /\ Failed(o, IF Path(o) \in dirs THEN "EISDIR" ELSE LookupError(Path(o)))
          /\ UNCHANGED files
    /\ UNCHANGED <<dirs, removals>>

(* Somebody else removes a file or an empty directory. *)
RemovePath(p) ==
    /\ removals < MaxRemovals
    /\ p \in dirs \cup files
    /\ Head(p) # "dev"
    /\ ~\E q \in dirs \cup files : IsStrictPrefix(p, q)
    /\ dirs' = dirs \ {p}
    /\ files' = files \ {p}
    /\ removals' = removals + 1
    /\ UNCHANGED job

OutputStep(o) == Mkdir(o) \/ Stat(o) \/ Open(o)

(* A regular file may be in the way of a directory. *)
OutputInit(obstacles) ==
    /\ dirs = {<<"dev">>}
    /\ files = {DevNull} \cup obstacles
    /\ removals = 0
    /\ job = [o \in Openers |-> Idle]

-----------------------------------------------------------------------------
(* Properties *)

OutputTypeOK ==
    /\ dirs \cap files = {}
    /\ removals \in 0..MaxRemovals
    /\ \A o \in Openers : /\ job[o].step \in {"idle", "mkdir", "stat", "open"}
                          /\ job[o].step = "idle" <=> job[o].paths = <<>>

(* Openers never get into each other's way: as long as nobody else removes  *)
(* anything, an output file is only not opened because a file stands where  *)
(* a directory is needed, because the path is a directory, or because the   *)
(* directory is missing and ni_create_log_dirs is off.  And the ENOTDIR     *)
(* that output_path_ensure_directory() makes up for a path that it found    *)
(* existing and then not a directory is true.                               *)
OpensUnlessHindered ==
    removals = 0 =>
        \A o \in Openers : \A f \in job[o].failed :
            LET obstructed == \E g \in files : IsStrictPrefix(g, f.path) IN
            CASE f.errno = "ENOTDIR" -> obstructed
              [] f.errno = "EISDIR" -> f.path \in dirs
              [] f.errno = "ENOENT" -> ~f.create /\ Front(f.path) \notin dirs
              [] OTHER -> FALSE
=============================================================================
