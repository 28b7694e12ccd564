----------------------------- MODULE BackendFiles -----------------------------
(***************************************************************************)
(* What a path names.  The files of attempts lie in directories of the     *)
(* host; the file tools of a backend translate the paths of the agent      *)
(* themselves, its shell sees the directories through the mounts of a      *)
(* container, and the parent's tools have a third translation.             *)
(* A path is a sequence of segments, absolute or not.                      *)
(***************************************************************************)
EXTENDS Integers, SequencesExt

CONSTANTS
  Attempts,   \* the attempts of a run
  OwnInput,   \* those whose profile has an input directory of its own
  Paths,      \* the paths agents use: [absolute, segments]
  Texts,      \* what they write
  RootDirs,   \* root_mount_dirs of the podman backend
  Shared      \* owner of what all attempts of the run share

ASSUME FilesAssumption ==
  /\ OwnInput \subseteq Attempts
  /\ Paths \subseteq [absolute : BOOLEAN, segments : Seq(STRING)]
  /\ RootDirs \subseteq STRING \ {".", "workspace", "input", "output", "outputs"}

VARIABLES
  backend,    \* "podman" or "controller"
  live,       \* attempts with a backend
  started,    \* attempts that have had one
  disk        \* the files of the host: [dir, path, text]

fileVars == <<backend, live, started, disk>>

Location(dir, path) == [dir |-> dir, path |-> path]

(* The directories of the host.                                              *)
Outputs      == <<"outputs", Shared>>
RunInput     == <<"input", Shared>>
InputDir(a)  == <<"input", IF a \in OwnInput THEN a ELSE Shared>>
Workspace(a) == <<"workspace", IF backend = "podman" THEN a ELSE Shared>>

-----------------------------------------------------------------------------
(* posixpath.normpath of a relative path keeps the ".." it begins with.      *)
Segment(path, s) ==
  CASE s = "."                                           -> path
    [] s = ".." /\ path # <<>> /\ Last(path) # ".." -> Front(path)
    [] OTHER                                             -> Append(path, s)
Normpath(segments) == FoldLeft(Segment, <<>>, segments)

(* The kernel, and normpath of an absolute path: the root is its own parent. *)
Upwards(path, s) == IF s = ".." /\ path = <<>> THEN path ELSE Segment(path, s)
Absolute(segments) == FoldLeft(Upwards, <<>>, segments)

(* _normalize_sandbox_path: a leading "/" makes no difference.               *)
SandboxPath(p) == Normpath(p.segments)
Refuses(p) ==
  \/ p.segments = <<>>
  \/ Normpath(p.segments) # <<>> /\ Head(Normpath(p.segments)) \in {"..", "~"}

(* _resolve_virtual_path of either backend.                                  *)
ToolPlace(a, p) ==
  LET path == SandboxPath(p)
  IN IF path = <<>> THEN Location(Workspace(a), <<>>)
     ELSE CASE Head(path) = "workspace"            -> Location(Workspace(a), Tail(path))
            [] Head(path) = "input"                -> Location(InputDir(a), Tail(path))
            [] Head(path) \in {"outputs", "output"} -> Location(Outputs, Tail(path))
            [] OTHER                               -> Location(Workspace(a), path)

Mount(at, dir, path) == [at |-> at, dir |-> dir, path |-> path]

\* Mutant: podman mounts the directories at the root only.
MountsOnce(a) ==
  {Mount(<<"workspace">>, Workspace(a), <<>>), Mount(<<"input">>, InputDir(a), <<>>),
   Mount(<<"outputs">>, Outputs, <<>>)}
  \cup {Mount(<<name>>, Workspace(a), <<name>>) : name \in RootDirs}

(* _mounts                                                                   *)
PodmanMounts(a) ==
  {Mount(<<"workspace">>, Workspace(a), <<>>)}
  \cup {Mount(at, InputDir(a), <<>>) : at \in {<<"input">>, <<"workspace", "input">>}}
  \cup {Mount(at, Outputs, <<>>) : at \in {<<"outputs">>, <<"workspace", "outputs">>}}
  \cup {Mount(<<name>>, Workspace(a), <<name>>) : name \in RootDirs}

(* run_sandbox, which knows nothing of profiles.                             *)
ControllerMounts(a) ==
  {Mount(<<"workspace">>, Workspace(a), <<>>), Mount(<<"input">>, RunInput, <<>>),
   Mount(<<"outputs">>, Outputs, <<>>)}

Mounts(a) == IF backend = "podman" THEN PodmanMounts(a) ELSE ControllerMounts(a)

Above(mounts, path) == {m \in mounts : IsPrefix(m.at, path)}

(* The file a shell in /workspace means; Nowhere is the image's own root.    *)
Nowhere == Location(<<"image", Shared>>, <<>>)
From(p) == IF p.absolute THEN <<>> ELSE <<"workspace">>
ShellPlace(a, p) ==
  LET path  == Absolute(From(p) \o p.segments)
      above == Above(Mounts(a), path)
      mount == CHOOSE m \in above : \A n \in above : Len(n.at) <= Len(m.at)
  IN IF above = {} THEN Nowhere
     ELSE Location(mount.dir, mount.path \o SubSeq(path, Len(mount.at) + 1, Len(path)))

(* resolve_readable_virtual_path for /outputs and /input.                    *)
ParentReads(p) == p.absolute /\ Absolute(p.segments) # <<>> /\
  Head(Absolute(p.segments)) \in {"outputs", "input"}
ParentPlace(p) ==
  LET path == Absolute(p.segments)
  IN Location(IF Head(path) = "outputs" THEN Outputs ELSE RunInput, Tail(path))

-----------------------------------------------------------------------------
FilesInit ==
  /\ backend \in {"podman", "controller"}
  /\ live = {} /\ started = {} /\ disk = {}

At(place)    == {f \in disk : Location(f.dir, f.path) = place}
IsDirectory(place) == place.path = <<>> \/
  \E f \in disk : f.dir = place.dir /\ IsStrictPrefix(place.path, f.path)
FileOnTheWay(place) == \E f \in disk : f.dir = place.dir /\ IsStrictPrefix(f.path, place.path)
Fits(place)  == ~ IsDirectory(place) /\ ~ FileOnTheWay(place)

Written(place, text) ==
  (disk \ At(place)) \cup {[dir |-> place.dir, path |-> place.path, text |-> text]}

(* create_configured_backend: podman has a new scratch directory, all        *)
(* attempts behind a controller have the workspace of the run.               *)
OpenBackend(a) ==
  /\ a \notin started /\ live' = live \cup {a} /\ started' = started \cup {a}
  /\ UNCHANGED <<backend, disk>>

(* One file of upload_files; it raises where a directory has to be made      *)
(* below a file, and answers an error where a directory has the name.        *)
UploadFile(a, p, text) ==
  /\ a \in live /\ ~ Refuses(p) /\ Fits(ToolPlace(a, p))
  /\ disk' = Written(ToolPlace(a, p), text)
  /\ UNCHANGED <<backend, live, started>>

(* A command writes a file and makes the directories above it; /input and    *)
(* the image are read-only.                                                  *)
ShellWrite(a, p, text) ==
  LET place == ShellPlace(a, p)
  IN /\ a \in live /\ place # Nowhere /\ place.dir[1] # "input" /\ Fits(place)
     /\ disk' = Written(place, text)
     /\ UNCHANGED <<backend, live, started>>

(* cleanup removes the scratch directory of podman; the controller does      *)
(* nothing.                                                                  *)
CloseBackend(a) ==
  /\ a \in live /\ live' = live \ {a}
  /\ disk' = IF backend = "podman" THEN {f \in disk : f.dir # Workspace(a)} ELSE disk
  /\ UNCHANGED <<backend, started>>

FilesStep(a) ==
  \/ OpenBackend(a) \/ CloseBackend(a)
  \/ \E p \in Paths, text \in Texts : UploadFile(a, p, text) \/ ShellWrite(a, p, text)

FilesNext == \E a \in Attempts : FilesStep(a)

FilesSpec == FilesInit /\ [][FilesNext]_fileVars

-----------------------------------------------------------------------------
(* Properties *)

(* download_files and a command that reads: the text, or none.               *)
Found(place) == {f.text : f \in At(place)}

Root(p) == IF SandboxPath(p) = <<>> THEN "." ELSE Head(SandboxPath(p))

(* Paths whose meaning the tools and the shell share: the mounted names, but *)
(* not what podman mounts over its workspace; names without "/" below the    *)
(* workspace, and with podman those of the inputs and outputs.  The shell    *)
(* behind a controller has no input directory of a profile.                  *)
Shadowed(p) == Root(p) = "workspace" /\ Len(SandboxPath(p)) > 1 /\
               SandboxPath(p)[2] \in {"input", "outputs"}
Common(a, p) ==
  IF p.absolute
  THEN \/ Root(p) \in {"workspace", "input", "outputs"} /\ ~ (backend = "podman" /\ Shadowed(p))
       \/ Root(p) \in RootDirs /\ backend = "podman"
  ELSE Root(p) \notin {"workspace", "output", "input", "outputs"}
       \/ (Root(p) \in {"input", "outputs"} /\ backend = "podman")
OfTheRun(a, p) == Root(p) # "input" \/ a \notin OwnInput

(* Of the paths the tools take, the kernel and the normalization of the code *)
(* make the same list of names.                                              *)
TranslationsAgree ==
  \A p \in Paths : ~ Refuses(p) =>
    /\ SandboxPath(p) \in Seq(STRING) /\ Absolute(p.segments) = SandboxPath(p)
    /\ Absolute(From(p) \o p.segments) = From(p) \o SandboxPath(p)

(* A file that a tool or a command has put at a path is what both find there *)
(* and, under /outputs and the input of the run, what the parent finds.      *)
SameFile ==
  \A a \in live, p \in Paths : ~ Refuses(p) /\ Common(a, p) =>
    /\ backend = "podman" \/ OfTheRun(a, p) =>
         Found(ToolPlace(a, p)) = Found(ShellPlace(a, p))
    /\ ParentReads(p) /\ OfTheRun(a, p) =>
         Found(ToolPlace(a, p)) = Found(ParentPlace(p))
===============================================================================
