------------------------------- MODULE RunInputs -------------------------------
(***************************************************************************)
(* What a run of the parent runner puts under /input, and what each Deep   *)
(* Agent call finds mounted there: main stages the inputs and the global   *)
(* skills, loads the profiles and stages their skills, and every call      *)
(* prepares the input directory of its profile, beside the calls that run  *)
(* already.  A directory is the set of its files; a file is a path with    *)
(* the position of the spec that put it there, 0 in an earlier run.        *)
(***************************************************************************)
EXTENDS Integers, SequencesExt, Subsequences

CONSTANTS
  Jobs,      \* command lines: [inputs, skills, profiles, clear, keep]
  LeftOver,  \* files that an earlier run may have left in a directory
  Calls,     \* the calls of profile tools (bound)
  None

Skill == <<"SKILL.md">>
Host  == <<>>               \* path of the file itself, when a spec is one file

ASSUME JobAssumption ==
  \A j \in Jobs : /\ j.profiles \in Seq(Range(j.profiles))
                  /\ \A k \in DOMAIN j.profiles :
                       j.profiles[k].virtual \in Seq(Range(j.profiles[k].virtual))

VARIABLES
  job,        \* the command line
  phase,      \* "start", "inputs", "skills", "profiles", "running", "over", "failed"
  todo,       \* specs still to stage, each with its owner: 0 is the run
  input,      \* input_dir
  placed,     \* history: the target and the files of each staged spec
  sources,    \* skill sources that staging has returned to each owner
  profiles,   \* the loaded profiles
  skills,     \* skill_sources of each profile
  mounts,     \* directories under profile_inputs
  pc,         \* of each call: "idle", "copying", "ready", "running", "over"
  profile,    \* its profile
  left,       \* skill sources it still has to copy
  disturbed   \* history: another call has touched the directory of the call

runVars   == <<job, phase, todo, input, placed, sources, profiles, skills>>
callVars  == <<pc, profile, left>>
vars      == <<runVars, mounts, callVars, disturbed>>

-----------------------------------------------------------------------------
(* Directories *)

Within(target, tree) == {f \in tree : IsPrefix(target, f.path)}
IsFile(target, tree) == \E f \in tree : f.path = target
IsDir(target, tree)  == \E f \in Within(target, tree) : f.path # target
FileAbove(target, tree) == \E f \in tree : f.path # target /\ IsPrefix(f.path, target)

Files(spec, target, from) == {[path |-> target \o p, from |-> from] : p \in spec.files}
OneFile(spec) == spec.files = {Host}
Single(spec)  == Skill \in spec.files

(* sandbox_input_relative gives no path for the target, or the host has none. *)
Unusable(spec) == spec.at = <<>> \/ spec.files = {}

Place(spec, target, tree) ==
  /\ input' = tree \cup Files(spec, target, Len(placed) + 1)
  /\ placed' = Append(placed, [at |-> target, files |-> spec.files])
  /\ todo' = Tail(todo)

-----------------------------------------------------------------------------
(* Profiles *)

AllowedToolsets == {"review", "file_read", "image_inspect", "site_crawl", "browser"}

(* load_deep_agent_profile accepts the document.                             *)
ValidProfile(p) ==
  /\ p.toolsets \subseteq AllowedToolsets /\ "review" \in p.toolsets
  /\ p.access \in {"all", "skills_only", "none"}
  /\ p.access # "all" => "file_read" \notin p.toolsets

Hidden(p) == ~ p.explicit /\ ~ p.exposed
Exposed(paths) == {k \in DOMAIN paths : ~ Hidden(paths[k])}

Clash(p, q) == p.id = q.id \/ p.tool = q.tool

(* load_deep_agent_profiles raises: every file is parsed, hidden or not.     *)
Refused(paths) ==
  \/ \E k \in DOMAIN paths : ~ ValidProfile(paths[k])
  \/ \E j, k \in Exposed(paths) : j < k /\ Clash(paths[j], paths[k])

-----------------------------------------------------------------------------
Init ==
  /\ job \in Jobs /\ phase = "start" /\ todo = <<>>
  /\ input \in {{}, LeftOver} /\ placed = <<>>
  /\ sources = [owner \in 0 .. Len(job.profiles) |-> <<>>]
  /\ profiles = <<>> /\ skills = <<>>
  /\ mounts = [d \in {p.dir : p \in ToSet(job.profiles)} |-> input]
  /\ pc = [c \in Calls |-> "idle"] /\ profile = [c \in Calls |-> None]
  /\ left = [c \in Calls |-> <<>>] /\ disturbed = [c \in Calls |-> FALSE]

Owned(specs, owner) == [k \in DOMAIN specs |-> [spec |-> specs[k], owner |-> owner]]

(* require_safe_output_dir refuses the directory, or an entry of it cannot   *)
(* be cleared.                                                               *)
RefuseRun ==
  /\ phase = "start" /\ phase' = "failed"
  /\ UNCHANGED <<job, todo, input, placed, sources, profiles, skills, mounts, callVars,
                 disturbed>>

(* stage_inputs removes the staging directory, cleared output or not.        *)
PrepareRun ==
  /\ phase = "start" /\ phase' = "inputs"
  /\ mounts' = IF job.clear THEN [d \in DOMAIN mounts |-> {}] ELSE mounts
  /\ input' = {} /\ todo' = Owned(job.inputs, 0)
  /\ UNCHANGED <<job, placed, sources, profiles, skills, callVars, disturbed>>

(* copy2 puts a file into a directory that has its name; copytree refuses a  *)
(* destination that exists.                                                  *)
InputTarget(spec) ==
  IF OneFile(spec) /\ IsDir(spec.at, input) THEN Append(spec.at, spec.name) ELSE spec.at
InputFits(spec) ==
  /\ ~ Unusable(spec) /\ ~ FileAbove(spec.at, input)
  /\ ~ IsDir(InputTarget(spec), input)
  /\ IsFile(spec.at, input) => OneFile(spec)

StageInput ==
  /\ phase = "inputs" /\ todo # <<>>
  /\ LET spec == Head(todo).spec   target == InputTarget(spec)
     IN IF InputFits(spec)
        THEN Place(spec, target, input \ Within(target, input)) /\ UNCHANGED phase
        ELSE phase' = "failed" /\ UNCHANGED <<input, placed, todo>>
  /\ UNCHANGED <<job, sources, profiles, skills, mounts, callVars, disturbed>>

InputsStaged ==
  /\ phase = "inputs" /\ todo = <<>> /\ phase' = "skills"
  /\ todo' = Owned(job.skills, 0)
  /\ UNCHANGED <<job, input, placed, sources, profiles, skills, mounts, callVars, disturbed>>

SkillTarget(spec) ==
  IF spec.at # None THEN spec.at
  ELSE IF Single(spec) THEN <<"skills", spec.name>> ELSE <<"skills">>
SkillFits(spec) ==
  LET target == SkillTarget(spec)
  IN ~ Unusable(spec) /\ ~ FileAbove(target, input) /\ ~ IsFile(target, input)
SourceOf(spec) == IF Single(spec) THEN Front(SkillTarget(spec)) ELSE SkillTarget(spec)

\* Mutant: a target that exists is not removed first.
Beside(target) == input

(* shutil.rmtree(destination)                                                *)
Without(target) == input \ Within(target, input)

(* One step of stage_skill_sources, for the run or for a profile; a single   *)
(* skill at the top of /input is refused after it has been copied.           *)
StageSkill ==
  /\ phase \in {"skills", "profiles"} /\ todo # <<>>
  /\ LET spec == Head(todo).spec   owner == Head(todo).owner   target == SkillTarget(spec)
     IN IF SkillFits(spec)
        THEN /\ Place(spec, target, Without(target))
             /\ phase' = IF SourceOf(spec) = <<>> THEN "failed" ELSE phase
             /\ sources' = [sources EXCEPT ![owner] = Append(@, SourceOf(spec))]
        ELSE phase' = "failed" /\ UNCHANGED <<input, placed, todo, sources>>
  /\ UNCHANGED <<job, profiles, skills, mounts, callVars, disturbed>>

(* The profiles are loaded, and their own specs are next.                    *)
LoadProfiles ==
  /\ phase = "skills" /\ todo = <<>>
  /\ IF Refused(job.profiles)
     THEN phase' = "failed" /\ UNCHANGED <<profiles, todo>>
     ELSE \E loaded \in EntriesAt(job.profiles, Exposed(job.profiles)) :
            /\ phase' = "profiles" /\ profiles' = loaded
            /\ todo' = FlattenSeq([k \in DOMAIN loaded |-> Owned(loaded[k].specs, k)])
  /\ UNCHANGED <<job, input, placed, sources, skills, mounts, callVars, disturbed>>

(* materialize_deep_agent_profiles: the paths under /input that a profile    *)
(* names itself go before those that were staged for it.                     *)
SkillSources(k) ==
  (IF profiles[k].global THEN sources[0] ELSE <<>>) \o profiles[k].virtual \o sources[k]

StartParent ==
  /\ phase = "profiles" /\ todo = <<>> /\ phase' = "running"
  /\ skills' = [k \in DOMAIN profiles |-> SkillSources(k)]
  /\ UNCHANGED <<job, todo, input, placed, sources, profiles, mounts, callVars, disturbed>>

-----------------------------------------------------------------------------
(* Calls of the profile tools *)

OwnDir(c) == profiles[profile[c]].access # "all"
DirOf(c)  == profiles[profile[c]].dir
Active    == {c \in Calls : pc[c] \notin {"idle", "over"} /\ OwnDir(c)}

(* A call changes a directory of profile_inputs, under the eyes of others.   *)
Touch(c, dir, tree) ==
  /\ mounts' = [mounts EXCEPT ![dir] = tree]
  /\ disturbed' = [d \in Calls |-> IF d # c /\ d \in Active /\ DirOf(d) = dir
                                   THEN TRUE ELSE disturbed[d]]

\* Mutant: the directory is only made when it is missing.
KeptMount(dir) == mounts[dir]

FreshMount(dir) == {}

(* profile_input_dir up to the loop over the skill sources.                  *)
Prepare(c, k) ==
  /\ phase = "running" /\ pc[c] = "idle" /\ profile' = [profile EXCEPT ![c] = k]
  /\ LET p == profiles[k]
     IN IF p.access = "all"
        THEN pc' = [pc EXCEPT ![c] = "ready"] /\ UNCHANGED <<left, mounts, disturbed>>
        ELSE /\ pc' = [pc EXCEPT ![c] = "copying"]
             /\ left' = [left EXCEPT ![c] = IF p.access = "none" THEN <<>> ELSE skills[k]]
             /\ Touch(c, p.dir, FreshMount(p.dir))
  /\ UNCHANGED runVars

(* A source that is /input itself, or has no files, is passed over.          *)
CopySkills(c) ==
  /\ pc[c] = "copying" /\ left[c] # <<>> /\ left' = [left EXCEPT ![c] = Tail(@)]
  /\ LET source == Head(left[c])
     IN Touch(c, DirOf(c), mounts[DirOf(c)] \cup
                (IF source = <<>> THEN {} ELSE Within(source, input)))
  /\ UNCHANGED <<runVars, pc, profile>>

MountReady(c) ==
  /\ pc[c] = "copying" /\ left[c] = <<>> /\ pc' = [pc EXCEPT ![c] = "ready"]
  /\ UNCHANGED <<runVars, mounts, profile, left, disturbed>>

(* The directory is gone or not empty when the call comes to it.             *)
PrepareRaises(c) ==
  /\ pc[c] = "copying" /\ disturbed[c] /\ pc' = [pc EXCEPT ![c] = "over"]
  /\ UNCHANGED <<runVars, mounts, profile, left, disturbed>>

(* The artifacts, the round or the image are looked at only now: the call is *)
(* refused, or the backend gets the directory.                               *)
Answer(c, to) ==
  /\ \/ pc[c] = "ready" /\ to \in {"over", "running"}
     \/ pc[c] = "running" /\ to = "over"
  /\ pc' = [pc EXCEPT ![c] = to]
  /\ UNCHANGED <<runVars, mounts, profile, left, disturbed>>

(* The finally block of main removes the staged input, not profile_inputs.   *)
EndRun ==
  /\ phase = "running" /\ (\A c \in Calls : pc[c] \in {"idle", "over"})
  /\ phase' = "over" /\ input' = IF job.keep THEN input ELSE {}
  /\ UNCHANGED <<job, todo, placed, sources, profiles, skills, mounts, callVars, disturbed>>

Ended == phase \in {"over", "failed"} /\ UNCHANGED vars

CallStep(c) ==
  \/ \E k \in DOMAIN profiles : Prepare(c, k)
  \/ CopySkills(c) \/ MountReady(c) \/ PrepareRaises(c)
  \/ \E to \in {"running", "over"} : Answer(c, to)

Next ==
  \/ RefuseRun \/ PrepareRun \/ StageInput \/ InputsStaged \/ StageSkill
  \/ LoadProfiles \/ StartParent \/ EndRun \/ Ended
  \/ \E c \in Calls : CallStep(c)

Spec == Init /\ [][Next]_vars

-----------------------------------------------------------------------------
(* Properties *)

Later(i) == i + 1 .. Len(placed)

(* Whatever order the specs come in, /input holds exactly the files of the   *)
(* staged specs that no later spec has staged over or above, and nothing of  *)
(* an earlier run, whether the output directory was cleared or not.          *)
StagedAsLastWritten ==
  phase \in {"inputs", "skills", "profiles", "running"} =>
    input = {f \in UNION {Files(placed[i], placed[i].at, i) : i \in DOMAIN placed} :
               \A j \in Later(f.from) : ~ IsPrefix(placed[j].at, f.path)}

(* What a profile may find under its /input.                                 *)
Granted(k) ==
  {f \in input :
     \/ profiles[k].access = "all"
     \/ /\ profiles[k].access # "none"
        /\ \E n \in DOMAIN skills[k] : skills[k][n] # <<>> /\ IsPrefix(skills[k][n], f.path)}

(* The /input of the attempt's file tools and, with the podman backend, of   *)
(* its shell.  The controller is not told of profiles: it mounts the input   *)
(* directory of the run for every command.                                   *)
Mounted(c) == IF OwnDir(c) THEN mounts[DirOf(c)] ELSE input

(* The input directory that a running attempt's backend was given holds      *)
(* exactly what its profile grants, nothing of earlier calls or runs among   *)
(* it, as long as no other call of a profile with the same directory name    *)
(* came to prepare that directory.                                           *)
MountIsGranted ==
  \A c \in Calls : pc[c] = "running" /\ ~ disturbed[c] => Mounted(c) = Granted(profile[c])
================================================================================
