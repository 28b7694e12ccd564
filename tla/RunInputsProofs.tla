---------------------------- MODULE RunInputsProofs ----------------------------
(***************************************************************************)
(* Theorems about RunInputs for any command line, any number of specs,     *)
(* profiles and calls: /input holds what was staged last at each place,    *)
(* and a call finds mounted what its profile grants.  And about            *)
(* BackendFiles, for any paths, attempts and mounts at the root: a path    *)
(* means one file.                                                         *)
(***************************************************************************)
EXTENDS RunInputs, BackendFiles, FiniteSetTheorems, SequenceTheorems, TLAPS

IsList(s) == s \in Seq(Range(s))

Dirs   == {p.dir : p \in ToSet(job.profiles)}
AtWork == {"copying", "ready", "running"}
Phases == {"start", "inputs", "skills", "profiles", "running", "over", "failed"}

LEMMA ListFacts ==
  ASSUME NEW s, IsList(s)
  PROVE  /\ Len(s) \in Nat /\ DOMAIN s = 1 .. Len(s)
         /\ \A n \in DOMAIN s : s[n] \in Range(s)
BY LenProperties DEF IsList, Range

LEMMA EmptyList == IsList(<<>>)
BY DEF IsList, Range

(* What makes a list of its entries a list.                                  *)
LEMMA ListOf ==
  ASSUME NEW n \in Nat, NEW s, DOMAIN s = 1 .. n, s = [k \in 1 .. n |-> s[k]]
  PROVE  IsList(s) /\ Len(s) = n
<1>1. s \in [1 .. n -> Range(s)]
  BY DEF Range
<1>2. s \in Seq(Range(s))
  BY <1>1
<1> QED
  BY <1>2, LenProperties DEF IsList

LEMMA Widened ==
  ASSUME NEW s, NEW S, IsList(s), Range(s) \subseteq S
  PROVE  s \in Seq(S)
<1>1. s \in [1 .. Len(s) -> S] /\ Len(s) \in Nat
  BY LenProperties, ListFacts DEF IsList
<1> QED
  BY <1>1

LEMMA Narrowed ==
  ASSUME NEW S, NEW s \in Seq(S)
  PROVE  IsList(s)
<1>1. s \in [1 .. Len(s) -> S] /\ Len(s) \in Nat
  BY LenProperties
<1> QED
  BY <1>1, ListOf

LEMMA Appended ==
  ASSUME NEW s, IsList(s), NEW e
  PROVE  /\ IsList(Append(s, e)) /\ Len(s) \in Nat /\ Len(Append(s, e)) = Len(s) + 1
         /\ DOMAIN s = 1 .. Len(s) /\ DOMAIN Append(s, e) = 1 .. Len(s) + 1
         /\ \A n \in DOMAIN s : Append(s, e)[n] = s[n]
         /\ Append(s, e)[Len(s) + 1] = e
<1> DEFINE S == Range(s) \cup {e}
<1>1. s \in Seq(S) /\ e \in S
  BY Widened
<1> HIDE DEF S
<1>2. Append(s, e) \in Seq(S) /\ Len(s) \in Nat /\ DOMAIN s = 1 .. Len(s)
  BY <1>1, AppendProperties, LenProperties
<1>3. /\ Len(Append(s, e)) = Len(s) + 1 /\ Append(s, e)[Len(s) + 1] = e
      /\ \A n \in 1 .. Len(s) : Append(s, e)[n] = s[n]
  BY <1>1, AppendProperties
<1>4. DOMAIN Append(s, e) = 1 .. Len(Append(s, e)) /\ IsList(Append(s, e))
  BY <1>2, LenProperties, Narrowed
<1> QED
  BY <1>2, <1>3, <1>4

LEMMA Joined == ASSUME NEW s, IsList(s), NEW t, IsList(t) PROVE IsList(s \o t)
<1> DEFINE S == Range(s) \cup Range(t)
<1>1. s \in Seq(S) /\ t \in Seq(S)
  BY Widened
<1> HIDE DEF S
<1> QED
  BY <1>1, ConcatProperties, Narrowed

LEMMA WithoutFirst ==
  ASSUME NEW s, IsList(s), s # <<>>
  PROVE  /\ IsList(Tail(s)) /\ Head(s) = s[1] /\ 1 \in DOMAIN s
         /\ DOMAIN s = 1 .. Len(s) /\ Len(s) \in Nat \ {0} /\ DOMAIN Tail(s) = 1 .. Len(s) - 1
         /\ \A n \in DOMAIN Tail(s) : Tail(s)[n] = s[n + 1] /\ n + 1 \in DOMAIN s
<1> DEFINE S == Range(s)
<1>1. s \in Seq(S)
  BY DEF IsList
<1> HIDE DEF S
<1>2. Len(s) \in Nat \ {0} /\ DOMAIN s = 1 .. Len(s)
  BY <1>1, EmptySeq, LenProperties
<1>3. Tail(s) \in Seq(S) /\ Head(s) = s[1] /\ Len(Tail(s)) = Len(s) - 1
      /\ \A n \in 1 .. Len(s) - 1 : Tail(s)[n] = s[n + 1]
  BY <1>1, HeadTailProperties
<1>4. IsList(Tail(s)) /\ DOMAIN Tail(s) = 1 .. Len(s) - 1
  BY <1>3, Narrowed, LenProperties
<1> QED
  BY <1>2, <1>3, <1>4

(* The entries at some positions of a list.                                  *)
LEMMA SomeEntries ==
  ASSUME NEW list, IsList(list), NEW P \in SUBSET DOMAIN list, NEW picked \in EntriesAt(list, P)
  PROVE  /\ IsList(picked) /\ Len(picked) <= Len(list)
         /\ \A n \in DOMAIN picked : \E k \in P : picked[n] = list[k]
<1>1. DOMAIN list = 1 .. Len(list) /\ Len(list) \in Nat
  BY ListFacts
<1>2. /\ IsFiniteSet(P) /\ Cardinality(P) \in Nat /\ Cardinality(P) <= Len(list)
  <2>1. IsFiniteSet(1 .. Len(list)) /\ Cardinality(1 .. Len(list)) = Len(list)
    BY <1>1, FS_Interval
  <2>2. IsFiniteSet(P) /\ Cardinality(P) <= Cardinality(1 .. Len(list))
    BY <1>1, <2>1, FS_Subset
  <2> QED
    BY <2>1, <2>2, FS_CardinalityType
<1>3. PICK pick \in [1 .. Cardinality(P) -> P] : picked = [n \in DOMAIN pick |-> list[pick[n]]]
  BY DEF EntriesAt
<1>4. DOMAIN picked = 1 .. Cardinality(P) /\ \A n \in DOMAIN picked : picked[n] = list[pick[n]]
  BY <1>3
<1>5. IsList(picked) /\ Len(picked) = Cardinality(P)
  BY <1>2, <1>3, <1>4, ListOf
<1> QED
  BY <1>2, <1>3, <1>4, <1>5
-----------------------------------------------------------------------------
(* The invariant *)

(* Only lists are needed of what has no fixed type.                          *)
TypeOK ==
  /\ job \in Jobs /\ phase \in Phases
  /\ IsList(placed)
  /\ sources = [o \in 0 .. Len(job.profiles) |-> sources[o]]
  /\ \A o \in 0 .. Len(job.profiles) : IsList(sources[o])
  /\ IsList(profiles) /\ Len(profiles) <= Len(job.profiles)
  /\ \A k \in DOMAIN profiles : profiles[k] \in ToSet(job.profiles)
  /\ mounts = [d \in Dirs |-> mounts[d]]
  /\ pc \in [Calls -> AtWork \cup {"idle", "over"}]
  /\ profile = [c \in Calls |-> profile[c]] /\ left = [c \in Calls |-> left[c]]
  /\ disturbed \in [Calls -> BOOLEAN]

(* Calls run while the parent does, on a profile that is loaded and skill    *)
(* sources that are prepared.                                                *)
Prepared ==
  phase \in {"running", "over"} =>
    DOMAIN skills = DOMAIN profiles /\ \A k \in DOMAIN skills : IsList(skills[k])
Working(c) ==
  pc[c] \in AtWork =>
    /\ phase = "running" /\ profile[c] \in DOMAIN profiles
    /\ pc[c] = "copying" => IsList(left[c]) /\ OwnDir(c)

(* What is staged so far, each place by its last spec.                       *)
LastWritten ==
  {f \in UNION {Files(placed[i], placed[i].at, i) : i \in DOMAIN placed} :
     \A j \in Later(f.from) : ~ IsPrefix(placed[j].at, f.path)}
Staged ==
  /\ phase = "start" => placed = <<>>
  /\ phase \in {"inputs", "skills", "profiles", "running"} => input = LastWritten

(* What has been copied and what is still to be copied is what is granted.   *)
FromSources(list) ==
  {f \in input : \E n \in DOMAIN list : list[n] # <<>> /\ IsPrefix(list[n], f.path)}
Copied(c) ==
  pc[c] \in AtWork /\ OwnDir(c) /\ ~ disturbed[c] =>
    IF pc[c] = "copying"
    THEN mounts[DirOf(c)] \cup FromSources(left[c]) = Granted(profile[c])
    ELSE mounts[DirOf(c)] = Granted(profile[c])

InputsInv ==
  TypeOK /\ Prepared /\ Staged /\ \A c \in Calls : Working(c) /\ Copied(c)

LEMMA InputsInvInit == Init => InputsInv
<1> SUFFICES ASSUME Init PROVE InputsInv
  OBVIOUS
<1>1. TypeOK
  BY EmptyList, ListFacts, JobAssumption DEF Init, TypeOK, IsList, Dirs, Phases
<1> QED
  BY <1>1 DEF Init, InputsInv, Prepared, Staged, Working, Copied, AtWork

(* One spec is staged: it takes the place of what was there before.          *)
LEMMA PlaceStep ==
  ASSUME IsList(placed), input = LastWritten, NEW spec, NEW target,
         Place(spec, target, input \ Within(target, input))
  PROVE  IsList(placed') /\ input' = LastWritten'
<1> DEFINE n == Len(placed) + 1
<1>1. /\ placed' = Append(placed, [at |-> target, files |-> spec.files])
      /\ input' = (input \ Within(target, input)) \cup Files(spec, target, n)
  BY DEF Place
<1>2. /\ IsList(placed') /\ Len(placed) \in Nat /\ Len(placed') = n
      /\ DOMAIN placed = 1 .. Len(placed) /\ DOMAIN placed' = 1 .. n
      /\ \A i \in DOMAIN placed : placed'[i] = placed[i]
      /\ placed'[n] = [at |-> target, files |-> spec.files]
  BY <1>1, Appended
<1>3. placed'[n].at = target /\ Files(placed'[n], placed'[n].at, n) = Files(spec, target, n)
  BY <1>2 DEF Files
<1>4. \A i, tree, at : \A f \in Files(tree, at, i) : f.from = i
  BY DEF Files
<1>5. ASSUME NEW f, NEW i \in DOMAIN placed, f \in Files(placed[i], placed[i].at, i)
      PROVE  (\A j \in Later(f.from)' : ~ IsPrefix(placed'[j].at, f.path))
             <=> /\ \A j \in Later(f.from) : ~ IsPrefix(placed[j].at, f.path)
                 /\ ~ IsPrefix(target, f.path)
  <2>1. f.from = i
    BY <1>4, <1>5
  <2>2. Later(f.from)' = Later(f.from) \cup {n} /\ Later(f.from) \subseteq DOMAIN placed
    BY <1>2, <2>1 DEF Later
  <2>3. \A j \in Later(f.from) : placed'[j] = placed[j]
    BY <1>2, <2>2
  <2> QED
    BY <1>3, <2>2, <2>3
<1>6. ASSUME NEW f \in Files(spec, target, n)
      PROVE  \A j \in Later(f.from)' : ~ IsPrefix(placed'[j].at, f.path)
  <2>1. Later(f.from)' = {}
    BY <1>2, <1>4 DEF Later
  <2> QED
    BY <2>1
<1>7. ASSUME NEW f PROVE f \in input' <=> f \in LastWritten'
  <2>1. f \in UNION {Files(placed'[i], placed'[i].at, i) : i \in DOMAIN placed'}
        <=> \/ \E i \in DOMAIN placed : f \in Files(placed[i], placed[i].at, i)
            \/ f \in Files(spec, target, n)
    <3>1. DOMAIN placed' = DOMAIN placed \cup {n}
      BY <1>2
    <3> QED
      BY <1>2, <1>3, <3>1
  <2>2. f \in LastWritten' <=>
          /\ f \in UNION {Files(placed'[i], placed'[i].at, i) : i \in DOMAIN placed'}
          /\ \A j \in Later(f.from)' : ~ IsPrefix(placed'[j].at, f.path)
    BY DEF LastWritten
  <2>3. f \in input' <=>
          \/ /\ \E i \in DOMAIN placed : f \in Files(placed[i], placed[i].at, i)
             /\ \A j \in Later(f.from) : ~ IsPrefix(placed[j].at, f.path)
             /\ ~ IsPrefix(target, f.path)
          \/ f \in Files(spec, target, n)
    BY <1>1 DEF LastWritten, Within
  <2> QED
    BY <1>5, <1>6, <2>1, <2>2, <2>3
<1> QED
  BY <1>2, <1>7
-----------------------------------------------------------------------------
(* Steps of the run *)

StagingStep ==
  RefuseRun \/ PrepareRun \/ StageInput \/ InputsStaged \/ StageSkill \/ LoadProfiles

LEMMA LoadedProfiles ==
  ASSUME TypeOK, NEW loaded \in EntriesAt(job.profiles, Exposed(job.profiles))
  PROVE  /\ IsList(loaded) /\ Len(loaded) <= Len(job.profiles)
         /\ \A k \in DOMAIN loaded : loaded[k] \in ToSet(job.profiles)
<1>1. IsList(job.profiles)
  BY JobAssumption DEF TypeOK, IsList
<1>2. Exposed(job.profiles) \in SUBSET DOMAIN job.profiles
  BY DEF Exposed
<1>3. /\ IsList(loaded) /\ Len(loaded) <= Len(job.profiles)
      /\ \A n \in DOMAIN loaded : \E k \in DOMAIN job.profiles : loaded[n] = job.profiles[k]
  BY <1>1, <1>2, SomeEntries
<1> QED
  BY <1>3 DEF ToSet

LEMMA StagingTypes == ASSUME TypeOK, Staged, StagingStep PROVE TypeOK'
<1>1. CASE RefuseRun \/ InputsStaged
  BY <1>1 DEF RefuseRun, InputsStaged, TypeOK, Phases, callVars, Dirs
<1>2. CASE PrepareRun
  <2>1. mounts' = [d \in Dirs |-> mounts'[d]]
    BY <1>2 DEF PrepareRun, TypeOK
  <2> QED
    BY <1>2, <2>1 DEF PrepareRun, TypeOK, Phases, callVars, Dirs
<1>3. CASE StageInput
  <2>1. IsList(placed')
    BY <1>3, PlaceStep DEF StageInput, Staged, TypeOK
  <2>2. phase' \in {phase, "failed"}
    BY <1>3 DEF StageInput
  <2> QED
    BY <1>3, <2>1, <2>2 DEF StageInput, TypeOK, Phases, callVars, Dirs
<1>4. CASE StageSkill
  <2>1. IsList(placed')
    BY <1>4, PlaceStep DEF StageSkill, Without, Staged, TypeOK
  <2>2. phase' \in {phase, "failed"}
    BY <1>4 DEF StageSkill
  <2>3. /\ sources' = [o \in 0 .. Len(job.profiles) |-> sources'[o]]
        /\ \A o \in 0 .. Len(job.profiles) : IsList(sources'[o])
    <3>1. CASE sources' = sources
      BY <3>1 DEF TypeOK
    <3>2. ASSUME NEW owner, NEW source,
                 sources' = [sources EXCEPT ![owner] = Append(sources[owner], source)]
          PROVE  /\ sources' = [o \in 0 .. Len(job.profiles) |-> sources'[o]]
                 /\ \A o \in 0 .. Len(job.profiles) : IsList(sources'[o])
      <4>1. \A o \in 0 .. Len(job.profiles) : IsList(Append(sources[o], source))
        BY Appended DEF TypeOK
      <4> QED
        BY <3>2, <4>1 DEF TypeOK
    <3>3. \/ sources' = sources
          \/ sources' = [sources EXCEPT ![Head(todo).owner] =
                           Append(sources[Head(todo).owner], SourceOf(Head(todo).spec))]
      BY <1>4 DEF StageSkill
    <3> QED
      BY <3>1, <3>2, <3>3
  <2> QED
    BY <1>4, <2>1, <2>2, <2>3 DEF StageSkill, TypeOK, Phases, callVars, Dirs
<1>5. CASE LoadProfiles
  <2>1. /\ IsList(profiles') /\ Len(profiles') <= Len(job.profiles)
        /\ \A k \in DOMAIN profiles' : profiles'[k] \in ToSet(job.profiles)
    BY <1>5, LoadedProfiles DEF LoadProfiles, TypeOK
  <2>2. phase' \in {"failed", "profiles"}
    BY <1>5 DEF LoadProfiles
  <2> QED
    BY <1>5, <2>1, <2>2 DEF LoadProfiles, TypeOK, Phases, callVars, Dirs
<1> QED
  BY <1>1, <1>2, <1>3, <1>4, <1>5 DEF StagingStep

LEMMA StagingInv == ASSUME InputsInv, StagingStep PROVE InputsInv'
<1>1. TypeOK /\ Staged /\ TypeOK'
  BY StagingTypes DEF InputsInv
<1>2. phase \notin {"running", "over"} /\ phase' \notin {"running", "over"} /\ pc' = pc
  BY DEF StagingStep, RefuseRun, PrepareRun, StageInput, InputsStaged, StageSkill, LoadProfiles,
         callVars
<1>3. \A c \in Calls : pc'[c] \notin AtWork
  BY <1>2 DEF InputsInv, Working
<1>4. Staged'
  <2>1. CASE RefuseRun
    BY <2>1 DEF RefuseRun, Staged
  <2>2. CASE PrepareRun
    <3>1. placed = <<>> /\ placed' = <<>> /\ input' = {} /\ phase' # "start"
      BY <1>1, <2>2 DEF PrepareRun, Staged
    <3> QED
      BY <3>1 DEF Staged, LastWritten
  <2>3. CASE StageInput \/ StageSkill
    <3>1. input = LastWritten /\ IsList(placed) /\ phase' # "start"
      BY <1>1, <2>3 DEF StageInput, StageSkill, Staged, TypeOK
    <3>2. \/ \E spec, target : Place(spec, target, input \ Within(target, input))
          \/ UNCHANGED <<input, placed>>
      BY <2>3 DEF StageInput, StageSkill, Without
    <3>3. input' = LastWritten'
      BY <3>1, <3>2, PlaceStep DEF LastWritten, Later
    <3> QED
      BY <3>1, <3>3 DEF Staged
  <2>4. CASE InputsStaged \/ LoadProfiles
    BY <1>1, <2>4 DEF InputsStaged, LoadProfiles, Staged, LastWritten, Later
  <2> QED
    BY <2>1, <2>2, <2>3, <2>4 DEF StagingStep
<1> QED
  BY <1>1, <1>2, <1>3, <1>4 DEF InputsInv, Prepared, Working, Copied

(* The sources of a profile are a list.                                      *)
LEMMA StartInv == ASSUME InputsInv, StartParent PROVE InputsInv'
<1>1. /\ TypeOK /\ Staged /\ phase = "profiles" /\ phase' = "running" /\ pc' = pc
      /\ skills' = [k \in DOMAIN profiles |-> SkillSources(k)]
      /\ UNCHANGED <<job, todo, input, placed, sources, profiles, mounts, disturbed>>
      /\ profile' = profile /\ left' = left
  BY DEF InputsInv, StartParent, callVars
<1>2. ASSUME NEW k \in DOMAIN profiles PROVE IsList(SkillSources(k))
  <2>1. profiles[k] \in ToSet(job.profiles) /\ k \in 0 .. Len(job.profiles)
    <3>1. DOMAIN profiles = 1 .. Len(profiles) /\ Len(profiles) \in Nat
          /\ Len(job.profiles) \in Nat /\ Len(profiles) <= Len(job.profiles)
      BY <1>1, ListFacts, JobAssumption DEF TypeOK, IsList
    <3> QED
      BY <1>1, <3>1 DEF TypeOK
  <2>2. IsList(profiles[k].virtual)
    BY <1>1, <2>1, JobAssumption DEF TypeOK, ToSet, IsList
  <2>3. IsList(sources[k]) /\ IsList(sources[0])
    <3>1. 0 \in 0 .. Len(job.profiles)
      BY <1>1, ListFacts, JobAssumption DEF TypeOK, IsList
    <3> QED
      BY <1>1, <2>1, <3>1 DEF TypeOK
  <2>4. IsList(IF profiles[k].global THEN sources[0] ELSE <<>>)
    BY <2>3, EmptyList
  <2> HIDE DEF IsList
  <2> QED
    BY <2>2, <2>3, <2>4, Joined DEF SkillSources
<1>3. Prepared'
  BY <1>1, <1>2 DEF Prepared
<1>4. \A c \in Calls : pc'[c] \notin AtWork
  BY <1>1 DEF InputsInv, Working
<1>5. Staged' /\ TypeOK'
  BY <1>1 DEF Staged, LastWritten, Later, TypeOK, Phases, Dirs
<1> QED
  BY <1>1, <1>3, <1>4, <1>5 DEF InputsInv, Working, Copied

LEMMA EndInv == ASSUME InputsInv, EndRun PROVE InputsInv'
<1>1. /\ TypeOK /\ Prepared /\ phase = "running" /\ phase' = "over" /\ pc' = pc
      /\ \A c \in Calls : pc[c] \in {"idle", "over"}
      /\ UNCHANGED <<job, todo, placed, sources, profiles, skills, mounts, disturbed>>
      /\ profile' = profile /\ left' = left
  BY DEF InputsInv, EndRun, callVars
<1>2. TypeOK' /\ Prepared' /\ Staged'
  BY <1>1 DEF TypeOK, Prepared, Staged, Phases, Dirs
<1> QED
  BY <1>1, <1>2 DEF InputsInv, Working, Copied, AtWork
-----------------------------------------------------------------------------
(* Steps of the calls *)

LEMMA CallStepChanges ==
  ASSUME TypeOK, NEW d \in Calls, CallStep(d)
  PROVE  /\ UNCHANGED <<job, phase, todo, input, placed, sources, profiles, skills>>
         /\ \A c \in Calls \ {d} :
               pc'[c] = pc[c] /\ profile'[c] = profile[c] /\ left'[c] = left[c]
         /\ \/ mounts' = mounts /\ disturbed' = disturbed
            \/ \E dir, tree : Touch(d, dir, tree)
         /\ TypeOK'
<1>1. UNCHANGED <<job, phase, todo, input, placed, sources, profiles, skills>>
  BY DEF CallStep, Prepare, CopySkills, MountReady, PrepareRaises, Answer, runVars
<1>2. \/ mounts' = mounts /\ disturbed' = disturbed
      \/ \E dir, tree : Touch(d, dir, tree)
  BY DEF CallStep, Prepare, CopySkills, MountReady, PrepareRaises, Answer
<1>3. /\ pc' \in [Calls -> AtWork \cup {"idle", "over"}]
      /\ profile' = [c \in Calls |-> profile'[c]] /\ left' = [c \in Calls |-> left'[c]]
  BY DEF CallStep, Prepare, CopySkills, MountReady, PrepareRaises, Answer, TypeOK, AtWork
<1>4. \A c \in Calls \ {d} : pc'[c] = pc[c] /\ profile'[c] = profile[c] /\ left'[c] = left[c]
  BY DEF CallStep, Prepare, CopySkills, MountReady, PrepareRaises, Answer, TypeOK
<1>5. mounts' = [e \in Dirs |-> mounts'[e]] /\ disturbed' \in [Calls -> BOOLEAN]
  <2>1. ASSUME NEW dir, NEW tree, Touch(d, dir, tree)
        PROVE  mounts' = [e \in Dirs |-> mounts'[e]] /\ disturbed' \in [Calls -> BOOLEAN]
    BY <2>1 DEF Touch, TypeOK
  <2> QED
    BY <1>2, <2>1 DEF TypeOK
<1>6. TypeOK'
  BY <1>1, <1>3, <1>5 DEF TypeOK, Dirs
<1> QED
  BY <1>1, <1>2, <1>4, <1>6

(* A step of one call leaves another one its directory, or disturbs it.      *)
LEMMA OtherCall ==
  ASSUME InputsInv, NEW d \in Calls, CallStep(d), NEW c \in Calls \ {d}
  PROVE  Working(c)' /\ Copied(c)'
<1>1. /\ TypeOK /\ Working(c) /\ Copied(c)
      /\ UNCHANGED <<job, phase, input, profiles, skills>>
      /\ pc'[c] = pc[c] /\ profile'[c] = profile[c] /\ left'[c] = left[c]
  BY CallStepChanges DEF InputsInv
<1>2. Working(c)'
  BY <1>1 DEF Working, OwnDir
<1>3. ASSUME pc[c] \in AtWork, OwnDir(c), ~ disturbed'[c]
      PROVE  ~ disturbed[c] /\ mounts'[DirOf(c)] = mounts[DirOf(c)]
  <2>1. CASE mounts' = mounts /\ disturbed' = disturbed
    BY <1>3, <2>1
  <2>2. ASSUME NEW dir, NEW tree, Touch(d, dir, tree)
        PROVE  ~ disturbed[c] /\ mounts'[DirOf(c)] = mounts[DirOf(c)]
    <3>1. c \in Active
      BY <1>3 DEF Active, AtWork
    <3>2. disturbed'[c] = IF c # d /\ c \in Active /\ DirOf(c) = dir THEN TRUE ELSE disturbed[c]
      BY <2>2 DEF Touch
    <3>3. DirOf(c) # dir /\ ~ disturbed[c]
      BY <1>3, <3>1, <3>2
    <3> QED
      BY <1>1, <2>2, <3>3 DEF Touch, TypeOK
  <2> QED
    BY <1>1, <2>1, <2>2, CallStepChanges
<1>4. FromSources(left[c])' = FromSources(left[c]) /\ Granted(profile[c])' = Granted(profile[c])
      /\ DirOf(c)' = DirOf(c) /\ (OwnDir(c)' <=> OwnDir(c))
  BY <1>1 DEF FromSources, Granted, DirOf, OwnDir
<1> QED
  BY <1>1, <1>2, <1>3, <1>4 DEF Copied

LEMMA PrepareStep ==
  ASSUME InputsInv, NEW c \in Calls, NEW k \in DOMAIN profiles, Prepare(c, k)
  PROVE  Working(c)' /\ Copied(c)'
<1> DEFINE p == profiles[k]
<1>1. /\ TypeOK /\ Prepared /\ phase = "running" /\ profile'[c] = k
      /\ UNCHANGED <<phase, input, profiles, skills>>
  BY DEF InputsInv, Prepare, runVars, TypeOK
<1>2. DOMAIN skills = DOMAIN profiles /\ IsList(skills[k]) /\ p.dir \in Dirs
  BY <1>1 DEF Prepared, TypeOK, Dirs
<1>3. CASE p.access = "all"
  <2>1. pc'[c] = "ready" /\ ~ OwnDir(c)'
    BY <1>1, <1>3 DEF Prepare, TypeOK, OwnDir
  <2> QED
    BY <1>1, <2>1 DEF Working, Copied
<1>4. CASE p.access # "all"
  <2>1. /\ pc'[c] = "copying" /\ Touch(c, p.dir, {})
        /\ left'[c] = IF p.access = "none" THEN <<>> ELSE skills[k]
    BY <1>1, <1>4 DEF Prepare, TypeOK, FreshMount
  <2>2. OwnDir(c)' /\ DirOf(c)' = p.dir /\ mounts'[p.dir] = {}
    BY <1>1, <1>2, <1>4, <2>1 DEF OwnDir, DirOf, Touch, TypeOK
  <2>3. FromSources(left[c])' = Granted(profile[c])'
    BY <1>1, <1>4, <2>1 DEF FromSources, Granted
  <2>4. IsList(left'[c])
    BY <1>2, <2>1, EmptyList
  <2> QED
    BY <1>1, <2>1, <2>2, <2>3, <2>4 DEF Working, Copied
<1> QED
  BY <1>3, <1>4

LEMMA CopyStep ==
  ASSUME InputsInv, NEW c \in Calls, CopySkills(c)
  PROVE  Working(c)' /\ Copied(c)'
<1> DEFINE source == Head(left[c])  dir == DirOf(c)
           files == IF source = <<>> THEN {} ELSE Within(source, input)
<1>1. /\ TypeOK /\ Working(c) /\ Copied(c) /\ pc[c] = "copying" /\ left[c] # <<>>
      /\ UNCHANGED <<phase, input, profiles, skills>> /\ pc' = pc /\ profile' = profile
      /\ left'[c] = Tail(left[c]) /\ Touch(c, dir, mounts[dir] \cup files)
  BY DEF InputsInv, CopySkills, runVars, TypeOK
<1>2. /\ phase = "running" /\ profile[c] \in DOMAIN profiles /\ IsList(left[c]) /\ OwnDir(c)
  BY <1>1 DEF Working, AtWork
<1>3. dir \in Dirs
  BY <1>1, <1>2 DEF DirOf, TypeOK, Dirs
<1>4. /\ IsList(Tail(left[c])) /\ source = left[c][1] /\ 1 \in DOMAIN left[c]
      /\ DOMAIN left[c] = 1 .. Len(left[c]) /\ Len(left[c]) \in Nat \ {0}
      /\ DOMAIN Tail(left[c]) = 1 .. Len(left[c]) - 1
      /\ \A n \in DOMAIN Tail(left[c]) : /\ Tail(left[c])[n] = left[c][n + 1]
                                         /\ n + 1 \in DOMAIN left[c]
  BY <1>1, <1>2, WithoutFirst
<1>5. FromSources(left[c]) = files \cup FromSources(Tail(left[c]))
  <2>1. ASSUME NEW f \in input, NEW n \in DOMAIN left[c], left[c][n] # <<>>,
               IsPrefix(left[c][n], f.path)
        PROVE  f \in files \cup FromSources(Tail(left[c]))
    <3>1. CASE n = 1
      BY <1>4, <2>1, <3>1 DEF Within
    <3>2. CASE n # 1
      <4>1. n - 1 \in DOMAIN Tail(left[c]) /\ (n - 1) + 1 = n
        BY <1>4, <3>2
      <4>2. Tail(left[c])[n - 1] = left[c][n]
        BY <1>4, <4>1
      <4> QED
        BY <2>1, <4>1, <4>2 DEF FromSources
    <3> QED
      BY <3>1, <3>2
  <2>2. FromSources(left[c]) \subseteq files \cup FromSources(Tail(left[c]))
    BY <2>1 DEF FromSources
  <2>3. files \subseteq FromSources(left[c])
    BY <1>4 DEF Within, FromSources
  <2>4. FromSources(Tail(left[c])) \subseteq FromSources(left[c])
    BY <1>4 DEF FromSources
  <2> QED
    BY <2>2, <2>3, <2>4
<1>6. /\ mounts'[dir] = mounts[dir] \cup files /\ disturbed'[c] = disturbed[c]
  BY <1>1, <1>3 DEF Touch, TypeOK
<1>7. /\ FromSources(left[c])' = FromSources(Tail(left[c]))
      /\ Granted(profile[c])' = Granted(profile[c])
      /\ DirOf(c)' = dir /\ (OwnDir(c)' <=> OwnDir(c))
  BY <1>1 DEF FromSources, Granted, DirOf, OwnDir
<1>8. Working(c)'
  BY <1>1, <1>2, <1>4, <1>7 DEF Working
<1>9. Copied(c)'
  <2> HIDE DEF dir, files
  <2>1. ~ disturbed[c] => mounts[dir] \cup FromSources(left[c]) = Granted(profile[c])
    BY <1>1, <1>2 DEF Copied, AtWork, dir
  <2> QED
    BY <1>1, <1>5, <1>6, <1>7, <2>1 DEF Copied
<1> QED
  BY <1>8, <1>9

LEMMA LaterStep ==
  ASSUME InputsInv, NEW c \in Calls,
         MountReady(c) \/ PrepareRaises(c) \/ \E to \in {"running", "over"} : Answer(c, to)
  PROVE  Working(c)' /\ Copied(c)'
<1>1. /\ TypeOK /\ Working(c) /\ Copied(c)
      /\ UNCHANGED <<phase, input, profiles, skills, mounts, disturbed, profile, left>>
      /\ pc'[c] \in {"ready", "running", "over"}
      /\ pc'[c] # "over" =>
           pc[c] \in AtWork /\ (pc[c] = "copying" => left[c] = <<>>)
  BY DEF InputsInv, MountReady, PrepareRaises, Answer, runVars, TypeOK, AtWork
<1>2. /\ Granted(profile[c])' = Granted(profile[c]) /\ DirOf(c)' = DirOf(c)
      /\ (OwnDir(c)' <=> OwnDir(c)) /\ FromSources(<<>>) = {}
  BY <1>1 DEF FromSources, Granted, DirOf, OwnDir
<1>3. Working(c)'
  BY <1>1 DEF Working, AtWork
<1>4. Copied(c)'
  BY <1>1, <1>2 DEF Copied, AtWork
<1> QED
  BY <1>3, <1>4

LEMMA CallInv == ASSUME InputsInv, NEW d \in Calls, CallStep(d) PROVE InputsInv'
<1>1. /\ UNCHANGED <<phase, input, placed, profiles, skills>> /\ TypeOK'
      /\ TypeOK /\ Prepared /\ Staged
  BY CallStepChanges DEF InputsInv
<1>2. Prepared' /\ Staged'
  BY <1>1 DEF Prepared, Staged, LastWritten, Later
<1>3. Working(d)' /\ Copied(d)'
  BY PrepareStep, CopyStep, LaterStep DEF CallStep
<1> QED
  BY <1>1, <1>2, <1>3, OtherCall DEF InputsInv

-----------------------------------------------------------------------------
(* Theorems *)

LEMMA InputsInvStep == ASSUME InputsInv, [Next]_vars PROVE InputsInv'
<1>1. CASE StagingStep
  BY <1>1, StagingInv
<1>2. CASE StartParent \/ EndRun
  BY <1>2, StartInv, EndInv
<1>3. CASE \E c \in Calls : CallStep(c)
  BY <1>3, CallInv
<1>4. CASE Ended \/ UNCHANGED vars
  <2>1. UNCHANGED <<runVars, mounts, callVars, disturbed>>
    BY <1>4 DEF Ended, vars
  <2>2. TypeOK'
    BY <2>1 DEF runVars, callVars, InputsInv, TypeOK, Dirs
  <2>3. Prepared' /\ Staged'
    BY <2>1 DEF runVars, callVars, InputsInv, Prepared, Staged, LastWritten, Later
  <2>4. \A c \in Calls : Working(c)' /\ Copied(c)'
    BY <2>1 DEF runVars, callVars, InputsInv, Working, Copied, OwnDir, DirOf, Granted, FromSources
  <2> QED
    BY <2>2, <2>3, <2>4 DEF InputsInv
<1> QED
  BY <1>1, <1>2, <1>3, <1>4 DEF Next, StagingStep

(* For any command line, in whatever order specs come and whatever an        *)
(* earlier run has left, /input holds the files of each spec that no later   *)
(* one was staged over or above, and nothing else.                           *)
THEOREM InputsAreAsLastWritten == Spec => []StagedAsLastWritten
<1>1. InputsInv /\ [Next]_vars => InputsInv'
  BY InputsInvStep
<1>2. InputsInv => StagedAsLastWritten
  BY DEF InputsInv, Staged, LastWritten, StagedAsLastWritten
<1> QED
  BY <1>1, <1>2, InputsInvInit, PTL DEF Spec

(* For any profiles and any number of calls, however they interleave, the    *)
(* input directory of a running attempt is what its profile grants, unless   *)
(* another call came to prepare a directory of that name.                    *)
THEOREM MountsAreGranted == Spec => []MountIsGranted
<1>1. InputsInv /\ [Next]_vars => InputsInv'
  BY InputsInvStep
<1>2. InputsInv => MountIsGranted
  <2> SUFFICES ASSUME InputsInv, NEW c \in Calls, pc[c] = "running", ~ disturbed[c]
               PROVE  Mounted(c) = Granted(profile[c])
    BY DEF MountIsGranted
  <2>1. CASE OwnDir(c)
    BY <2>1 DEF InputsInv, Copied, Mounted, AtWork
  <2>2. CASE ~ OwnDir(c)
    BY <2>2 DEF Mounted, OwnDir, Granted
  <2> QED
    BY <2>1, <2>2
<1> QED
  BY <1>1, <1>2, InputsInvInit, PTL DEF Spec
-----------------------------------------------------------------------------
(* What a path names *)

LEMMA PrefixIs ==
  ASSUME NEW S, NEW s \in Seq(S), NEW r \in Seq(S)
  PROVE  IsPrefix(s, r) <=> Len(s) <= Len(r) /\ \A i \in 1 .. Len(s) : s[i] = r[i]
<1>1. Len(s) \in Nat /\ Len(r) \in Nat /\ SubSeq(s, 1, Len(s)) = s
  BY LenProperties, SubSeqFull
<1>2. ASSUME Len(s) <= Len(r)
      PROVE  SubSeq(r, 1, Len(s)) = s <=> \A i \in 1 .. Len(s) : s[i] = r[i]
  <2>1. \A i \in 1 .. Len(s) : r[i] \in S
    BY <1>1, <1>2, ElementOfSeq
  <2> DEFINE part == SubSeq(r, 1, Len(s))
  <2>2. /\ part \in Seq(S) /\ Len(part) = Len(s)
        /\ \A i \in 1 .. Len(s) : part[i] = r[i]
    BY <1>1, <2>1, SubSeqProperties
  <2> HIDE DEF part
  <2>3. (\A i \in 1 .. Len(s) : s[i] = r[i]) => part = s
    BY <2>2, SeqEqual
  <2> QED
    BY <2>2, <2>3 DEF part
<1> QED
  BY <1>1, <1>2 DEF IsPrefix

(* The provers do not know of any string that it is in STRING.               *)
Names == STRING \cup {"workspace", "input", "outputs"}

LEMMA OneAbove ==
  ASSUME NEW path \in Seq(Names), NEW x \in Names
  PROVE  IsPrefix(<<x>>, path) <=> path # <<>> /\ path[1] = x
<1>1. Len(path) \in Nat /\ (path # <<>> <=> Len(path) >= 1)
  BY EmptySeq, LenProperties
<1>2. <<x>> \in Seq(Names) /\ Len(<<x>>) = 1 /\ <<x>>[1] = x
  OBVIOUS
<1>3. IsPrefix(<<x>>, path) <=>
        Len(<<x>>) <= Len(path) /\ \A i \in 1 .. Len(<<x>>) : <<x>>[i] = path[i]
  <2> DEFINE s == <<x>>
  <2>1. s \in Seq(Names)
    BY <1>2
  <2> HIDE DEF s
  <2>2. IsPrefix(s, path) <=> Len(s) <= Len(path) /\ \A i \in 1 .. Len(s) : s[i] = path[i]
    BY <2>1, PrefixIs
  <2> QED
    BY <2>2 DEF s
<1>4. (\A i \in 1 .. 1 : <<x>>[i] = path[i]) <=> x = path[1]
  BY <1>2
<1> QED
  BY <1>1, <1>2, <1>3, <1>4

LEMMA TwoAbove ==
  ASSUME NEW path \in Seq(Names), NEW x \in Names, NEW y \in Names
  PROVE  IsPrefix(<<x, y>>, path) <=> Len(path) >= 2 /\ path[1] = x /\ path[2] = y
<1>1. Len(path) \in Nat
  BY LenProperties
<1>2. <<x, y>> \in Seq(Names) /\ Len(<<x, y>>) = 2 /\ <<x, y>>[1] = x /\ <<x, y>>[2] = y
  OBVIOUS
<1>3. IsPrefix(<<x, y>>, path) <=>
        Len(<<x, y>>) <= Len(path) /\ \A i \in 1 .. Len(<<x, y>>) : <<x, y>>[i] = path[i]
  <2> DEFINE s == <<x, y>>
  <2>1. s \in Seq(Names)
    BY <1>2
  <2> HIDE DEF s
  <2>2. IsPrefix(s, path) <=> Len(s) <= Len(path) /\ \A i \in 1 .. Len(s) : s[i] = path[i]
    BY <2>1, PrefixIs
  <2> QED
    BY <2>2 DEF s
<1>4. (\A i \in 1 .. 2 : <<x, y>>[i] = path[i]) <=> x = path[1] /\ y = path[2]
  <2>1. \A i \in 1 .. 2 : i = 1 \/ i = 2
    OBVIOUS
  <2> QED
    BY <1>2, <2>1
<1> QED
  BY <1>1, <1>2, <1>3, <1>4

(* A name in front of a path.                                                *)
LEMMA Below ==
  ASSUME NEW q \in Seq(Names), NEW x \in Names
  PROVE  /\ <<x>> \o q \in Seq(Names) /\ Len(<<x>> \o q) = Len(q) + 1 /\ Len(q) \in Nat
         /\ (<<x>> \o q)[1] = x /\ (q # <<>> => (<<x>> \o q)[2] = q[1])
         /\ SubSeq(<<x>> \o q, 2, Len(<<x>> \o q)) = q
         /\ q # <<>> => SubSeq(<<x>> \o q, 3, Len(<<x>> \o q)) = Tail(q)
<1> DEFINE path == <<x>> \o q
<1>1. <<x>> \in Seq(Names) /\ Len(<<x>>) = 1 /\ <<x>>[1] = x /\ Len(q) \in Nat
  BY LenProperties
<1>2. /\ path \in Seq(Names) /\ Len(path) = Len(q) + 1
      /\ \A i \in 1 .. Len(q) + 1 : path[i] = IF i <= 1 THEN x ELSE q[i - 1]
  BY <1>1, ConcatProperties
<1> HIDE DEF path
<1>3. path # <<>> /\ Head(path) = x /\ Tail(path) \in Seq(Names) /\ Len(Tail(path)) = Len(q)
      /\ \A i \in 1 .. Len(q) : Tail(path)[i] = q[i]
  <2>1. path # <<>>
    BY <1>1, <1>2, EmptySeq
  <2> QED
    BY <1>1, <1>2, <2>1, HeadTailProperties
<1>4. Tail(path) = q
  BY <1>3, SeqEqual
<1>5. SubSeq(path, 2, Len(path)) = q
  BY <1>2, <1>3, <1>4, TailIsSubSeq
<1>6. q # <<>> => path[2] = q[1] /\ SubSeq(path, 3, Len(path)) = Tail(q)
  <2> SUFFICES ASSUME q # <<>> PROVE path[2] = q[1] /\ SubSeq(path, 3, Len(path)) = Tail(q)
    OBVIOUS
  <2>1. Len(q) >= 1
    BY <1>1, EmptySeq
  <2>2. Tail(SubSeq(path, 2, Len(path))) = SubSeq(path, 3, Len(path))
    BY <1>1, <1>2, <2>1, HeadTailOfSubSeq
  <2> QED
    BY <1>1, <1>2, <1>5, <2>1, <2>2
<1> QED
  BY <1>1, <1>2, <1>5, <1>6 DEF path

LEMMA Headed ==
  ASSUME NEW q \in Seq(Names), q # <<>>
  PROVE  /\ Head(q) = q[1] /\ q[1] \in Names /\ Len(q) \in Nat \ {0}
         /\ Tail(q) = SubSeq(q, 2, Len(q)) /\ <<q[1]>> \o SubSeq(q, 2, Len(q)) = q
<1>1. Len(q) \in Nat \ {0} /\ q[1] \in Names
  BY EmptySeq, ElementOfSeq
<1>2. SubSeq(q, 1, Len(q)) = q /\ SubSeq(q, 1, Len(q)) = <<q[1]>> \o SubSeq(q, 2, Len(q))
  BY <1>1, SubSeqFull, SubSeqRecursiveFirst
<1> QED
  BY <1>1, <1>2, TailIsSubSeq

(* The mount of a name at the root, and the two below podman's workspace.    *)
MountOf(a, x) ==
  CASE x = "workspace" -> Mount(<<x>>, Workspace(a), <<>>)
    [] x = "input"     -> Mount(<<x>>, IF backend = "podman" THEN InputDir(a) ELSE RunInput, <<>>)
    [] x = "outputs"   -> Mount(<<x>>, Outputs, <<>>)
    [] x \notin {"workspace", "input", "outputs"} -> Mount(<<x>>, Workspace(a), <<x>>)
MountBelow(a, y) ==
  Mount(<<"workspace", y>>, IF y = "input" THEN InputDir(a) ELSE Outputs, <<>>)

LEMMA RootNames ==
  /\ {"workspace", "input", "outputs"} \subseteq Names
  /\ \A x \in RootDirs : x \in Names /\ x \notin {".", "workspace", "input", "output", "outputs"}
<1>1. {"workspace", "input", "outputs"} \subseteq Names
  BY Zenon DEF Names
<1>2. \A x \in RootDirs : x \in STRING \ {".", "workspace", "input", "output", "outputs"}
  BY FilesAssumption, Zenon
<1>3. \A x \in RootDirs : x \in STRING
  BY <1>2, Zenon
<1> QED
  BY <1>1, <1>2, <1>3, Zenon DEF Names

LEMMA MountShapes ==
  ASSUME NEW a, NEW n \in Mounts(a)
  PROVE  \/ \E x \in Names : n = MountOf(a, x)
         \/ backend = "podman" /\ \E y \in {"input", "outputs"} : n = MountBelow(a, y)
<1>1. /\ MountOf(a, "workspace") = Mount(<<"workspace">>, Workspace(a), <<>>)
      /\ MountOf(a, "outputs") = Mount(<<"outputs">>, Outputs, <<>>)
      /\ backend = "podman" => MountOf(a, "input") = Mount(<<"input">>, InputDir(a), <<>>)
      /\ backend # "podman" => MountOf(a, "input") = Mount(<<"input">>, RunInput, <<>>)
  BY DEF MountOf
<1>2. \A x \in RootDirs : MountOf(a, x) = Mount(<<x>>, Workspace(a), <<x>>)
  BY RootNames DEF MountOf
<1>3. CASE backend = "podman"
  <2>1. n \in PodmanMounts(a)
    BY <1>3 DEF Mounts
  <2>2. \/ n \in {MountOf(a, "workspace"), MountOf(a, "input"), MountOf(a, "outputs")}
        \/ n \in {MountBelow(a, "input"), MountBelow(a, "outputs")}
        \/ \E x \in RootDirs : n = MountOf(a, x)
    BY <1>1, <1>2, <1>3, <2>1 DEF PodmanMounts, MountBelow
  <2> QED
    BY <1>3, <2>2, RootNames
<1>4. CASE backend # "podman"
  <2>1. n \in {MountOf(a, "workspace"), MountOf(a, "input"), MountOf(a, "outputs")}
    BY <1>1, <1>4 DEF Mounts, ControllerMounts
  <2> QED
    BY <2>1, RootNames
<1> QED
  BY <1>3, <1>4

LEMMA MountsExist ==
  ASSUME NEW a
  PROVE  /\ \A x \in {"workspace", "input", "outputs"} : MountOf(a, x) \in Mounts(a)
         /\ backend = "podman" =>
              /\ \A x \in RootDirs : MountOf(a, x) \in Mounts(a)
              /\ \A y \in {"input", "outputs"} : MountBelow(a, y) \in Mounts(a)
<1>1. \A x \in RootDirs : MountOf(a, x) = Mount(<<x>>, Workspace(a), <<x>>)
  BY RootNames DEF MountOf
<1>2. CASE backend = "podman"
  <2>1. Mounts(a) = PodmanMounts(a)
    BY <1>2 DEF Mounts
  <2>2. \A x \in RootDirs : MountOf(a, x) \in Mounts(a)
    BY <1>1, <2>1 DEF PodmanMounts
  <2>3. \A x \in {"workspace", "input", "outputs"} : MountOf(a, x) \in Mounts(a)
    BY <1>2, <2>1 DEF PodmanMounts, MountOf
  <2>4. \A y \in {"input", "outputs"} : MountBelow(a, y) \in Mounts(a)
    BY <2>1 DEF PodmanMounts, MountBelow
  <2> QED
    BY <2>2, <2>3, <2>4
<1>3. CASE backend # "podman"
  BY <1>3 DEF Mounts, ControllerMounts, MountOf
<1> QED
  BY <1>2, <1>3

LEMMA MountFields ==
  ASSUME NEW a, NEW x
  PROVE  /\ MountOf(a, x).at = <<x>> /\ MountBelow(a, x).at = <<"workspace", x>>
         /\ MountBelow(a, x).dir = IF x = "input" THEN InputDir(a) ELSE Outputs
         /\ MountBelow(a, x).path = <<>>
BY DEF MountOf, MountBelow, Mount

(* A command's path lies under the longest mount above it.                   *)
LEMMA ShellGoes ==
  ASSUME NEW a, NEW p, NEW path, path = Absolute(From(p) \o p.segments),
         NEW m \in Mounts(a), IsPrefix(m.at, path), Len(m.at) \in Nat,
         \A n \in Mounts(a) : IsPrefix(n.at, path) =>
           n = m \/ (Len(n.at) \in Nat /\ Len(n.at) < Len(m.at))
  PROVE  ShellPlace(a, p) = Location(m.dir, m.path \o SubSeq(path, Len(m.at) + 1, Len(path)))
<1> DEFINE above == Above(Mounts(a), path)
           longest(k) == \A n \in above : Len(n.at) <= Len(k.at)
           mount == CHOOSE k \in above : longest(k)
<1>1. m \in above /\ \A n \in above : n = m \/ (Len(n.at) \in Nat /\ Len(n.at) < Len(m.at))
  BY DEF Above
<1>2. longest(m)
  BY <1>1
<1>3. mount \in above /\ longest(mount)
  BY <1>1, <1>2, Zenon
<1>4. mount = m
  <2> HIDE DEF mount, above
  <2>1. Len(m.at) <= Len(mount.at)
    BY <1>1, <1>3
  <2> QED
    BY <1>1, <1>3, <2>1
<1> QED
  BY <1>1, <1>4 DEF ShellPlace

LEMMA ShellAtRoot ==
  ASSUME NEW a, NEW p, NEW path \in Seq(Names), path = Absolute(From(p) \o p.segments),
         path # <<>>, MountOf(a, path[1]) \in Mounts(a),
         backend = "podman" =>
           ~ (path[1] = "workspace" /\ Len(path) >= 2 /\ path[2] \in {"input", "outputs"})
  PROVE  ShellPlace(a, p) = Location(MountOf(a, path[1]).dir,
                                     MountOf(a, path[1]).path \o SubSeq(path, 2, Len(path)))
<1> DEFINE m == MountOf(a, path[1])
<1>1. path[1] \in Names
  BY Headed
<1>2. m.at = <<path[1]>> /\ Len(m.at) = 1
  <2>1. m.at = <<path[1]>>
    BY MountFields, Zenon
  <2>2. Len(<<path[1]>>) = 1
    OBVIOUS
  <2> QED
    BY <2>1, <2>2, Zenon
<1>3. IsPrefix(m.at, path)
  BY <1>1, <1>2, OneAbove
<1>4. ASSUME NEW n \in Mounts(a), IsPrefix(n.at, path) PROVE n = m
  <2>1. CASE \E x \in Names : n = MountOf(a, x)
    <3>1. PICK x \in Names : n = MountOf(a, x)
      BY <2>1
    <3>2. IsPrefix(<<x>>, path)
      BY <1>4, <3>1, MountFields
    <3>3. path[1] = x
      BY <3>2, OneAbove
    <3> QED
      BY <3>1, <3>3
  <2>2. CASE backend = "podman" /\ \E y \in {"input", "outputs"} : n = MountBelow(a, y)
    <3>1. PICK y \in {"input", "outputs"} : n = MountBelow(a, y)
      BY <2>2
    <3>2. IsPrefix(<<"workspace", y>>, path) /\ "workspace" \in Names /\ y \in Names
      BY <1>4, <3>1, MountFields, RootNames
    <3>3. Len(path) >= 2 /\ path[1] = "workspace" /\ path[2] = y
      BY <3>2, TwoAbove
    <3> QED
      BY <2>2, <3>3
  <2> QED
    BY <2>1, <2>2, MountShapes
<1> HIDE DEF m
<1>5. ShellPlace(a, p) = Location(m.dir, m.path \o SubSeq(path, Len(m.at) + 1, Len(path)))
  <2>1. m \in Mounts(a)
    BY DEF m
  <2> QED
    BY <1>2, <1>3, <1>4, <2>1, ShellGoes
<1>6. Len(m.at) + 1 = 2
  BY <1>2
<1> QED
  BY <1>5, <1>6 DEF m

LEMMA ShellBelowWorkspace ==
  ASSUME NEW a, NEW p, NEW path \in Seq(Names), path = Absolute(From(p) \o p.segments),
         backend = "podman", path[1] = "workspace", Len(path) >= 2,
         path[2] \in {"input", "outputs"}
  PROVE  ShellPlace(a, p) = Location(MountBelow(a, path[2]).dir,
                                     <<>> \o SubSeq(path, 3, Len(path)))
<1> DEFINE m == MountBelow(a, path[2])
<1>1. "workspace" \in Names /\ path[2] \in Names
  BY RootNames
<1>2. m.at = <<"workspace", path[2]>> /\ m.path = <<>> /\ Len(m.at) = 2
  <2>1. m.at = <<"workspace", path[2]>> /\ m.path = <<>>
    BY MountFields, Zenon
  <2>2. Len(<<"workspace", path[2]>>) = 2
    OBVIOUS
  <2> QED
    BY <2>1, <2>2, Zenon
<1>3. IsPrefix(m.at, path)
  BY <1>1, <1>2, TwoAbove
<1>4. ASSUME NEW n \in Mounts(a), IsPrefix(n.at, path) PROVE n = m \/ Len(n.at) = 1
  <2>1. CASE \E x \in Names : n = MountOf(a, x)
    <3>1. PICK x \in Names : n = MountOf(a, x)
      BY <2>1
    <3>2. n.at = <<x>> /\ Len(<<x>>) = 1
      BY <3>1, MountFields
    <3> QED
      BY <3>2
  <2>2. CASE \E y \in {"input", "outputs"} : n = MountBelow(a, y)
    <3>1. PICK y \in {"input", "outputs"} : n = MountBelow(a, y)
      BY <2>2
    <3>2. IsPrefix(<<"workspace", y>>, path) /\ y \in Names
      BY <1>4, <3>1, MountFields, RootNames
    <3>3. path[2] = y
      BY <1>1, <3>2, TwoAbove
    <3> QED
      BY <3>1, <3>3
  <2> QED
    BY <2>1, <2>2, MountShapes
<1>5. m \in Mounts(a)
  BY MountsExist
<1> HIDE DEF m
<1>6. ShellPlace(a, p) = Location(m.dir, m.path \o SubSeq(path, Len(m.at) + 1, Len(path)))
  <2>1. \A n \in Mounts(a) : IsPrefix(n.at, path) =>
          n = m \/ (Len(n.at) \in Nat /\ Len(n.at) < Len(m.at))
    <3> SUFFICES ASSUME NEW n \in Mounts(a), IsPrefix(n.at, path), n # m
                 PROVE  Len(n.at) \in Nat /\ Len(n.at) < Len(m.at)
      BY Zenon
    <3>1. Len(n.at) = 1
      BY <1>4, Zenon
    <3> QED
      BY <1>2, <3>1
  <2> QED
    BY <1>2, <1>3, <1>5, <2>1, ShellGoes
<1>7. Len(m.at) + 1 = 3
  BY <1>2
<1> QED
  BY <1>2, <1>6, <1>7 DEF m

LEMMA ToolGoes ==
  ASSUME NEW a, NEW p, NEW q, q = SandboxPath(p)
  PROVE  /\ q = <<>> => ToolPlace(a, p) = Location(Workspace(a), q) /\ Root(p) = "."
         /\ q # <<>> =>
              /\ Root(p) = Head(q)
              /\ Head(q) = "workspace" => ToolPlace(a, p) = Location(Workspace(a), Tail(q))
              /\ Head(q) = "input" => ToolPlace(a, p) = Location(InputDir(a), Tail(q))
              /\ Head(q) = "outputs" => ToolPlace(a, p) = Location(Outputs, Tail(q))
              /\ Head(q) \notin {"workspace", "input", "outputs", "output"} =>
                   ToolPlace(a, p) = Location(Workspace(a), q)
BY DEF ToolPlace, Root

LEMMA AbsolutePlace ==
  ASSUME NEW a, NEW p, NEW q \in Seq(Names), q = SandboxPath(p), p.absolute,
         Absolute(From(p) \o p.segments) = From(p) \o q,
         Common(a, p), backend = "podman" \/ OfTheRun(a, p)
  PROVE  ToolPlace(a, p) = ShellPlace(a, p)
<1>1. Absolute(From(p) \o p.segments) = q
  BY ConcatEmptySeq DEF From
<1>2. \/ /\ Root(p) \in {"workspace", "input", "outputs"}
         /\ ~ (backend = "podman" /\ Shadowed(p))
      \/ Root(p) \in RootDirs /\ backend = "podman"
  BY DEF Common
<1>3. q # <<>> /\ Root(p) = q[1]
  BY <1>2, ToolGoes, RootNames, Headed
<1>4. /\ Head(q) = q[1] /\ Tail(q) = SubSeq(q, 2, Len(q)) /\ <<q[1]>> \o SubSeq(q, 2, Len(q)) = q
      /\ Len(q) \in Nat /\ <<>> \o Tail(q) = Tail(q)
  <2>1. Tail(q) \in Seq(Names)
    BY <1>3, HeadTailProperties
  <2> QED
    BY <1>3, <2>1, Headed, ConcatEmptySeq
<1>5. MountOf(a, q[1]) \in Mounts(a)
  BY <1>2, <1>3, MountsExist
<1>6. backend = "podman" =>
        ~ (q[1] = "workspace" /\ Len(q) >= 2 /\ q[2] \in {"input", "outputs"})
  <2>1. ASSUME backend = "podman", q[1] = "workspace", Len(q) >= 2, q[2] \in {"input", "outputs"}
        PROVE  FALSE
    <3>1. Shadowed(p)
      BY <1>3, <1>4, <2>1 DEF Shadowed
    <3> QED
      BY <1>2, <1>3, <2>1, <3>1, RootNames
  <2> QED
    BY <2>1
<1>7. ShellPlace(a, p) = Location(MountOf(a, q[1]).dir,
                                  MountOf(a, q[1]).path \o SubSeq(q, 2, Len(q)))
  BY <1>1, <1>3, <1>5, <1>6, ShellAtRoot
<1>8. CASE q[1] \in {"workspace", "input", "outputs"}
  <2>1. MountOf(a, q[1]).path = <<>>
    BY <1>8 DEF MountOf, Mount
  <2>2. ShellPlace(a, p) = Location(MountOf(a, q[1]).dir, Tail(q))
    BY <1>4, <1>7, <2>1
  <2>3. q[1] = "input" /\ backend # "podman" => RunInput = InputDir(a)
    BY <1>3 DEF OfTheRun, RunInput, InputDir
  <2>4. /\ q[1] = "workspace" => MountOf(a, q[1]).dir = Workspace(a)
        /\ q[1] = "input" => MountOf(a, q[1]).dir = InputDir(a)
        /\ q[1] = "outputs" => MountOf(a, q[1]).dir = Outputs
    BY <2>3 DEF MountOf, Mount
  <2>5. /\ q[1] = "workspace" => ToolPlace(a, p) = Location(Workspace(a), Tail(q))
        /\ q[1] = "input" => ToolPlace(a, p) = Location(InputDir(a), Tail(q))
        /\ q[1] = "outputs" => ToolPlace(a, p) = Location(Outputs, Tail(q))
    BY <1>3, <1>4, ToolGoes
  <2> QED
    BY <1>8, <2>2, <2>4, <2>5
<1>9. CASE q[1] \in RootDirs
  <2>1. MountOf(a, q[1]).path = <<q[1]>> /\ MountOf(a, q[1]).dir = Workspace(a)
    BY <1>9, RootNames DEF MountOf, Mount
  <2>2. ShellPlace(a, p) = Location(Workspace(a), q)
    BY <1>4, <1>7, <2>1
  <2>3. q[1] \notin {"workspace", "input", "outputs", "output"}
    BY <1>9, RootNames
  <2>4. ToolPlace(a, p) = Location(Workspace(a), q)
    BY <1>3, <1>4, <2>3, ToolGoes
  <2> QED
    BY <2>2, <2>4
<1> QED
  BY <1>2, <1>3, <1>8, <1>9

LEMMA RelativePlace ==
  ASSUME NEW a, NEW p, NEW q \in Seq(Names), q = SandboxPath(p), ~ p.absolute,
         Absolute(From(p) \o p.segments) = From(p) \o q, Common(a, p)
  PROVE  ToolPlace(a, p) = ShellPlace(a, p)
<1> DEFINE path == <<"workspace">> \o q
<1>1. Absolute(From(p) \o p.segments) = path
  BY DEF From
<1>2. /\ path \in Seq(Names) /\ Len(path) = Len(q) + 1 /\ Len(q) \in Nat
      /\ path[1] = "workspace" /\ (q # <<>> => path[2] = q[1])
      /\ SubSeq(path, 2, Len(path)) = q
      /\ q # <<>> => SubSeq(path, 3, Len(path)) = Tail(q)
  BY RootNames, Below
<1> HIDE DEF path
<1>3. \/ Root(p) \notin {"workspace", "output", "input", "outputs"}
      \/ Root(p) \in {"input", "outputs"} /\ backend = "podman"
  BY DEF Common
<1>4. q # <<>> => Root(p) = q[1] /\ Head(q) = q[1] /\ Len(q) >= 1
  <2> SUFFICES ASSUME q # <<>> PROVE Root(p) = q[1] /\ Head(q) = q[1] /\ Len(q) >= 1
    OBVIOUS
  <2>1. Head(q) = q[1] /\ Len(q) \in Nat \ {0}
    BY Headed
  <2>2. Root(p) = Head(q)
    BY ToolGoes
  <2>3. Len(q) >= 1
    BY <2>1
  <2> QED
    BY <2>1, <2>2, <2>3
<1>5. CASE Root(p) \notin {"workspace", "output", "input", "outputs"}
  <2>1. ~ (Len(path) >= 2 /\ path[2] \in {"input", "outputs"})
    <3>1. ASSUME Len(path) >= 2, path[2] \in {"input", "outputs"} PROVE FALSE
      <4>1. q # <<>>
        BY <1>2, <3>1, EmptySeq
      <4> QED
        BY <1>2, <1>4, <1>5, <3>1, <4>1
    <3> QED
      BY <3>1
  <2>2. MountOf(a, path[1]) = Mount(<<"workspace">>, Workspace(a), <<>>)
    BY <1>2 DEF MountOf
  <2>3. path # <<>> /\ MountOf(a, path[1]) \in Mounts(a)
    BY <1>2, EmptySeq, MountsExist
  <2>4. ShellPlace(a, p) = Location(MountOf(a, path[1]).dir,
                                    MountOf(a, path[1]).path \o SubSeq(path, 2, Len(path)))
    BY <1>1, <1>2, <2>1, <2>3, ShellAtRoot
  <2>5. ShellPlace(a, p) = Location(Workspace(a), q)
    <3>1. MountOf(a, path[1]).dir = Workspace(a) /\ MountOf(a, path[1]).path = <<>>
      BY <2>2 DEF Mount
    <3>2. <<>> \o q = q
      BY ConcatEmptySeq
    <3> QED
      BY <1>2, <2>4, <3>1, <3>2
  <2> QED
    BY <1>4, <1>5, <2>5, ToolGoes
<1>6. CASE Root(p) \in {"input", "outputs"} /\ backend = "podman"
  <2>1. q # <<>>
    BY <1>6, ToolGoes
  <2>2. path[2] = q[1] /\ Root(p) = q[1] /\ Head(q) = q[1] /\ Len(path) >= 2
    BY <1>2, <1>4, <2>1
  <2>3. ShellPlace(a, p) = Location(MountBelow(a, path[2]).dir,
                                    <<>> \o SubSeq(path, 3, Len(path)))
    BY <1>1, <1>2, <1>6, <2>2, ShellBelowWorkspace
  <2>4. Tail(q) \in Seq(Names)
    BY <2>1, HeadTailProperties
  <2>5. ShellPlace(a, p) = Location(MountBelow(a, q[1]).dir, Tail(q))
    BY <1>2, <2>1, <2>2, <2>3, <2>4, ConcatEmptySeq
  <2>6. MountBelow(a, q[1]).dir = IF q[1] = "input" THEN InputDir(a) ELSE Outputs
    BY MountFields
  <2> QED
    BY <1>6, <2>1, <2>2, <2>5, <2>6, ToolGoes
<1> QED
  BY <1>3, <1>5, <1>6

(* Of every path that the tools take and that is in common, what the tools,  *)
(* the shell and the parent find there is one file, for any attempts, inputs *)
(* of their own and directories mounted at the root, whoever writes and      *)
(* whenever backends come and go.  What the theorem takes for granted is     *)
(* that normalization and kernel agree on a path, which is a fact about two  *)
(* folds over its segments.                                                  *)
THEOREM PathsMeanOneFile == ASSUME TranslationsAgree PROVE FilesSpec => []SameFile
<1>1. ASSUME NEW a, NEW p \in Paths, ~ Refuses(p), Common(a, p),
             backend = "podman" \/ OfTheRun(a, p)
      PROVE  ToolPlace(a, p) = ShellPlace(a, p)
  <2> DEFINE q == SandboxPath(p)
  <2>1. q \in Seq(STRING) /\ Absolute(From(p) \o p.segments) = From(p) \o q
    BY <1>1 DEF TranslationsAgree
  <2>2. q \in Seq(Names)
    BY <2>1, SeqMonotonic DEF Names
  <2> QED
    BY <1>1, <2>1, <2>2, AbsolutePlace, RelativePlace
<1>2. ASSUME NEW a, NEW p \in Paths, ~ Refuses(p), ParentReads(p), OfTheRun(a, p)
      PROVE  ToolPlace(a, p) = ParentPlace(p)
  <2>1. Absolute(p.segments) = SandboxPath(p)
    BY <1>2 DEF TranslationsAgree
  <2>2. SandboxPath(p) # <<>> /\ Head(SandboxPath(p)) \in {"outputs", "input"}
    BY <1>2, <2>1 DEF ParentReads
  <2>3. Root(p) = "input" => InputDir(a) = RunInput
    BY <1>2 DEF OfTheRun, InputDir, RunInput
  <2> QED
    BY <2>1, <2>2, <2>3, ToolGoes DEF ParentPlace
<1>3. SameFile
  BY <1>1, <1>2 DEF SameFile
<1> QED
  BY <1>3, PTL DEF FilesSpec
-----------------------------------------------------------------------------
(* The files of the attempts *)

(* No file lies below another one, and at each place there is one text.      *)
FilesApart ==
  \A f, g \in disk :
    /\ f.dir = g.dir => ~ IsStrictPrefix(f.path, g.path)
    /\ Location(f.dir, f.path) = Location(g.dir, g.path) => f = g

(* With podman what lies in a scratch directory is of an attempt at work.    *)
Scratch(a) == {f \in disk : f.dir = Workspace(a)}
ScratchGoes == backend = "podman" => \A a \in Attempts : Scratch(a) # {} => a \in live

(* With podman no attempt changes what lies in the scratch directory of      *)
(* another one, by whatever path and with whatever tool.                     *)
StepsStayApart ==
  backend = "podman" =>
    \A a, b \in Attempts : FilesStep(a) /\ a # b => Scratch(b)' = Scratch(b)
ScratchIsOwn == [][StepsStayApart]_fileVars

LEMMA ScratchNames ==
  ASSUME backend = "podman", NEW a, NEW b, a # b
  PROVE  Workspace(a) # Workspace(b) /\ InputDir(a) # Workspace(b) /\ Outputs # Workspace(b)
BY DEF Workspace, InputDir, Outputs

LEMMA ToolStaysHome ==
  ASSUME backend = "podman", NEW a, NEW b, a # b, NEW p
  PROVE  ToolPlace(a, p).dir # Workspace(b)
<1>1. ToolPlace(a, p).dir \in {Workspace(a), InputDir(a), Outputs}
  <2> DEFINE path == SandboxPath(p)
  <2>1. CASE path = <<>>
    BY <2>1 DEF ToolPlace, Location
  <2>2. CASE path # <<>>
    <3>1. CASE Head(path) = "workspace"
      BY <2>2, <3>1 DEF ToolPlace, Location
    <3>2. CASE Head(path) = "input"
      BY <2>2, <3>2 DEF ToolPlace, Location
    <3>3. CASE Head(path) \in {"outputs", "output"}
      BY <2>2, <3>3 DEF ToolPlace, Location
    <3>4. CASE Head(path) \notin {"workspace", "input", "outputs", "output"}
      BY <2>2, <3>4 DEF ToolPlace, Location
    <3> QED
      BY <3>1, <3>2, <3>3, <3>4
  <2> QED
    BY <2>1, <2>2
<1> QED
  BY <1>1, ScratchNames

(* Every mount is at one name or at two, so one of those above a path is the *)
(* longest.                                                                  *)
LEMMA ShellStaysHome ==
  ASSUME backend = "podman", NEW a, NEW b, a # b, NEW p, ShellPlace(a, p) # Nowhere
  PROVE  ShellPlace(a, p).dir # Workspace(b)
<1> DEFINE path  == Absolute(From(p) \o p.segments)
           above == Above(Mounts(a), path)
           longest(k) == \A n \in above : Len(n.at) <= Len(k.at)
           mount == CHOOSE k \in above : longest(k)
<1>1. \A n \in Mounts(a) : Len(n.at) \in {1, 2} /\ n.dir # Workspace(b)
  <2> SUFFICES ASSUME NEW n \in Mounts(a) PROVE Len(n.at) \in {1, 2} /\ n.dir # Workspace(b)
    OBVIOUS
  <2>1. \A x, y : Len(<<x>>) = 1 /\ Len(<<x, y>>) = 2
    OBVIOUS
  <2>2. CASE \E x \in Names : n = MountOf(a, x)
    <3>1. PICK x \in Names : n = MountOf(a, x)
      BY <2>2
    <3>2. n.at = <<x>> /\ Len(<<x>>) = 1
      BY <2>1, <3>1, MountFields
    <3>3. n.dir \in {Workspace(a), InputDir(a), Outputs}
      BY <3>1 DEF MountOf, Mount
    <3> QED
      BY <3>2, <3>3, ScratchNames
  <2>3. CASE \E y \in {"input", "outputs"} : n = MountBelow(a, y)
    <3>1. PICK y \in {"input", "outputs"} : n = MountBelow(a, y)
      BY <2>3
    <3>2. n.at = <<"workspace", y>> /\ Len(<<"workspace", y>>) = 2
      BY <2>1, <3>1, MountFields
    <3>3. n.dir \in {InputDir(a), Outputs}
      BY <3>1, MountFields
    <3> QED
      BY <3>2, <3>3, ScratchNames
  <2> QED
    BY <2>2, <2>3, MountShapes
<1>2. above # {}
  BY DEF ShellPlace
<1>3. \A n \in above : n \in Mounts(a)
  BY DEF Above
<1> HIDE DEF above
<1>4. \E k \in above : longest(k)
  <2>1. CASE \E k \in above : Len(k.at) = 2
    BY <1>1, <1>3, <2>1
  <2>2. CASE \A k \in above : Len(k.at) = 1
    BY <1>1, <1>2, <1>3, <2>2
  <2> QED
    BY <1>1, <1>3, <2>1, <2>2
<1>5. mount \in above
  BY <1>4, Zenon
<1>6. ShellPlace(a, p).dir = mount.dir
  <2>1. ShellPlace(a, p) =
          Location(mount.dir, mount.path \o SubSeq(path, Len(mount.at) + 1, Len(path)))
    BY <1>2 DEF ShellPlace, above
  <2> HIDE DEF mount
  <2> QED
    BY <2>1 DEF Location
<1> QED
  BY <1>1, <1>3, <1>5, <1>6

(* A written file fits: nothing of its directory is above or below it.       *)
LEMMA WriteKeepsApart ==
  ASSUME FilesApart, NEW place, place = Location(place.dir, place.path), Fits(place),
         NEW text, disk' = Written(place, text)
  PROVE  FilesApart'
<1> DEFINE new == [dir |-> place.dir, path |-> place.path, text |-> text]
<1>1. \A f \in disk' : f = new \/ (f \in disk /\ f \notin At(place))
  BY DEF Written
<1>2. new.dir = place.dir /\ new.path = place.path
  OBVIOUS
<1> HIDE DEF new
<1>3. ASSUME NEW f \in disk, f \notin At(place)
      PROVE  /\ f.dir = place.dir => ~ IsStrictPrefix(f.path, place.path)
             /\ f.dir = place.dir => ~ IsStrictPrefix(place.path, f.path)
             /\ f.dir # place.dir \/ f.path # place.path
  <2>1. f.dir # place.dir \/ f.path # place.path
    <3>1. Location(f.dir, f.path) # place
      BY <1>3 DEF At
    <3> QED
      BY <3>1
  <2> QED
    BY <2>1 DEF Fits, IsDirectory, FileOnTheWay
<1>4. ~ IsStrictPrefix(place.path, place.path)
  BY DEF IsStrictPrefix
<1>5. SUFFICES ASSUME NEW f \in disk', NEW g \in disk'
               PROVE  /\ f.dir = g.dir => ~ IsStrictPrefix(f.path, g.path)
                      /\ Location(f.dir, f.path) = Location(g.dir, g.path) => f = g
  BY DEF FilesApart
<1> QED
  BY <1>1, <1>2, <1>3, <1>4 DEF FilesApart, Location

LEMMA Places ==
  ASSUME NEW a, NEW p
  PROVE  /\ ToolPlace(a, p) = Location(ToolPlace(a, p).dir, ToolPlace(a, p).path)
         /\ ShellPlace(a, p) = Location(ShellPlace(a, p).dir, ShellPlace(a, p).path)
<1>1. \A d, q, place : place = Location(d, q) => place = Location(place.dir, place.path)
  BY DEF Location
<1>2. \E d, q : ToolPlace(a, p) = Location(d, q)
  <2> DEFINE path == SandboxPath(p)
  <2>1. CASE path = <<>>
    BY <2>1 DEF ToolPlace
  <2>2. CASE path # <<>>
    <3>1. CASE Head(path) = "workspace"
      BY <2>2, <3>1 DEF ToolPlace
    <3>2. CASE Head(path) = "input"
      BY <2>2, <3>2 DEF ToolPlace
    <3>3. CASE Head(path) \in {"outputs", "output"}
      BY <2>2, <3>3 DEF ToolPlace
    <3>4. CASE Head(path) \notin {"workspace", "input", "outputs", "output"}
      BY <2>2, <3>4 DEF ToolPlace
    <3> QED
      BY <3>1, <3>2, <3>3, <3>4
  <2> QED
    BY <2>1, <2>2
<1>3. \E d, q : ShellPlace(a, p) = Location(d, q)
  BY DEF ShellPlace, Nowhere
<1> QED
  BY <1>1, <1>2, <1>3

(* What attempts write never puts a file below another one or two texts at   *)
(* one place, for any paths and whatever mounts lead there.                  *)
THEOREM FilesStayApart == FilesSpec => []FilesApart
<1>1. FilesInit => FilesApart
  BY DEF FilesInit, FilesApart
<1>2. FilesApart /\ [FilesNext]_fileVars => FilesApart'
  <2> SUFFICES ASSUME FilesApart, [FilesNext]_fileVars PROVE FilesApart'
    OBVIOUS
  <2>1. CASE UNCHANGED fileVars
    BY <2>1 DEF fileVars, FilesApart, Location
  <2>2. ASSUME NEW a \in Attempts, FilesStep(a) PROVE FilesApart'
    <3>1. CASE OpenBackend(a)
      BY <3>1 DEF OpenBackend, FilesApart, Location
    <3>2. CASE CloseBackend(a)
      <4>1. \A f \in disk' : f \in disk
        BY <3>2 DEF CloseBackend
      <4> QED
        BY <4>1 DEF FilesApart, Location
    <3>3. ASSUME NEW p \in Paths, NEW text \in Texts, UploadFile(a, p, text)
          PROVE  FilesApart'
      <4>1. Fits(ToolPlace(a, p)) /\ disk' = Written(ToolPlace(a, p), text)
        BY <3>3 DEF UploadFile
      <4> QED
        BY <4>1, Places, WriteKeepsApart
    <3>4. ASSUME NEW p \in Paths, NEW text \in Texts, ShellWrite(a, p, text)
          PROVE  FilesApart'
      <4>1. Fits(ShellPlace(a, p)) /\ disk' = Written(ShellPlace(a, p), text)
        BY <3>4 DEF ShellWrite
      <4> QED
        BY <4>1, Places, WriteKeepsApart
    <3> QED
      BY <2>2, <3>1, <3>2, <3>3, <3>4 DEF FilesStep
  <2> QED
    BY <2>1, <2>2 DEF FilesNext
<1> QED
  BY <1>1, <1>2, PTL DEF FilesSpec

(* With podman a step of one attempt leaves the scratch directories of the   *)
(* others alone, and nothing in its own is left when it is over.             *)
LEMMA ScratchStep ==
  ASSUME backend = "podman", NEW a \in Attempts, FilesStep(a)
  PROVE  /\ backend' = backend
         /\ \A b \in Attempts : b # a => Scratch(b)' = Scratch(b) /\ (b \in live' <=> b \in live)
         /\ Scratch(a)' = {} \/ a \in live'
         /\ a \in live' \/ a \in live
<1>0. ASSUME backend' = backend, NEW b \in Attempts PROVE Workspace(b)' = Workspace(b)
  BY <1>0 DEF Workspace
<1>1. ASSUME NEW place, NEW text, disk' = Written(place, text), backend' = backend,
             NEW b \in Attempts, place.dir # Workspace(b),
             place = Location(place.dir, place.path)
      PROVE  Scratch(b)' = Scratch(b)
  <2> DEFINE new == [dir |-> place.dir, path |-> place.path, text |-> text]
  <2>1. \A f : f \in disk' <=> f = new \/ (f \in disk /\ f \notin At(place))
    BY <1>1 DEF Written
  <2>2. \A f \in At(place) : f.dir # Workspace(b)
    <3> SUFFICES ASSUME NEW f \in At(place) PROVE f.dir # Workspace(b)
      OBVIOUS
    <3>1. Location(f.dir, f.path) = place
      BY DEF At
    <3>2. f.dir = place.dir
      BY <3>1 DEF Location
    <3> QED
      BY <1>1, <3>2
  <2>3. new.dir # Workspace(b)
    BY <1>1
  <2> HIDE DEF new
  <2>4. \A f : f \in disk' /\ f.dir = Workspace(b) <=> f \in disk /\ f.dir = Workspace(b)
    BY <2>1, <2>2, <2>3
  <2>5. Workspace(b)' = Workspace(b)
    BY <1>0, <1>1
  <2> QED
    BY <2>4, <2>5 DEF Scratch
<1>2. CASE OpenBackend(a)
  BY <1>0, <1>2 DEF OpenBackend, Scratch
<1>3. CASE CloseBackend(a)
  <2>1. backend' = backend /\ live' = live \ {a} /\ a \in live
        /\ disk' = {f \in disk : f.dir # Workspace(a)}
    BY <1>3 DEF CloseBackend
  <2>2. \A b \in Attempts : b # a => Workspace(b) # Workspace(a)
    BY ScratchNames
  <2> QED
    BY <1>0, <2>1, <2>2 DEF Scratch
<1>4. ASSUME NEW p \in Paths, NEW text \in Texts, UploadFile(a, p, text) \/ ShellWrite(a, p, text)
      PROVE  \E place : /\ disk' = Written(place, text)
                        /\ place = Location(place.dir, place.path)
                        /\ \A b \in Attempts : b # a => place.dir # Workspace(b)
                        /\ backend' = backend /\ live' = live /\ a \in live
  <2>1. CASE UploadFile(a, p, text)
    BY <2>1, Places, ToolStaysHome DEF UploadFile
  <2>2. CASE ShellWrite(a, p, text)
    BY <2>2, Places, ShellStaysHome DEF ShellWrite
  <2> QED
    BY <1>4, <2>1, <2>2
<1>5. CASE \E p \in Paths, text \in Texts : UploadFile(a, p, text) \/ ShellWrite(a, p, text)
  <2>1. PICK p \in Paths, text \in Texts : UploadFile(a, p, text) \/ ShellWrite(a, p, text)
    BY <1>5
  <2>2. PICK place : /\ disk' = Written(place, text)
                     /\ place = Location(place.dir, place.path)
                     /\ \A b \in Attempts : b # a => place.dir # Workspace(b)
                     /\ backend' = backend /\ live' = live /\ a \in live
    BY <1>4, <2>1
  <2> QED
    BY <1>1, <2>2
<1> QED
  BY <1>2, <1>3, <1>5 DEF FilesStep

(* With podman no attempt reaches the scratch directory of another one, for  *)
(* any paths, tools and mounts, and an attempt that is over leaves none.     *)
THEOREM ScratchIsKeptApart == FilesSpec => ScratchIsOwn /\ []ScratchGoes
<1>1. FilesInit => ScratchGoes
  BY DEF FilesInit, ScratchGoes, Scratch
<1>2. ScratchGoes /\ [FilesNext]_fileVars => ScratchGoes'
  <2> SUFFICES ASSUME ScratchGoes, [FilesNext]_fileVars, (backend = "podman")',
                      NEW b \in Attempts, Scratch(b)' # {}
               PROVE  b \in live'
    BY DEF ScratchGoes
  <2>1. CASE UNCHANGED fileVars
    BY <2>1 DEF fileVars, ScratchGoes, Scratch, Workspace
  <2>2. ASSUME NEW a \in Attempts, FilesStep(a) PROVE b \in live'
    <3>1. backend = "podman"
      BY <2>2 DEF FilesStep, OpenBackend, CloseBackend, UploadFile, ShellWrite
    <3> QED
      BY <2>2, <3>1, ScratchStep DEF ScratchGoes
  <2> QED
    BY <2>1, <2>2 DEF FilesNext
<1>3. [FilesNext]_fileVars => [StepsStayApart]_fileVars
  BY ScratchStep DEF StepsStayApart
<1> QED
  BY <1>1, <1>2, <1>3, PTL DEF FilesSpec, ScratchIsOwn
=================================================================================
