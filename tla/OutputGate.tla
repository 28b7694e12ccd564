------------------------------ MODULE OutputGate ------------------------------
(***************************************************************************)
(* The output gate and the parent's tools around it.  A gate call goes     *)
(* through its list of artifacts, sanitizes each raw file into the clean   *)
(* directory or rejects it into quarantine, and writes one manifest at the *)
(* end.  It runs in the runner's process, or in a container that the       *)
(* controller starts and kills after its timeout; the controller answers   *)
(* with the manifest it finds in the log directory.                        *)
(***************************************************************************)
EXTENDS Integers, Sequences

CONSTANTS
  Artifacts, Contents,
  Allowed,      \* artifacts whose extension is in ALLOWED_EXTENSIONS
  Xlsx,         \* the workbooks among them; the others are text files
  BadPackage,   \* contents no check of the file as a whole accepts
  Active,       \* contents with active content or dangerous formulas
  Fixable,      \* text contents that sanitizing changes
  Gates,        \* the gate calls of a run (bound)
  Requests,     \* the artifact lists the parent may pass
  Settings,     \* the settings a run may have, each with a bound on its raw writes
  Parallel,     \* the parent puts several calls in one message
  None, Partial, Torn, Error

(* A result of process_artifact: verdict and the two hashes. *)
EntryRecord == [status : {"pass", "sanitized", "rejected"},
                raw : Contents \cup {None}, clean : Contents \cup {None, Partial}]

ASSUME GateAssumption ==
  /\ Xlsx \subseteq Allowed /\ Allowed \subseteq Artifacts
  /\ BadPackage \subseteq Contents /\ Active \subseteq Contents
  /\ Fixable \subseteq Contents
  /\ Requests \subseteq Seq(Artifacts) \ {<<>>}
  /\ Settings \subseteq [controller : BOOLEAN, stringify : BOOLEAN, writes : Nat]
  /\ Parallel \in BOOLEAN
  /\ None \notin Contents /\ Partial \notin Contents
  /\ None # Partial /\ None # Error /\ None \notin EntryRecord
  /\ {None, Torn, Error} \cap Gates = {}

VARIABLES
  setting,    \* the settings of the run; they stay
  raw,        \* raw_outputs: content or None
  clean,      \* clean_exports: whose sanitized form, Partial or None
  quarantine, \* quarantine: content or None
  writes,     \* number of raw writes so far
  pc,         \* where each gate call is
  list,       \* its list of artifacts
  at,         \* position in the list
  held,       \* the content it has in memory
  entries,    \* its results, by artifact
  manifest,   \* whose manifest gate_manifest.json is, or None or Torn
  answer      \* what the caller got: a manifest, Error, or None yet

files == <<raw, clean, quarantine>>
local == <<list, held>>
vars  == <<setting, raw, clean, quarantine, writes, pc, list, at, held, entries, manifest,
           answer>>

(* The gate runs behind the sandbox controller.                              *)
Controller == setting.controller

(* xlsx_dangerous_formula_action is "stringify".                             *)
Stringify == setting.stringify

(* Most raw writes in a run (bound).                                         *)
WriteBound == setting.writes

Running == {"scan", "load", "write", "hash", "reject"}
Entry(status, was, is) == [status |-> status, raw |-> was, clean |-> is]
PassLike == {"pass", "sanitized"}

Pending  == \E g \in Gates : pc[g] # "idle" /\ answer[g] = None
ParentFree == Parallel \/ ~Pending

\* Mutants: the loop stops before the last file; it does not move on.
AtFileShort(g) == at[g] < Len(list[g])
AdvanceNot(g)  == at

Current(g) == list[g][at[g]]
AtFile(g)  == at[g] <= Len(list[g])
Advance(g) == [at EXCEPT ![g] = @ + 1]

Init ==
  /\ setting \in Settings
  /\ raw = [a \in Artifacts |-> None] /\ clean = [a \in Artifacts |-> None]
  /\ quarantine = [a \in Artifacts |-> None] /\ writes = 0
  /\ pc = [g \in Gates |-> "idle"] /\ list = [g \in Gates |-> <<>>]
  /\ at = [g \in Gates |-> 1] /\ held = [g \in Gates |-> None]
  /\ entries = [g \in Gates |-> [a \in Artifacts |-> None]]
  /\ manifest = None /\ answer = [g \in Gates |-> None]

(* A Deep Agent attempt writes or removes a raw file.                        *)
AgentWrites(a, c) ==
  /\ ParentFree /\ writes < WriteBound
  /\ raw' = [raw EXCEPT ![a] = c] /\ writes' = writes + 1
  /\ UNCHANGED <<clean, quarantine, pc, local, at, entries, manifest, answer>>

(* The run_output_gate tool is called.                                       *)
StartGate(g, request) ==
  /\ ParentFree /\ pc[g] = "idle"
  /\ pc' = [pc EXCEPT ![g] = "scan"] /\ list' = [list EXCEPT ![g] = request]
  /\ UNCHANGED <<files, writes, at, held, entries, manifest, answer>>

(* normalized not in seen: a repeated artifact is processed once.            *)
Skip(g) ==
  /\ pc[g] = "scan" /\ AtFile(g) /\ entries[g][Current(g)] # None
  /\ at' = Advance(g)
  /\ UNCHANGED <<files, writes, pc, local, entries, manifest, answer>>

\* Mutant: any extension is accepted.
CheckedAny(a) == raw[a] # None

(* Suffix allowlist and existence.                                           *)
Checked(a) == a \in Allowed /\ raw[a] # None

(* What one reading of the file decides: magic bytes, decoding, parsing and  *)
(* active content for text; size, signature, zip and part checks for xlsx.   *)
Vetted(a, c) == c \notin BadPackage /\ (a \in Xlsx \/ c \notin Active)

(* The formulas of the loaded workbook. *)
Loadable(c) == Stringify \/ c \notin Active

Changed(a, c) == IF a \in Xlsx THEN c \in Active ELSE c \in Fixable

(* process_artifact up to the sanitizer's own reading of the file.           *)
Scan(g) ==
  LET a == Current(g) IN
  /\ pc[g] = "scan" /\ AtFile(g) /\ entries[g][a] = None
  /\ held' = [held EXCEPT ![g] = raw[a]]
  /\ pc' = [pc EXCEPT ![g] =
       IF ~Checked(a) \/ ~Vetted(a, raw[a]) THEN "reject"
       ELSE IF a \in Xlsx THEN "load" ELSE "write"]
  /\ UNCHANGED <<files, writes, list, at, entries, manifest, answer>>

(* sanitize_xlsx opens the file again; openpyxl may or may not load a        *)
(* package that has become bad since.                                        *)
Load(g) ==
  LET c == raw[Current(g)] IN
  /\ pc[g] = "load" /\ held' = [held EXCEPT ![g] = c]
  /\ \E loads \in BOOLEAN :
       /\ c \in Contents \ BadPackage => loads
       /\ pc' = [pc EXCEPT ![g] =
            IF c # None /\ loads /\ Loadable(c) THEN "write" ELSE "reject"]
  /\ UNCHANGED <<files, writes, list, at, entries, manifest, answer>>

WriteClean(g) ==
  /\ pc[g] = "write"
  /\ clean' = [clean EXCEPT ![Current(g)] = held[g]]
  /\ pc' = [pc EXCEPT ![g] = "hash"]
  /\ UNCHANGED <<raw, quarantine, writes, local, at, entries, manifest, answer>>

\* Mutant: the exception is swallowed and the artifact reported as passed.
AfterFailureSwallowed == "hash"

(* except Exception: whatever the sanitizer raises rejects the artifact.     *)
AfterFailure == "reject"

(* Writing the clean file raises; the file may be cut off.                   *)
WriteFails(g) ==
  /\ pc[g] = "write"
  /\ \E left \in {clean[Current(g)], Partial} :
       clean' = [clean EXCEPT ![Current(g)] = left]
  /\ pc' = [pc EXCEPT ![g] = AfterFailure]
  /\ UNCHANGED <<raw, quarantine, writes, local, at, entries, manifest, answer>>

(* pass_result hashes both files; a vanished raw file is an exception.       *)
Hash(g) ==
  LET a == Current(g) IN
  /\ pc[g] = "hash"
  /\ IF raw[a] = None
     THEN /\ pc' = [pc EXCEPT ![g] = AfterFailure] /\ UNCHANGED <<entries, at>>
     ELSE /\ entries' = [entries EXCEPT ![g][a] =
               Entry(IF Changed(a, held[g]) THEN "sanitized" ELSE "pass",
                     raw[a], clean[a])]
          /\ at' = Advance(g) /\ pc' = [pc EXCEPT ![g] = "scan"]
  /\ UNCHANGED <<files, writes, local, manifest, answer>>

\* Mutant: an earlier copy is not replaced.
QuarantinedOnce(g) ==
  IF quarantine[Current(g)] # None THEN quarantine
  ELSE [quarantine EXCEPT ![Current(g)] = raw[Current(g)]]

Quarantined(g) ==
  IF raw[Current(g)] = None THEN quarantine
  ELSE [quarantine EXCEPT ![Current(g)] = raw[Current(g)]]

(* reject_result: copy to quarantine, if there is a file, and report.  The   *)
(* clean directory is left as it is.                                         *)
Reject(g) ==
  LET a == Current(g) IN
  /\ pc[g] = "reject" /\ quarantine' = Quarantined(g)
  /\ entries' = [entries EXCEPT ![g][a] = Entry("rejected", raw[a], None)]
  /\ at' = Advance(g) /\ pc' = [pc EXCEPT ![g] = "scan"]
  /\ UNCHANGED <<raw, clean, writes, local, manifest, answer>>

WriteManifest(g) ==
  /\ pc[g] = "scan" /\ ~AtFile(g)
  /\ manifest' = g /\ pc' = [pc EXCEPT ![g] = "written"]
  /\ UNCHANGED <<files, writes, local, at, entries, answer>>

(* The call breaks off.  A path that leaves its root, the copy into          *)
(* quarantine and the manifest's write raise out of the gate; the controller *)
(* kills the container at its timeout, wherever the gate is.                 *)
BreakOff(g) ==
  /\ pc[g] \in IF Controller THEN Running ELSE {"scan", "reject"}
  /\ IF pc[g] = "write"
     THEN \E left \in {clean[Current(g)], Partial, held[g]} :
            clean' = [clean EXCEPT ![Current(g)] = left]
     ELSE UNCHANGED clean
  /\ manifest' \in IF pc[g] = "scan" /\ ~AtFile(g) THEN {manifest, Torn} ELSE {manifest}
  /\ pc' = [pc EXCEPT ![g] = "broken"]
  /\ UNCHANGED <<raw, quarantine, writes, local, at, entries, answer>>

\* Mutant: the controller does not look at the container's exit status.
ReplyUnchecked(g) ==
  IF Controller THEN (IF manifest \in Gates THEN manifest ELSE Error)
  ELSE IF pc[g] = "broken" THEN Error ELSE g

(* The controller reads the manifest file back when the exit status is 0; an *)
(* unreadable manifest, a failed container and an exception are errors.      *)
Reply(g) ==
  IF pc[g] = "broken" THEN Error
  ELSE IF ~Controller THEN g
  ELSE IF manifest \in Gates THEN manifest ELSE Error

(* overall_status *)
Passed(g) ==
  /\ \E a \in Artifacts : entries[g][a] # None
  /\ \A a \in Artifacts : entries[g][a] # None => entries[g][a].status \in PassLike

Answer(g) ==
  /\ pc[g] \in {"written", "broken"} /\ answer[g] = None
  /\ answer' = [answer EXCEPT ![g] = Reply(g)]
  /\ UNCHANGED <<files, writes, pc, local, at, entries, manifest>>

(* The parent stops when it has no gate calls left. *)
Done ==
  /\ \A g \in Gates : answer[g] # None
  /\ UNCHANGED vars

GateStep(g) ==
  /\ \/ Skip(g) \/ Scan(g) \/ Load(g) \/ WriteClean(g) \/ WriteFails(g)
     \/ Hash(g) \/ Reject(g) \/ WriteManifest(g) \/ Answer(g)
  /\ UNCHANGED setting

Next ==
  /\ UNCHANGED setting
  /\ \/ \E a \in Artifacts, c \in Contents \cup {None} : AgentWrites(a, c)
     \/ \E g \in Gates, request \in Requests : StartGate(g, request)
     \/ \E g \in Gates : GateStep(g) \/ BreakOff(g)
     \/ Done

Spec == Init /\ [][Next]_vars

(* The gate's loop and the reply go on by themselves, without the help of an *)
(* error or of the controller's timeout.                                     *)
FairSpec == Spec /\ \A g \in Gates : WF_vars(GateStep(g))

-----------------------------------------------------------------------------
(* Properties *)

TypeOK ==
  /\ setting \in Settings
  /\ raw \in [Artifacts -> Contents \cup {None}]
  /\ clean \in [Artifacts -> Contents \cup {None, Partial}]
  /\ quarantine \in [Artifacts -> Contents \cup {None}] /\ writes \in Nat
  /\ pc \in [Gates -> {"idle", "written", "broken"} \cup Running]
  /\ list \in [Gates -> Seq(Artifacts)] /\ at \in [Gates -> Nat \ {0}]
  /\ held \in [Gates -> Contents \cup {None}]
  /\ entries \in [Gates -> [Artifacts -> EntryRecord \cup {None}]]
  /\ manifest \in Gates \cup {None, Torn}
  /\ answer \in [Gates -> Gates \cup {None, Error}]

(* Nothing the gate's checks refuse is in the clean directory: neither       *)
(* another extension, nor content that a check of the file or of the loaded  *)
(* workbook rejects.                                                         *)
ExportsAreVetted ==
  \A a \in Artifacts : clean[a] \in Contents =>
    /\ a \in Allowed /\ Vetted(a, clean[a])
    /\ a \in Xlsx => Loadable(clean[a])

(* The raw hash of a passed entry is the hash of the bytes that were         *)
(* sanitized into the clean file it names.                                   *)
EvidenceMatches ==
  \A g \in Gates, a \in Artifacts :
    entries[g][a] # None /\ entries[g][a].status \in PassLike =>
      entries[g][a].clean = entries[g][a].raw

(* The step tells g's caller that the gate passed. *)
Pass(g) == answer[g] = None /\ answer'[g] \in Gates /\ Passed(answer'[g])

(* A caller is told that the gate passed only when every artifact it asked   *)
(* for is in the clean directory as the sanitized form of its raw file.      *)
PassIsCurrent ==
  [][\A g \in Gates : Pass(g) =>
       \A i \in DOMAIN list[g] : LET a == list[g][i] IN
         raw[a] # None /\ clean[a] = raw[a]]_vars

(* A caller that gets a manifest gets the one of its own call, also after    *)
(* calls that broke off.                                                     *)
AnswersOwnRequest == \A g \in Gates : answer[g] \in Gates => answer[g] = g

Rejects(g, a) == entries[g][a] # None /\ entries[g][a].status = "rejected"

(* When a manifest is written, every file it rejects is in quarantine with   *)
(* the content it was rejected for.                                          *)
RejectedIsQuarantined ==
  [][\A g \in Gates, a \in Artifacts :
       /\ manifest' = g /\ manifest # g
       /\ Rejects(g, a) /\ entries[g][a].raw # None
       => quarantine[a] = entries[g][a].raw]_vars

(* Every call of the tool is answered. *)
GateAnswers == \A g \in Gates : pc[g] = "scan" ~> answer[g] # None

(* No call is under way and none has failed. *)
Settled == \A g \in Gates : pc[g] = "idle" \/ answer[g] \in Gates

(* Only what passed or was sanitized is there to read: an artifact that the  *)
(* latest manifest rejects has no complete file in the clean directory.      *)
RejectedNotExported ==
  Settled /\ manifest \in Gates =>
    \A a \in Artifacts : Rejects(manifest, a) => clean[a] \notin Contents
=============================================================================
