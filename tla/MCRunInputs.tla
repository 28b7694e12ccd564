------------------------------ MODULE MCRunInputs ------------------------------
(* Model-checking instance of RunInputs and BackendFiles: command lines with  *)
(* up to two inputs, two skill sources and three profile files, over an empty *)
(* or a used output directory; and, apart from these, the files that two      *)
(* attempts leave through their tools and their shells.                       *)
EXTENDS RunInputs, BackendFiles

CONSTANT c1, c2

(* What the theorem about SameFile assumes, for the paths of the instance.   *)
ASSUME PathsTranslate == TranslationsAgree

VARIABLE part  \* "inputs" or "files"

(* Inputs: a file, a file and a directory where skills go, a bad target.      *)
InputSpecs == {
  [at |-> <<"data">>, name |-> "d", files |-> {Host}],
  [at |-> <<"skills">>, name |-> "a", files |-> {Host}],
  [at |-> <<"skills", "a">>, name |-> "a", files |-> {<<"x">>}],
  [at |-> <<>>, name |-> "d", files |-> {Host}]}

Tree == [at |-> None, name |-> "t", files |-> {<<"a", "SKILL.md">>, <<"b", "SKILL.md">>}]
One  == [at |-> None, name |-> "a", files |-> {Skill, <<"run.py">>}]
Own  == [at |-> <<"own", "c">>, name |-> "c", files |-> {Skill}]
Top  == [at |-> <<"top">>, name |-> "c", files |-> {Skill}]
SkillSpecs == {Tree, One, Top}

Profile(id, tool, dir, access, specs, virtual, global, explicit, exposed) ==
  [id |-> id, tool |-> tool, dir |-> dir, access |-> access, specs |-> specs,
   virtual |-> virtual, global |-> global, explicit |-> explicit, exposed |-> exposed,
   toolsets |-> {"review"} \cup IF access = "all" THEN {"file_read"} ELSE {"browser"}]

Web     == Profile("web", "run_web", "web", "skills_only", <<Own>>, <<>>, FALSE, FALSE, TRUE)
Web2    == Profile("web", "run_web2", "web", "skills_only", <<>>, <<>>, TRUE, FALSE, FALSE)
Dotted  == Profile("w.b", "run_wb", "w_b", "skills_only", <<One>>, <<<<>>>>, TRUE, TRUE, TRUE)
Under_  == Profile("w_b", "run_w_b", "w_b", "none", <<>>, <<>>, FALSE, FALSE, TRUE)
Data    == Profile("data", "run_data", "data", "all", <<>>, <<<<"data">>>>, TRUE, FALSE, TRUE)
Reader  == [Web EXCEPT !.toolsets = @ \cup {"file_read"}]

ProfileFiles == 
  {<<Web, Data>>, <<Dotted, Under_>>, <<Web2, Web>>, <<Reader>>, <<Dotted, Web2, Data>>}

UpTo(S, n) == UNION {[1 .. k -> S] : k \in 0 .. n}

AllJobs == [inputs : UpTo(InputSpecs, 2), skills : UpTo(SkillSpecs, 2),
            profiles : ProfileFiles, clear : BOOLEAN, keep : BOOLEAN]

Old == {[path |-> <<"data">>, from |-> 0], [path |-> <<"skills", "old">>, from |-> 0]}

Name(absolute, segments) == [absolute |-> absolute, segments |-> segments]

(* A root of each kind, the same file under several names, and names that     *)
(* leave their directory.                                                     *)
AllPaths == {
  Name(TRUE, <<"outputs", "f">>), Name(TRUE, <<"outputs", ".", "d", "..", "f">>),
  Name(FALSE, <<"outputs", "f">>), Name(TRUE, <<"output", "f", "g">>),
  Name(TRUE, <<"workspace", "f">>), Name(FALSE, <<"f">>),
  Name(TRUE, <<"workspace", "outputs", "f">>), Name(TRUE, <<"input", "f">>),
  Name(FALSE, <<"outputs", "..", "..", "f">>), Name(TRUE, <<"memories", "f">>)}

(* The files do not depend on the command line.                               *)
AnyJob ==
  [inputs |-> <<>>, skills |-> <<>>, profiles |-> <<Web, Data>>, clear |-> TRUE, keep |-> TRUE]

MCInit ==
  /\ Init /\ FilesInit
  /\ IF job = AnyJob /\ input = {} THEN part \in {"inputs", "files"}
     ELSE part = "inputs" /\ backend = "podman"

(* The attempts of a run are at most as many as its profile calls.            *)
FilesRest == part = "files" /\ started = Attempts /\ UNCHANGED <<vars, fileVars, part>>

MCNext ==
  \/ part = "inputs" /\ Next /\ UNCHANGED <<fileVars, part>>
  \/ part = "files" /\ FilesNext /\ UNCHANGED <<vars, part>>
  \/ FilesRest

MCSpec == MCInit /\ [][MCNext]_<<vars, fileVars, part>>
================================================================================
