-------------------------- MODULE OutputGateProofs --------------------------
(* Proofs about OutputGate for all artifacts, contents, lists and calls.     *)
EXTENDS OutputGate, TLAPS

LEMMA EntryType ==
  ASSUME NEW s \in {"pass", "sanitized", "rejected"},
         NEW r \in Contents \cup {None}, NEW c \in Contents \cup {None, Partial}
  PROVE  Entry(s, r, c) \in EntryRecord
BY DEF Entry, EntryRecord

(* A call that is working on a file is at a position of its list.            *)
MidFile == \A g \in Gates :
  pc[g] \in {"load", "write", "hash", "reject"} => AtFile(g)

LEMMA CurrentType ==
  ASSUME TypeOK, NEW g \in Gates, AtFile(g) PROVE Current(g) \in Artifacts
BY DEF TypeOK, AtFile, Current

LEMMA TypeStep == TypeOK /\ MidFile /\ [Next]_vars => TypeOK' /\ MidFile'
<1> SUFFICES ASSUME TypeOK, MidFile, [Next]_vars PROVE TypeOK' /\ MidFile'
  OBVIOUS
<1>0. UNCHANGED setting
  BY DEF Next, vars
<1> USE <1>0 DEF TypeOK, MidFile, AtFile, files, local, Running
<1>1. ASSUME NEW a \in Artifacts, NEW c \in Contents \cup {None}, AgentWrites(a, c)
      PROVE  TypeOK' /\ MidFile'
  BY <1>1 DEF AgentWrites
<1>2. ASSUME NEW g \in Gates, NEW request \in Requests, StartGate(g, request)
      PROVE  TypeOK' /\ MidFile'
  BY <1>2, GateAssumption DEF StartGate
<1>3. ASSUME NEW g \in Gates, GateStep(g) \/ BreakOff(g) PROVE TypeOK' /\ MidFile'
  <2>0. Advance(g) \in [Gates -> Nat \ {0}]
    BY DEF Advance
  <2>a. AtFile(g) => Current(g) \in Artifacts
    BY CurrentType
  <2>1. CASE Skip(g)
    BY <2>0, <2>1 DEF Skip, Advance
  <2>2. CASE Scan(g)
    BY <2>a, <2>2 DEF Scan
  <2>3. CASE Load(g)
    BY <2>a, <2>3 DEF Load
  <2>4. CASE WriteClean(g)
    BY <2>a, <2>4 DEF WriteClean
  <2>5. CASE WriteFails(g)
    BY <2>a, <2>5 DEF WriteFails, AfterFailure
  <2>6. CASE Hash(g)
    <3> DEFINE a == Current(g)
    <3> DEFINE s == IF Changed(a, held[g]) THEN "sanitized" ELSE "pass"
    <3> DEFINE e == Entry(s, raw[a], clean[a])
    <3>1. a \in Artifacts
      BY <2>a, <2>6 DEF Hash
    <3>2. e \in EntryRecord
      <4>1. CASE Changed(a, held[g])
        BY <3>1, <4>1, EntryType
      <4>2. CASE ~Changed(a, held[g])
        BY <3>1, <4>2, EntryType
      <4> QED
        BY <4>1, <4>2
    <3>3. entries' = entries \/ entries' = [entries EXCEPT ![g][a] = e]
      BY <2>6 DEF Hash
    <3> HIDE DEF a, e
    <3>4. entries' \in [Gates -> [Artifacts -> EntryRecord \cup {None}]]
      <4>1. CASE entries' = entries
        BY <4>1
      <4>2. CASE entries' = [entries EXCEPT ![g][a] = e]
        BY <3>1, <3>2, <4>2
      <4> QED
        BY <3>3, <4>1, <4>2
    <3>5. at' \in [Gates -> Nat \ {0}] /\ (at' = at \/ pc'[g] = "scan")
      BY <2>0, <2>6 DEF Hash
    <3>6. \A h \in Gates \ {g} : at'[h] = at[h] /\ pc'[h] = pc[h]
      BY <2>6 DEF Hash, Advance
    <3>7. pc' \in [Gates -> {"idle", "written", "broken"} \cup Running]
      BY <2>6 DEF Hash, AfterFailure
    <3>8. UNCHANGED <<files, writes, local, manifest, answer>>
      BY <2>6 DEF Hash
    <3>9. MidFile'
      BY <2>6, <3>5, <3>6, <3>8 DEF Hash
    <3> QED
      BY <3>4, <3>5, <3>7, <3>8, <3>9
  <2>7. CASE Reject(g)
    <3> DEFINE a == Current(g)
    <3> DEFINE e == Entry("rejected", raw[a], None)
    <3>1. a \in Artifacts
      BY <2>a, <2>7 DEF Reject
    <3>2. e \in EntryRecord
      BY <3>1, EntryType
    <3>3. entries' = [entries EXCEPT ![g][a] = e]
      BY <2>7 DEF Reject
    <3>4. quarantine' \in [Artifacts -> Contents \cup {None}]
      BY <2>7, <3>1 DEF Reject, Quarantined
    <3> HIDE DEF a, e
    <3>5. entries' \in [Gates -> [Artifacts -> EntryRecord \cup {None}]]
      BY <3>1, <3>2, <3>3
    <3> QED
      BY <2>0, <2>7, <3>4, <3>5 DEF Reject, Advance
  <2>8. CASE WriteManifest(g)
    BY <2>8 DEF WriteManifest
  <2>9. CASE BreakOff(g)
    <3>1. clean' \in [Artifacts -> Contents \cup {None, Partial}]
      BY <2>a, <2>9 DEF BreakOff
    <3>2. manifest' \in Gates \cup {None, Torn}
      BY <2>9 DEF BreakOff
    <3> QED
      BY <2>9, <3>1, <3>2 DEF BreakOff
  <2>10. CASE Answer(g)
    BY <2>10 DEF Answer, Reply
  <2> QED
    BY <1>3, <2>1, <2>2, <2>3, <2>4, <2>5, <2>6, <2>7, <2>8, <2>9, <2>10 DEF GateStep
<1>4. CASE Done \/ UNCHANGED vars
  BY <1>4 DEF Done, vars
<1> QED
  BY <1>1, <1>2, <1>3, <1>4 DEF Next

LEMMA Typed == Spec => [](TypeOK /\ MidFile)
<1>1. Init => TypeOK /\ MidFile
  BY DEF Init, TypeOK, MidFile, Running
<1> QED
  BY <1>1, TypeStep, PTL DEF Spec

(* Every reachable state has its type.                                       *)
THEOREM TypeCorrect == Spec => []TypeOK
BY Typed, PTL

-----------------------------------------------------------------------------
(* A parent that makes one call at a time: while a gate call is under way no *)
(* raw file changes and no other call runs, so what the call holds in memory *)
(* is what the raw file is, until its result is recorded.                    *)

Under(g) == pc[g] # "idle" /\ answer[g] = None

OneCall == \A g, h \in Gates : Under(g) /\ Under(h) => g = h

OverWhenAnswered ==
  \A g \in Gates : /\ answer[g] # None => pc[g] \in {"written", "broken"}
                   /\ pc[g] = "idle" => answer[g] = None

(* What the call knows of the file it works on. *)
FileOK(g) == LET a == Current(g) IN
  /\ pc[g] \in {"load", "write", "hash", "reject"} => entries[g][a] = None
  /\ pc[g] \in {"load", "write", "hash"} =>
       a \in Allowed /\ held[g] = raw[a] /\ raw[a] \in Contents /\ Vetted(a, raw[a])
  /\ pc[g] \in {"write", "hash"} /\ a \in Xlsx => Loadable(raw[a])
  /\ pc[g] = "hash" => clean[a] = raw[a]

(* What it knows of the files before.  *)
ResultsOK(g) == \A a \in Artifacts :
  Under(g) /\ entries[g][a] # None /\ entries[g][a].status \in PassLike =>
    clean[a] = raw[a] /\ raw[a] # None

Covered(g) ==
  /\ pc[g] = "idle" => at[g] = 1 /\ entries[g] = [a \in Artifacts |-> None]
  /\ \A i \in 1 .. Len(list[g]) : i < at[g] => entries[g][list[g][i]] # None
  /\ Under(g) /\ pc[g] = "written" => ~AtFile(g) /\ manifest = g

GateInv ==
  /\ OneCall /\ OverWhenAnswered
  /\ \A g \in Gates : FileOK(g) /\ ResultsOK(g) /\ Covered(g)
  /\ ExportsAreVetted /\ EvidenceMatches

(* A call that is not under way has nothing to lose. *)
LEMMA OthersOK ==
  ASSUME GateInv, NEW h \in Gates, ~Under(h),
         pc'[h] = pc[h], answer'[h] = answer[h], list'[h] = list[h],
         at'[h] = at[h], entries'[h] = entries[h]
  PROVE  FileOK(h)' /\ ResultsOK(h)' /\ Covered(h)'
<1>1. pc[h] \in {"idle", "written", "broken"} /\ ~Under(h)'
  BY DEF GateInv, OverWhenAnswered, Under
<1>2. FileOK(h)'
  BY <1>1 DEF FileOK
<1>3. ResultsOK(h)'
  BY <1>1 DEF ResultsOK
<1>4. Covered(h)'
  BY <1>1 DEF GateInv, Covered
<1> QED
  BY <1>2, <1>3, <1>4

(* What a step of the call under way has to show. *)
LEMMA StepOfOne ==
  ASSUME GateInv, NEW g \in Gates, Under(g),
         \A h \in Gates \ {g} :
           /\ pc'[h] = pc[h] /\ answer'[h] = answer[h] /\ list'[h] = list[h]
           /\ at'[h] = at[h] /\ entries'[h] = entries[h],
         FileOK(g)', ResultsOK(g)', Covered(g)',
         answer'[g] # None => pc'[g] \in {"written", "broken"},
         pc'[g] # "idle",
         ExportsAreVetted', EvidenceMatches'
  PROVE  GateInv'
<1>1. \A h \in Gates \ {g} : ~Under(h) /\ ~Under(h)'
  BY DEF GateInv, OneCall, Under
<1>2. \A h \in Gates \ {g} : FileOK(h)' /\ ResultsOK(h)' /\ Covered(h)'
  BY <1>1, OthersOK
<1>3. OneCall'
  BY <1>1 DEF OneCall
<1>4. OverWhenAnswered'
  BY DEF GateInv, OverWhenAnswered
<1> QED
  BY <1>2, <1>3, <1>4 DEF GateInv

(* The clean directory stays vetted if only vetted content is added. *)
LEMMA CleanVetted ==
  ASSUME UNCHANGED setting, TypeOK, ExportsAreVetted, NEW a \in Artifacts,
         NEW c \in Contents \cup {None, Partial},
         clean' = [clean EXCEPT ![a] = c],
         c \in Contents =>
           \/ c = clean[a]
           \/ (a \in Allowed /\ Vetted(a, c) /\ (a \in Xlsx => Loadable(c)))
  PROVE  ExportsAreVetted'
BY DEF TypeOK, ExportsAreVetted, Loadable, Stringify

(* A result is recorded for a file of g. *)
LEMMA Recorded ==
  ASSUME TypeOK, NEW g \in Gates, NEW a \in Artifacts, NEW e \in EntryRecord,
         entries' = [entries EXCEPT ![g][a] = e]
  PROVE  /\ entries'[g][a] = e /\ e # None
         /\ \A h \in Gates, b \in Artifacts :
              h # g \/ b # a => entries'[h][b] = entries[h][b]
         /\ \A h \in Gates \ {g} : entries'[h] = entries[h]
BY GateAssumption DEF TypeOK

(* The position moves on past a file that has a result. *)
LEMMA CoveredOn ==
  ASSUME TypeOK, GateInv, NEW g \in Gates, AtFile(g), pc[g] # "idle",
         at' = Advance(g), list' = list, pc'[g] = "scan",
         entries'[g][Current(g)] # None,
         \A b \in Artifacts : b # Current(g) => entries'[g][b] = entries[g][b]
  PROVE  Covered(g)'
<1>1. at'[g] = at[g] + 1
  BY DEF Advance, TypeOK
<1>2. ASSUME NEW i \in 1 .. Len(list[g]), i < at[g] + 1
      PROVE  entries'[g][list[g][i]] # None
  <2>1. list[g][i] \in Artifacts
    BY DEF TypeOK
  <2>2. CASE list[g][i] = Current(g)
    BY <2>2
  <2>3. CASE list[g][i] # Current(g)
    <3>1. i < at[g]
      BY <1>2, <2>3 DEF Current, TypeOK
    <3> QED
      BY <2>1, <2>3, <3>1 DEF GateInv, Covered
  <2> QED
    BY <2>2, <2>3
<1> QED
  BY <1>1, <1>2 DEF Covered

LEMMA GateStepOK ==
  ASSUME UNCHANGED setting, TypeOK, MidFile, GateInv,
         NEW g \in Gates, GateStep(g) \/ BreakOff(g)
  PROVE  GateInv'
<1> DEFINE a == Current(g)
<1> USE GateAssumption
<1>0. Under(g)
  BY DEF GateStep, Skip, Scan, Load, WriteClean, WriteFails, Hash, Reject, WriteManifest,
         BreakOff, Answer, GateInv, OverWhenAnswered, Under, Running
<1>i. /\ FileOK(g) /\ ResultsOK(g) /\ Covered(g) /\ ExportsAreVetted /\ EvidenceMatches
      /\ AtFile(g) => a \in Artifacts
  BY CurrentType DEF GateInv
<1>u. answer[g] = None /\ pc[g] # "idle"
  BY <1>0 DEF Under
<1>k. UNCHANGED <<clean, entries>> => ExportsAreVetted' /\ EvidenceMatches'
  BY <1>i DEF ExportsAreVetted, EvidenceMatches, Loadable, Stringify
<1>1. CASE Skip(g)
  <2>1. Covered(g)'
    BY <1>u, <1>1, CoveredOn DEF Skip, local, files
  <2>2. FileOK(g)' /\ ResultsOK(g)'
    BY <1>1, <1>i DEF Skip, local, files, FileOK, ResultsOK, Under
  <2>3. \A h \in Gates \ {g} : at'[h] = at[h]
    BY <1>1 DEF Skip, Advance, TypeOK
  <2> QED
    BY <1>0, <1>1, <1>k, <1>u, <2>1, <2>2, <2>3, StepOfOne DEF Skip, local, files
<1>2. CASE Scan(g)
  <2>1. Covered(g)'
    BY <1>2, <1>i DEF Scan, local, files, Covered, AtFile, TypeOK
  <2>2. FileOK(g)' /\ ResultsOK(g)'
    BY <1>2, <1>i DEF Scan, local, files, FileOK, ResultsOK, Under, TypeOK, Checked, Current
  <2> QED
    BY <1>0, <1>2, <1>k, <1>u, <2>1, <2>2, StepOfOne DEF Scan, local, files, TypeOK
<1>3. CASE Load(g)
  <2>1. Covered(g)'
    BY <1>3, <1>i DEF Load, local, files, Covered, AtFile, TypeOK
  <2>2. FileOK(g)' /\ ResultsOK(g)'
    BY <1>3, <1>i DEF Load, local, files, FileOK, ResultsOK, Under, TypeOK, Current, Loadable,
                      Stringify
  <2> QED
    BY <1>0, <1>3, <1>k, <1>u, <2>1, <2>2, StepOfOne DEF Load, local, files, TypeOK
<1>4. CASE WriteClean(g)
  <2>0. a \in Artifacts /\ held[g] = raw[a] /\ raw[a] \in Contents
    BY <1>4, <1>i DEF WriteClean, MidFile, FileOK
  <2>1. clean' = [clean EXCEPT ![a] = raw[a]]
    BY <1>4, <2>0 DEF WriteClean
  <2>2. Covered(g)'
    BY <1>4, <1>i DEF WriteClean, local, Covered, AtFile, TypeOK
  <2>3. FileOK(g)'
    BY <1>4, <1>i, <2>0, <2>1 DEF WriteClean, local, FileOK, TypeOK, Current, Loadable, Stringify
  <2>4. ResultsOK(g)'
    BY <1>4, <1>i, <2>0, <2>1 DEF WriteClean, local, ResultsOK, Under, TypeOK
  <2>5. ExportsAreVetted'
    <3>1. PICK f \in Artifacts, c \in Contents : f = a /\ c = raw[a]
      BY <2>0
    <3>2. f \in Allowed /\ Vetted(f, c) /\ (f \in Xlsx => Loadable(c))
      BY <1>4, <1>i, <3>1 DEF WriteClean, FileOK
    <3>3. clean' = [clean EXCEPT ![f] = c]
      BY <2>1, <3>1
    <3> QED
      BY <1>i, <3>2, <3>3, CleanVetted
  <2>6. EvidenceMatches'
    BY <1>4, <1>i DEF WriteClean, EvidenceMatches
  <2> QED
    BY <1>0, <1>4, <1>u, <2>2, <2>3, <2>4, <2>5, <2>6, StepOfOne DEF WriteClean, local, TypeOK
<1>5. CASE WriteFails(g)
  <2>0. PICK f \in Artifacts : f = a /\ entries[g][f] = None
    BY <1>5, <1>i DEF WriteFails, MidFile, FileOK
  <2>1. PICK left \in {clean[f], Partial} : clean' = [clean EXCEPT ![f] = left]
    BY <1>5, <2>0 DEF WriteFails
  <2>2. Covered(g)'
    BY <1>5, <1>i DEF WriteFails, AfterFailure, local, Covered, AtFile, TypeOK
  <2>3. FileOK(g)'
    BY <1>5, <1>i, <2>0 DEF WriteFails, AfterFailure, local, FileOK, TypeOK, Current
  <2>4. ResultsOK(g)'
    BY <1>5, <1>i, <2>0, <2>1 DEF WriteFails, local, ResultsOK, Under, TypeOK
  <2>5. ExportsAreVetted'
    <3>1. left \in Contents => left = clean[f]
      BY <2>1, GateAssumption
    <3>2. left \in Contents \cup {None, Partial}
      BY <2>1 DEF TypeOK
    <3> QED
      BY <1>i, <2>1, <3>1, <3>2 DEF ExportsAreVetted, TypeOK, Loadable, Stringify
  <2>6. EvidenceMatches'
    BY <1>5, <1>i DEF WriteFails, EvidenceMatches
  <2> QED
    BY <1>0, <1>5, <1>u, <2>2, <2>3, <2>4, <2>5, <2>6, StepOfOne
       DEF WriteFails, AfterFailure, local, TypeOK
<1>6. CASE Hash(g)
  <2>0. PICK f \in Artifacts : /\ f = a /\ raw[f] \in Contents /\ clean[f] = raw[f]
                              /\ raw[f] # None /\ AtFile(g) /\ entries[g][f] = None
    BY <1>6, <1>i DEF Hash, MidFile, FileOK
  <2>1. PICK e \in EntryRecord :
          /\ e.raw = raw[f] /\ e.clean = clean[f] /\ entries' = [entries EXCEPT ![g][f] = e]
          /\ at' = Advance(g) /\ pc' = [pc EXCEPT ![g] = "scan"]
    <3> DEFINE st == IF Changed(a, held[g]) THEN "sanitized" ELSE "pass"
    <3>1. /\ entries' = [entries EXCEPT ![g][a] = Entry(st, raw[a], clean[a])]
          /\ at' = Advance(g) /\ pc' = [pc EXCEPT ![g] = "scan"]
      BY <1>6, <2>0 DEF Hash
    <3>2. Entry(st, raw[f], clean[f]) \in EntryRecord
      BY <2>0, EntryType
    <3>3. Entry(st, raw[f], clean[f]).raw = raw[f] /\ Entry(st, raw[f], clean[f]).clean = clean[f]
      BY DEF Entry
    <3> HIDE DEF st
    <3> QED
      BY <2>0, <3>1, <3>2, <3>3
  <2>2. /\ entries'[g][f] = e /\ e # None
        /\ \A h \in Gates, b \in Artifacts : h # g \/ b # f => entries'[h][b] = entries[h][b]
        /\ \A h \in Gates \ {g} : entries'[h] = entries[h]
    BY <2>1, Recorded
  <2>3. UNCHANGED <<raw, clean, writes, local, manifest, answer>>
    BY <1>6 DEF Hash, files
  <2>4. Covered(g)'
    BY <1>u, <2>0, <2>1, <2>2, <2>3, CoveredOn DEF local, TypeOK
  <2>5. FileOK(g)'
    BY <2>1 DEF FileOK, TypeOK
  <2>6. ResultsOK(g)'
    BY <1>0, <1>i, <2>0, <2>1, <2>2, <2>3 DEF ResultsOK
  <2>7. ExportsAreVetted'
    BY <1>i, <2>3 DEF ExportsAreVetted, Loadable, Stringify
  <2>8. EvidenceMatches'
    BY <1>i, <2>0, <2>1, <2>2 DEF EvidenceMatches
  <2>9. \A h \in Gates \ {g} : at'[h] = at[h] /\ pc'[h] = pc[h]
    BY <2>1 DEF Advance, TypeOK
  <2> QED
    BY <1>0, <1>u, <2>1, <2>2, <2>3, <2>4, <2>5, <2>6, <2>7, <2>8, <2>9, StepOfOne
    DEF local, TypeOK
<1>7. CASE Reject(g)
  <2>0. PICK f \in Artifacts : f = a /\ AtFile(g) /\ entries[g][f] = None
    BY <1>7, <1>i DEF Reject, MidFile, FileOK
  <2>1. PICK e \in EntryRecord :
          /\ e.status = "rejected" /\ entries' = [entries EXCEPT ![g][f] = e]
          /\ at' = Advance(g) /\ pc' = [pc EXCEPT ![g] = "scan"]
    <3>1. Entry("rejected", raw[f], None) \in EntryRecord
      BY <2>0, EntryType DEF TypeOK
    <3>2. Entry("rejected", raw[f], None).status = "rejected"
      BY DEF Entry
    <3> QED
      BY <1>7, <2>0, <3>1, <3>2 DEF Reject
  <2>2. /\ entries'[g][f] = e /\ e # None
        /\ \A h \in Gates, b \in Artifacts : h # g \/ b # f => entries'[h][b] = entries[h][b]
        /\ \A h \in Gates \ {g} : entries'[h] = entries[h]
    BY <2>1, Recorded
  <2>3. UNCHANGED <<raw, clean, writes, local, manifest, answer>>
    BY <1>7 DEF Reject
  <2>4. Covered(g)'
    BY <1>u, <2>0, <2>1, <2>2, <2>3, CoveredOn DEF local, TypeOK
  <2>5. FileOK(g)'
    BY <2>1 DEF FileOK, TypeOK
  <2>6. ResultsOK(g)'
    BY <1>0, <1>i, <2>0, <2>1, <2>2, <2>3 DEF ResultsOK, PassLike
  <2>7. ExportsAreVetted'
    BY <1>i, <2>3 DEF ExportsAreVetted, Loadable, Stringify
  <2>8. EvidenceMatches'
    BY <1>i, <2>0, <2>1, <2>2 DEF EvidenceMatches, PassLike
  <2>9. \A h \in Gates \ {g} : at'[h] = at[h] /\ pc'[h] = pc[h]
    BY <2>1 DEF Advance, TypeOK
  <2> QED
    BY <1>0, <1>u, <2>1, <2>2, <2>3, <2>4, <2>5, <2>6, <2>7, <2>8, <2>9, StepOfOne
    DEF local, TypeOK
<1>8. CASE WriteManifest(g)
  <2>1. Covered(g)'
    BY <1>8, <1>i DEF WriteManifest, local, Covered, AtFile, TypeOK
  <2>2. FileOK(g)' /\ ResultsOK(g)'
    BY <1>8, <1>i DEF WriteManifest, local, files, FileOK, ResultsOK, Under, TypeOK
  <2> QED
    BY <1>0, <1>8, <1>k, <1>u, <2>1, <2>2, StepOfOne DEF WriteManifest, local, files, TypeOK
<1>9. CASE BreakOff(g)
  <2>1. Covered(g)'
    BY <1>9, <1>i DEF BreakOff, local, Covered, TypeOK, Running
  <2>2. FileOK(g)'
    BY <1>9 DEF BreakOff, FileOK, TypeOK
  <2>3. ResultsOK(g)' /\ ExportsAreVetted'
    <3>1. CASE pc[g] = "write"
      <4>0. PICK f \in Artifacts : /\ f = a /\ entries[g][f] = None
                                  /\ held[g] = raw[f] /\ raw[f] \in Contents
        BY <3>1, <1>i DEF MidFile, FileOK
      <4>1. PICK left \in {clean[f], Partial, raw[f]} : clean' = [clean EXCEPT ![f] = left]
        BY <1>9, <3>1, <4>0 DEF BreakOff
      <4>2. f \in Allowed /\ Vetted(f, raw[f]) /\ (f \in Xlsx => Loadable(raw[f]))
        BY <3>1, <1>i, <4>0 DEF FileOK
      <4>3. left \in Contents =>
              \/ left = clean[f]
              \/ (f \in Allowed /\ Vetted(f, left) /\ (f \in Xlsx => Loadable(left)))
        BY <4>1, <4>2, GateAssumption
      <4>4. ExportsAreVetted'
        <5>1. left \in Contents \cup {None, Partial}
          BY <4>0, <4>1 DEF TypeOK
        <5> QED
          BY <1>i, <4>1, <4>3, <5>1 DEF ExportsAreVetted, TypeOK, Loadable, Stringify
      <4>5. /\ UNCHANGED <<raw, entries, answer>>
            /\ \A b \in Artifacts \ {f} : clean'[b] = clean[b]
        BY <1>9, <4>1 DEF BreakOff, TypeOK
      <4>6. ResultsOK(g)'
        BY <1>0, <1>i, <4>0, <4>5 DEF ResultsOK
      <4> QED
        BY <4>4, <4>6
    <3>2. CASE pc[g] # "write"
      <4>1. UNCHANGED <<raw, clean, entries, answer>>
        BY <1>9, <3>2 DEF BreakOff
      <4> QED
        BY <1>i, <1>0, <4>1 DEF ResultsOK, ExportsAreVetted, Loadable, Stringify
    <3> QED
      BY <3>1, <3>2
  <2>4. EvidenceMatches'
    BY <1>9, <1>i DEF BreakOff, EvidenceMatches
  <2> QED
    BY <1>0, <1>9, <1>u, <2>1, <2>2, <2>3, <2>4, StepOfOne DEF BreakOff, local, TypeOK
<1>10. CASE Answer(g)
  <2>1. Covered(g)'
    BY <1>10, <1>i DEF Answer, Reply, local, Covered, Under, TypeOK
  <2>2. FileOK(g)' /\ ResultsOK(g)'
    BY <1>10, <1>i DEF Answer, Reply, local, files, FileOK, ResultsOK, Under, TypeOK
  <2> QED
    BY <1>0, <1>10, <1>k, <1>u, <2>1, <2>2, StepOfOne DEF Answer, local, files, TypeOK
<1> QED
  BY <1>1, <1>2, <1>3, <1>4, <1>5, <1>6, <1>7, <1>8, <1>9, <1>10 DEF GateStep

LEMMA GateInvStep ==
  ASSUME ~Parallel PROVE TypeOK /\ MidFile /\ GateInv /\ [Next]_vars => GateInv'
<1> SUFFICES ASSUME TypeOK, MidFile, GateInv, [Next]_vars PROVE GateInv'
  OBVIOUS
<1>0. UNCHANGED setting
  BY DEF Next, vars
<1> USE <1>0
<1>1. ASSUME NEW a \in Artifacts, NEW c \in Contents \cup {None}, AgentWrites(a, c)
      PROVE  GateInv'
  <2>1. \A h \in Gates : ~Under(h)
    BY <1>1 DEF AgentWrites, ParentFree, Pending, Under
  <2>2. \A h \in Gates : FileOK(h)' /\ ResultsOK(h)' /\ Covered(h)'
    BY <1>1, <2>1, OthersOK DEF AgentWrites, local
  <2> QED
    BY <1>1, <2>2 DEF AgentWrites, local, GateInv, OneCall, Under, OverWhenAnswered,
       ExportsAreVetted, EvidenceMatches, Loadable, Stringify
<1>2. ASSUME NEW g \in Gates, NEW request \in Requests, StartGate(g, request)
      PROVE  GateInv'
  <2>1. \A h \in Gates : ~Under(h)
    BY <1>2 DEF StartGate, ParentFree, Pending, Under
  <2>2. \A h \in Gates \ {g} : FileOK(h)' /\ ResultsOK(h)' /\ Covered(h)'
    BY <1>2, <2>1, OthersOK DEF StartGate, TypeOK
  <2>3. at[g] = 1 /\ (\A b \in Artifacts : entries[g][b] = None)
    BY <1>2 DEF StartGate, GateInv, Covered
  <2>4. FileOK(g)' /\ ResultsOK(g)' /\ Covered(g)'
    BY <1>2, <2>3 DEF StartGate, FileOK, ResultsOK, Covered, TypeOK
  <2>5. OneCall'
    BY <1>2, <2>1 DEF StartGate, OneCall, Under, TypeOK
  <2>6. OverWhenAnswered'
    BY <1>2 DEF StartGate, GateInv, OverWhenAnswered, TypeOK
  <2>7. ExportsAreVetted' /\ EvidenceMatches'
    BY <1>2 DEF StartGate, files, GateInv, ExportsAreVetted, EvidenceMatches, Loadable, Stringify
  <2> QED
    BY <2>2, <2>4, <2>5, <2>6, <2>7 DEF GateInv
<1>3. ASSUME NEW g \in Gates, GateStep(g) \/ BreakOff(g) PROVE GateInv'
  BY <1>3, GateStepOK
<1>4. CASE Done \/ UNCHANGED vars
  BY <1>4 DEF Done, vars, GateInv, OneCall, OverWhenAnswered, FileOK, ResultsOK, Covered,
     Under, AtFile, Current, ExportsAreVetted, EvidenceMatches, Loadable, Stringify
<1> QED
  BY <1>1, <1>2, <1>3, <1>4 DEF Next

LEMMA GateInvariant == ASSUME ~Parallel PROVE Spec => [](TypeOK /\ MidFile /\ GateInv)
<1>1. Init => GateInv
  BY GateAssumption DEF Init, GateInv, OneCall, OverWhenAnswered, FileOK, ResultsOK, Covered,
     Under, ExportsAreVetted, EvidenceMatches
<1>2. TypeOK /\ MidFile /\ GateInv /\ [Next]_vars => GateInv'
  BY GateInvStep
<1> QED
  BY <1>1, <1>2, Typed, PTL DEF Spec

(* A parent that makes one call at a time never finds a file in the clean    *)
(* directory that a check refuses.                                           *)
THEOREM ExportsVetted == ASSUME ~Parallel PROVE Spec => []ExportsAreVetted
<1>1. GateInv => ExportsAreVetted
  BY DEF GateInv
<1> QED
  BY <1>1, GateInvariant, PTL

(* Then the hashes of a passed entry belong together. *)
COROLLARY EvidenceWithOneCall == ASSUME ~Parallel PROVE Spec => []EvidenceMatches
<1>1. GateInv => EvidenceMatches
  BY DEF GateInv
<1> QED
  BY <1>1, GateInvariant, PTL

-----------------------------------------------------------------------------
(* Agents and gate calls beside each other.                                  *)

(* From the sanitizer's reading of a raw file to the hashes of the entry     *)
(* nobody but the call itself (each of its steps there moves pc[g]) changes  *)
(* the raw file, and from its own write of the clean file on nobody changes  *)
(* that one.  A workbook may still change between the checks of the file as  *)
(* a whole and sanitize_xlsx, which reads it again.                          *)
NoRace ==
  \A g \in Gates : pc'[g] = pc[g] =>
    /\ pc[g] \in {"write", "hash"} => raw'[Current(g)] = raw[Current(g)]
    /\ pc[g] = "hash" => clean'[Current(g)] = clean[Current(g)]

(* What a call between the reading and the hashes knows of its file. *)
ReadOK(g) == LET a == Current(g) IN
  /\ pc[g] \in {"write", "hash"} => held[g] = raw[a] /\ raw[a] # None
  /\ pc[g] = "hash" => clean[a] = held[g]

ReadsOK == EvidenceMatches /\ \A g \in Gates : ReadOK(g)

(* A step that is not of g leaves what g knows, if it does not race. *)
LEMMA ReadKept ==
  ASSUME NEW g \in Gates, ReadOK(g), NoRace, pc'[g] = pc[g], held'[g] = held[g],
         Current(g)' = Current(g)
  PROVE  ReadOK(g)'
BY DEF ReadOK, NoRace

(* A step of g itself, and what it records. *)
LEMMA ReadOwnStep ==
  ASSUME TypeOK, MidFile, ReadsOK, NEW g \in Gates, GateStep(g) \/ BreakOff(g)
  PROVE  /\ ReadOK(g)' /\ EvidenceMatches'
         /\ \A h \in Gates \ {g} :
              pc'[h] = pc[h] /\ held'[h] = held[h] /\ list'[h] = list[h] /\ at'[h] = at[h]
<1> DEFINE a == Current(g)
<1> USE GateAssumption DEF TypeOK, local, files
<1>0. AtFile(g) => a \in Artifacts
  BY CurrentType
<1>1. \A h \in Gates \ {g} :
        pc'[h] = pc[h] /\ held'[h] = held[h] /\ list'[h] = list[h] /\ at'[h] = at[h]
  BY DEF GateStep, Skip, Scan, Load, WriteClean, WriteFails, Hash, Reject, WriteManifest,
         BreakOff, Answer, Advance
<1>2. entries' = entries => EvidenceMatches'
  BY DEF ReadsOK, EvidenceMatches
<1>3. CASE Skip(g) \/ WriteManifest(g) \/ Answer(g)
  BY <1>1, <1>2, <1>3 DEF Skip, WriteManifest, Answer, ReadOK
<1>4. CASE Scan(g)
  BY <1>0, <1>1, <1>2, <1>4 DEF Scan, ReadOK, Checked, Current
<1>5. CASE Load(g)
  BY <1>0, <1>1, <1>2, <1>5 DEF Load, MidFile, ReadOK, Current
<1>6. CASE WriteClean(g)
  <2>1. a \in Artifacts /\ held[g] = raw[a] /\ raw[a] # None
    BY <1>0, <1>6 DEF WriteClean, MidFile, ReadsOK, ReadOK
  <2>2. ReadOK(g)'
    BY <1>6, <2>1 DEF WriteClean, ReadOK, Current
  <2> QED
    BY <1>1, <1>2, <1>6, <2>2 DEF WriteClean
<1>7. CASE WriteFails(g) \/ BreakOff(g)
  BY <1>1, <1>2, <1>7 DEF WriteFails, BreakOff, AfterFailure, ReadOK
<1>8. CASE Hash(g)
  <2>0. PICK f \in Artifacts : f = a /\ clean[f] = raw[f] /\ raw[f] # None
    BY <1>0, <1>8 DEF Hash, MidFile, ReadsOK, ReadOK
  <2>1. PICK e \in EntryRecord :
          e.clean = e.raw /\ entries' = [entries EXCEPT ![g][f] = e] /\ pc'[g] = "scan"
    <3> DEFINE st == IF Changed(a, held[g]) THEN "sanitized" ELSE "pass"
    <3>1. entries' = [entries EXCEPT ![g][f] = Entry(st, raw[f], clean[f])] /\ pc'[g] = "scan"
      BY <1>8, <2>0 DEF Hash
    <3>2. Entry(st, raw[f], clean[f]) \in EntryRecord
      BY <2>0, EntryType
    <3>3. Entry(st, raw[f], clean[f]).clean = Entry(st, raw[f], clean[f]).raw
      BY <2>0 DEF Entry
    <3> HIDE DEF st
    <3> QED
      BY <3>1, <3>2, <3>3
  <2>2. EvidenceMatches'
    BY <2>1, Recorded DEF ReadsOK, EvidenceMatches
  <2> QED
    BY <1>1, <2>1, <2>2 DEF ReadOK
<1>9. CASE Reject(g)
  <2>0. PICK f \in Artifacts : f = a
    BY <1>0, <1>9 DEF Reject, MidFile
  <2>1. PICK e \in EntryRecord :
          e.status = "rejected" /\ entries' = [entries EXCEPT ![g][f] = e] /\ pc'[g] = "scan"
    <3>1. entries' = [entries EXCEPT ![g][f] = Entry("rejected", raw[f], None)] /\ pc'[g] = "scan"
      BY <1>9, <2>0 DEF Reject
    <3>2. Entry("rejected", raw[f], None) \in EntryRecord
      BY <2>0, EntryType
    <3>3. Entry("rejected", raw[f], None).status = "rejected"
      BY DEF Entry
    <3> QED
      BY <3>1, <3>2, <3>3
  <2>2. EvidenceMatches'
    BY <2>1, Recorded DEF ReadsOK, EvidenceMatches, PassLike
  <2> QED
    BY <1>1, <2>1, <2>2 DEF ReadOK
<1> QED
  BY <1>3, <1>4, <1>5, <1>6, <1>7, <1>8, <1>9 DEF GateStep

LEMMA ReadsStep ==
  TypeOK /\ MidFile /\ ReadsOK /\ [Next]_vars /\ [NoRace]_vars => ReadsOK'
<1> SUFFICES ASSUME TypeOK, MidFile, ReadsOK, [Next]_vars, [NoRace]_vars PROVE ReadsOK'
  OBVIOUS
<1>1. CASE UNCHANGED vars
  BY <1>1 DEF vars, ReadsOK, ReadOK, EvidenceMatches, Current
<1>2. CASE vars' # vars /\ NoRace
  <2>1. ASSUME NEW b \in Artifacts, NEW c \in Contents \cup {None}, AgentWrites(b, c)
        PROVE  ReadsOK'
    <3>1. \A h \in Gates : ReadOK(h)'
      BY <1>2, <2>1, ReadKept DEF AgentWrites, local, ReadsOK, Current
    <3> QED
      BY <2>1, <3>1 DEF AgentWrites, ReadsOK, EvidenceMatches
  <2>2. ASSUME NEW g \in Gates, NEW request \in Requests, StartGate(g, request)
        PROVE  ReadsOK'
    <3>1. \A h \in Gates \ {g} : ReadOK(h)'
      BY <1>2, <2>2, ReadKept DEF StartGate, ReadsOK, Current, TypeOK
    <3>2. ReadOK(g)'
      BY <2>2 DEF StartGate, ReadOK, TypeOK
    <3> QED
      BY <2>2, <3>1, <3>2 DEF StartGate, ReadsOK, EvidenceMatches
  <2>3. ASSUME NEW g \in Gates, GateStep(g) \/ BreakOff(g) PROVE ReadsOK'
    <3>1. \A h \in Gates \ {g} : ReadOK(h)'
      BY <1>2, <2>3, ReadOwnStep, ReadKept DEF ReadsOK, Current
    <3> QED
      BY <2>3, <3>1, ReadOwnStep DEF ReadsOK
  <2> QED
    BY <1>1, <1>2, <2>1, <2>2, <2>3 DEF Next, Done
<1> QED
  BY <1>1, <1>2

(* Beside running agents and other gate calls, with any parent, the hashes   *)
(* of a passed entry belong together in every run without a race at a file,  *)
(* whatever fails or is killed: the two readings of the raw file (the        *)
(* sanitizer's and pass_result's) and the two of the clean file (written,    *)
(* hashed) are the only way to record hashes of two contents.                *)
THEOREM EvidenceSound == Spec /\ [][NoRace]_vars => []EvidenceMatches
<1>1. Init => ReadsOK
  BY DEF Init, ReadsOK, ReadOK, EvidenceMatches
<1>2. ReadsOK => EvidenceMatches
  BY DEF ReadsOK
<1> QED
  BY <1>1, <1>2, ReadsStep, Typed, PTL DEF Spec

(* The answer to a call is about that call. *)
LEMMA OwnStep ==
  TypeOK /\ GateInv /\ AnswersOwnRequest /\ [Next]_vars => AnswersOwnRequest'
<1> SUFFICES ASSUME TypeOK, GateInv, AnswersOwnRequest, [Next]_vars
             PROVE  AnswersOwnRequest'
  OBVIOUS
<1>1. CASE UNCHANGED answer
  BY <1>1 DEF AnswersOwnRequest
<1>2. ASSUME NEW g \in Gates, Answer(g) PROVE AnswersOwnRequest'
  <2>1. answer' = [answer EXCEPT ![g] = Reply(g)]
    BY <1>2 DEF Answer
  <2>2. Reply(g) \in Gates => Reply(g) = g
    BY <1>2, GateAssumption DEF Answer, Reply, GateInv, Covered, Under
  <2> QED
    BY <2>1, <2>2 DEF AnswersOwnRequest, TypeOK
<1> QED
  BY <1>1, <1>2 DEF Next, GateStep, AgentWrites, StartGate, Skip, Scan, Load, WriteClean,
     WriteFails, Hash, Reject, WriteManifest, BreakOff, Done, vars

(* A parent that makes one call at a time gets the manifest of its own call  *)
(* or an error, whatever broke off before.                                   *)
THEOREM AnswersAreOwn == ASSUME ~Parallel PROVE Spec => []AnswersOwnRequest
<1>1. Init => AnswersOwnRequest
  BY GateAssumption DEF Init, AnswersOwnRequest
<1> QED
  BY <1>1, OwnStep, GateInvariant, PTL DEF Spec

(* What a step that answers with a pass has seen. *)
LEMMA PassStep ==
  ASSUME TypeOK, GateInv, [Next]_vars, NEW g \in Gates, Pass(g),
         NEW i \in DOMAIN list[g]
  PROVE  raw[list[g][i]] # None /\ clean[list[g][i]] = raw[list[g][i]]
<1>1. Answer(g)
  <2>1. answer'[g] # answer[g]
    BY GateAssumption DEF Pass
  <2>2. PICK h \in Gates : Answer(h)
    BY <2>1 DEF Next, GateStep, AgentWrites, StartGate, Skip, Scan, Load, WriteClean,
       WriteFails, Hash, Reject, WriteManifest, BreakOff, Done, vars
  <2>3. h = g
    BY <2>1, <2>2 DEF Answer, TypeOK
  <2> QED
    BY <2>2, <2>3
<1>2. answer'[g] = g /\ Under(g) /\ pc[g] = "written"
  BY <1>1, GateAssumption DEF Answer, Reply, GateInv, Covered, Under, Pass, TypeOK
<1>3. Passed(g) /\ ~AtFile(g)
  BY <1>2 DEF Pass, GateInv, Covered
<1>4. PICK b \in Artifacts : b = list[g][i] /\ entries[g][b] # None
  <2>1. i \in 1 .. Len(list[g]) /\ list[g][i] \in Artifacts
    BY DEF TypeOK
  <2>2. i < at[g]
    BY <1>3, <2>1 DEF AtFile, TypeOK
  <2> QED
    BY <2>1, <2>2 DEF GateInv, Covered
<1>5. entries[g][b].status \in PassLike
  BY <1>3, <1>4 DEF Passed
<1> QED
  BY <1>2, <1>4, <1>5 DEF GateInv, ResultsOK

(* A parent that makes one call at a time is told that a gate passed only    *)
(* when every file of its list is in the clean directory as the sanitized    *)
(* form of the raw file there is at that moment.                             *)
THEOREM PassesAreCurrent == ASSUME ~Parallel PROVE Spec => PassIsCurrent
<1>1. TypeOK /\ GateInv /\ [Next]_vars =>
        [\A g \in Gates : Pass(g) =>
           \A i \in DOMAIN list[g] : LET a == list[g][i] IN
             raw[a] # None /\ clean[a] = raw[a]]_vars
  BY PassStep
<1> QED
  BY <1>1, GateInvariant, PTL DEF Spec, PassIsCurrent

-----------------------------------------------------------------------------
(* What the call under way has rejected is in quarantine as it was rejected: *)
(* a later file of the list is another one, since a repeated one is skipped. *)

QuarantineInv ==
  \A g \in Gates, a \in Artifacts :
    Under(g) /\ Rejects(g, a) /\ entries[g][a].raw # None =>
      quarantine[a] = entries[g][a].raw

LEMMA RejectKeepsQuarantine ==
  ASSUME TypeOK, MidFile, GateInv, QuarantineInv, NEW g \in Gates, Reject(g)
  PROVE  QuarantineInv'
<1>1. PICK f \in Artifacts :
        f = Current(g) /\ AtFile(g) /\ entries[g][f] = None /\ Under(g)
  <2>1. AtFile(g) /\ FileOK(g) /\ Under(g)
    BY DEF Reject, MidFile, GateInv, OverWhenAnswered, Under
  <2> QED
    BY <2>1, CurrentType DEF Reject, FileOK
<1>2. PICK e \in EntryRecord :
        e.raw = raw[f] /\ entries' = [entries EXCEPT ![g][f] = e]
  <2>1. Entry("rejected", raw[f], None) \in EntryRecord
    BY EntryType DEF TypeOK
  <2>2. Entry("rejected", raw[f], None).raw = raw[f]
    BY DEF Entry
  <2> QED
    BY <1>1, <2>1, <2>2 DEF Reject
<1>3. /\ entries'[g][f] = e /\ e # None
      /\ \A h \in Gates, b \in Artifacts : h # g \/ b # f => entries'[h][b] = entries[h][b]
      /\ \A h \in Gates \ {g} : entries'[h] = entries[h]
  BY <1>2, Recorded
<1>4. /\ raw[f] # None => quarantine'[f] = raw[f]
      /\ \A b \in Artifacts \ {f} : quarantine'[b] = quarantine[b]
  BY <1>1 DEF Reject, Quarantined, TypeOK
<1>5. \A h \in Gates \ {g} : ~ Under(h)'
  BY <1>1 DEF Reject, GateInv, OneCall, Under, TypeOK
<1>6. ASSUME NEW a \in Artifacts, Rejects(g, a)', entries'[g][a].raw # None
      PROVE  quarantine'[a] = entries'[g][a].raw
  <2>1. CASE a = f
    BY <1>2, <1>3, <1>4, <1>6, <2>1
  <2>2. CASE a # f
    BY <1>1, <1>3, <1>4, <1>6, <2>2 DEF QuarantineInv, Rejects
  <2> QED
    BY <2>1, <2>2
<1> QED
  BY <1>5, <1>6 DEF QuarantineInv

LEMMA QuarantineStep ==
  ASSUME TypeOK, MidFile, GateInv, QuarantineInv, [Next]_vars PROVE QuarantineInv'
<1>1. ASSUME UNCHANGED <<quarantine, entries>>, \A g \in Gates : Under(g)' => Under(g)
      PROVE  QuarantineInv'
  BY <1>1 DEF QuarantineInv, Rejects
<1>2. ASSUME NEW g \in Gates, NEW request \in Requests, StartGate(g, request)
      PROVE  QuarantineInv'
  <2>1. /\ UNCHANGED <<quarantine, entries>> /\ \A a \in Artifacts : entries[g][a] = None
        /\ \A h \in Gates \ {g} : Under(h)' => Under(h)
    BY <1>2 DEF StartGate, files, GateInv, Covered, Under, TypeOK
  <2> QED
    BY <2>1 DEF QuarantineInv, Rejects
<1>3. ASSUME NEW g \in Gates, Hash(g) PROVE QuarantineInv'
  <2>1. UNCHANGED <<quarantine, answer>> /\ (\A h \in Gates : Under(h)' => Under(h))
    BY <1>3 DEF Hash, files, Under, AfterFailure, TypeOK
  <2>2. CASE UNCHANGED entries
    BY <1>1, <2>1, <2>2
  <2>3. CASE entries' # entries
    <3>1. PICK f \in Artifacts : f = Current(g)
      BY <1>3, CurrentType DEF Hash, MidFile
    <3>2. PICK s \in PassLike : entries' = [entries EXCEPT ![g][f] = Entry(s, raw[f], clean[f])]
      BY <1>3, <2>3, <3>1 DEF Hash, PassLike
    <3>3. PICK e \in EntryRecord : e.status = s /\ entries' = [entries EXCEPT ![g][f] = e]
      <4>1. Entry(s, raw[f], clean[f]) \in EntryRecord
        BY EntryType DEF PassLike, TypeOK
      <4>2. Entry(s, raw[f], clean[f]).status = s
        BY DEF Entry
      <4> QED
        BY <3>2, <4>1, <4>2
    <3>4. /\ entries'[g][f] = e /\ e # None
          /\ \A h \in Gates, b \in Artifacts : h # g \/ b # f => entries'[h][b] = entries[h][b]
          /\ \A h \in Gates \ {g} : entries'[h] = entries[h]
      BY <3>3, Recorded
    <3> QED
      BY <2>1, <3>3, <3>4 DEF QuarantineInv, Rejects, PassLike
  <2> QED
    BY <2>2, <2>3
<1>4. ASSUME NEW g \in Gates, GateStep(g) \/ BreakOff(g) PROVE QuarantineInv'
  <2>1. CASE Hash(g) \/ Reject(g)
    BY <1>3, <2>1, RejectKeepsQuarantine
  <2>2. CASE ~ (Hash(g) \/ Reject(g))
    <3>1. UNCHANGED <<quarantine, entries>>
      BY <1>4, <2>2 DEF GateStep, Skip, Scan, Load, WriteClean, WriteFails, WriteManifest,
         BreakOff, Answer, files
    <3>2. \A h \in Gates : Under(h)' => Under(h)
      BY <1>4, <2>2, GateAssumption DEF GateStep, Skip, Scan, Load, WriteClean, WriteFails,
         WriteManifest, BreakOff, Answer, Under, Running, TypeOK
    <3> QED
      BY <1>1, <3>1, <3>2
  <2> QED
    BY <2>1, <2>2
<1>5. ASSUME NEW a \in Artifacts, NEW c \in Contents \cup {None}, AgentWrites(a, c)
      PROVE  QuarantineInv'
  BY <1>1, <1>5 DEF AgentWrites, Under
<1>6. CASE Done \/ UNCHANGED vars
  BY <1>1, <1>6 DEF Done, vars, Under
<1> QED
  BY <1>2, <1>4, <1>5, <1>6 DEF Next

(* A parent that makes one call at a time finds every file that a manifest   *)
(* rejects in quarantine, with the content it was rejected for, when the     *)
(* manifest is written.                                                      *)
THEOREM RejectedAreQuarantined == ASSUME ~Parallel PROVE Spec => RejectedIsQuarantined
<1>1. Init => QuarantineInv
  BY DEF Init, QuarantineInv, Under
<1>2. TypeOK /\ MidFile /\ GateInv /\ QuarantineInv /\ [Next]_vars => QuarantineInv'
  BY QuarantineStep
<1>3. TypeOK /\ GateInv /\ QuarantineInv /\ [Next]_vars =>
        [\A g \in Gates, a \in Artifacts :
           /\ manifest' = g /\ manifest # g
           /\ Rejects(g, a) /\ entries[g][a].raw # None
           => quarantine[a] = entries[g][a].raw]_vars
  <2> SUFFICES ASSUME TypeOK, GateInv, QuarantineInv, [Next]_vars,
                      NEW g \in Gates, NEW a \in Artifacts, manifest' = g, manifest # g,
                      Rejects(g, a), entries[g][a].raw # None
               PROVE  quarantine[a] = entries[g][a].raw
    OBVIOUS
  <2>1. PICK h \in Gates : WriteManifest(h) \/ BreakOff(h)
    BY DEF Next, GateStep, AgentWrites, StartGate, Skip, Scan, Load, WriteClean, WriteFails,
       Hash, Reject, Answer, Done, vars
  <2>2. WriteManifest(g)
    BY <2>1, GateAssumption DEF WriteManifest, BreakOff
  <2>3. Under(g)
    BY <2>2 DEF WriteManifest, GateInv, OverWhenAnswered, Under
  <2> QED
    BY <2>3 DEF QuarantineInv
<1> QED
  BY <1>1, <1>2, <1>3, GateInvariant, PTL DEF Spec, RejectedIsQuarantined

-----------------------------------------------------------------------------
(* With one call at a time or several, a call comes to its end: a file costs *)
(* at most six steps, whatever is written to it meanwhile.                   *)
FilesLeft(g) == Len(list[g]) + 1 - at[g]
StageWeight == [idle |-> 3, scan |-> 2, load |-> 1, write |-> 0, hash |-> -1, reject |-> -2]
GateWork(g) ==
  IF pc[g] \in {"written", "broken"} THEN (IF answer[g] = None THEN 1 ELSE 0)
  ELSE 6 * FilesLeft(g) + StageWeight[pc[g]]

InList == \A g \in Gates :
  at[g] <= Len(list[g]) + 1 /\ (pc[g] = "idle" => at[g] = 1)

(* The sanitizer or an error may decide where a step leads, never that the   *)
(* call has as much to do as before; and no other step gives a call work.    *)
CallGoesOn ==
  [][\A g \in Gates :
       /\ GateStep(g) \/ BreakOff(g) => GateWork(g)' < GateWork(g)
       /\ pc[g] # "idle" => GateWork(g)' <= GateWork(g)]_vars

LEMMA Idle ==
  ASSUME UNCHANGED <<pc, list, at, answer>>, NEW g \in Gates PROVE GateWork(g)' = GateWork(g)
BY DEF GateWork, FilesLeft

LEMMA WorkLowered ==
  ASSUME TypeOK, MidFile, InList, NEW g \in Gates, GateStep(g) \/ BreakOff(g)
  PROVE  /\ GateWork(g)' \in Int /\ GateWork(g)' < GateWork(g)
         /\ at'[g] <= Len(list'[g]) + 1 /\ pc'[g] # "idle"
         /\ \A h \in Gates \ {g} : GateWork(h)' = GateWork(h)
         /\ \A h \in Gates \ {g} : UNCHANGED <<at[h], list[h], pc[h]>>
<1> USE DEF TypeOK, files, local
<1> DEFINE n == Len(list[g])
<1>1. list' = list /\ n \in Nat /\ at[g] \in Nat /\ at[g] <= n + 1
  BY DEF InList, GateStep, Skip, Scan, Load, WriteClean, WriteFails, Hash, Reject,
         WriteManifest, Answer, BreakOff
<1>2. /\ AtFile(g) <=> at[g] <= n
      /\ pc[g] \in {"load", "write", "hash", "reject"} => at[g] <= n
  BY DEF AtFile, MidFile
<1>3. \A h \in Gates \ {g} : pc'[h] = pc[h] /\ at'[h] = at[h] /\ answer'[h] = answer[h]
  BY DEF GateStep, Skip, Scan, Load, WriteClean, WriteFails, Hash, Reject,
         WriteManifest, Answer, BreakOff, Advance
<1>4. \A h \in Gates \ {g} : GateWork(h)' = GateWork(h)
  BY <1>1, <1>3 DEF GateWork, FilesLeft
<1>5. FilesLeft(g) = n + 1 - at[g] /\ FilesLeft(g)' = n + 1 - at'[g]
  BY <1>1 DEF FilesLeft
<1>6. (pc[g] = "scan" /\ at[g] <= n /\ pc'[g] = "scan" /\ at'[g] = at[g] + 1)
      \/ (pc[g] = "scan" /\ at[g] <= n /\ at' = at /\ pc'[g] \in {"load", "write", "reject"})
      \/ (pc[g] = "load" /\ at' = at /\ pc'[g] \in {"write", "reject"})
      \/ (pc[g] = "write" /\ at' = at /\ pc'[g] \in {"hash", "reject"})
      \/ (pc[g] = "hash" /\ at' = at /\ pc'[g] = "reject")
      \/ (pc[g] \in {"hash", "reject"} /\ at'[g] = at[g] + 1 /\ pc'[g] = "scan")
      \/ (pc[g] \in Running /\ at' = at /\ pc'[g] \in {"written", "broken"})
      \/ (pc[g] \in {"written", "broken"} /\ at' = at /\ pc' = pc
          /\ answer[g] = None /\ answer'[g] # None)
  <2>1. CASE Skip(g)
    BY <1>2, <2>1 DEF Skip, Advance
  <2>2. CASE Scan(g)
    BY <1>2, <2>2 DEF Scan
  <2>3. CASE Load(g)
    BY <2>3 DEF Load
  <2>4. CASE WriteClean(g) \/ WriteFails(g)
    BY <2>4 DEF WriteClean, WriteFails, AfterFailure
  <2>5. CASE Hash(g)
    BY <2>5 DEF Hash, Advance, AfterFailure
  <2>6. CASE Reject(g)
    BY <2>6 DEF Reject, Advance
  <2>7. CASE WriteManifest(g) \/ BreakOff(g)
    BY <2>7 DEF WriteManifest, BreakOff, Running
  <2>8. CASE Answer(g)
    <3>1. Reply(g) # None
      BY GateAssumption DEF Reply
    <3> QED
      BY <2>8, <3>1 DEF Answer
  <2> QED
    BY <2>1, <2>2, <2>3, <2>4, <2>5, <2>6, <2>7, <2>8 DEF GateStep
<1>a. at'[g] \in Nat /\ (pc'[g] \in {"load", "write", "hash", "reject"} => at'[g] <= n)
  BY <1>1, <1>2, <1>6
<1>7. GateWork(g)' \in Int /\ GateWork(g)' < GateWork(g)
  <2>1. /\ StageWeight["scan"] = 2 /\ StageWeight["load"] = 1 /\ StageWeight["write"] = 0
        /\ StageWeight["hash"] = -1 /\ StageWeight["reject"] = -2
    BY DEF StageWeight
  <2>2. /\ pc[g] = "scan" => GateWork(g) = 6 * (n + 1 - at[g]) + 2
        /\ pc[g] = "load" => GateWork(g) = 6 * (n + 1 - at[g]) + 1
        /\ pc[g] = "write" => GateWork(g) = 6 * (n + 1 - at[g])
        /\ pc[g] = "hash" => GateWork(g) = 6 * (n + 1 - at[g]) - 1
        /\ pc[g] = "reject" => GateWork(g) = 6 * (n + 1 - at[g]) - 2
        /\ pc[g] \in {"written", "broken"} /\ answer[g] = None => GateWork(g) = 1
    BY <1>1, <1>5, <2>1 DEF GateWork
  <2>3. /\ pc'[g] = "scan" => GateWork(g)' = 6 * (n + 1 - at'[g]) + 2
        /\ pc'[g] = "load" => GateWork(g)' = 6 * (n + 1 - at'[g]) + 1
        /\ pc'[g] = "write" => GateWork(g)' = 6 * (n + 1 - at'[g])
        /\ pc'[g] = "hash" => GateWork(g)' = 6 * (n + 1 - at'[g]) - 1
        /\ pc'[g] = "reject" => GateWork(g)' = 6 * (n + 1 - at'[g]) - 2
        /\ pc'[g] \in {"written", "broken"} => GateWork(g)' \in {0, 1}
        /\ pc'[g] \in {"written", "broken"} /\ answer'[g] # None => GateWork(g)' = 0
    <3>1. GateWork(g)' = IF pc'[g] \in {"written", "broken"}
                         THEN (IF answer'[g] = None THEN 1 ELSE 0)
                         ELSE 6 * (n + 1 - at'[g]) + StageWeight[pc'[g]]
      BY <1>5 DEF GateWork, StageWeight
    <3> HIDE DEF n
    <3>2. at'[g] \in Nat /\ n \in Nat
      BY <1>1, <1>a
    <3>3. /\ pc'[g] = "scan" => GateWork(g)' = 6 * (n + 1 - at'[g]) + 2
          /\ pc'[g] = "load" => GateWork(g)' = 6 * (n + 1 - at'[g]) + 1
          /\ pc'[g] = "write" => GateWork(g)' = 6 * (n + 1 - at'[g])
      BY <2>1, <3>1, <3>2
    <3>4. /\ pc'[g] = "hash" => GateWork(g)' = 6 * (n + 1 - at'[g]) - 1
          /\ pc'[g] = "reject" => GateWork(g)' = 6 * (n + 1 - at'[g]) - 2
      BY <2>1, <3>1, <3>2
    <3>5. /\ pc'[g] \in {"written", "broken"} => GateWork(g)' \in {0, 1}
          /\ pc'[g] \in {"written", "broken"} /\ answer'[g] # None => GateWork(g)' = 0
      BY <3>1
    <3> QED
      BY <3>3, <3>4, <3>5
  <2> QED
    <3> HIDE DEF n
    <3>1. at[g] \in Nat /\ at'[g] \in Nat /\ n \in Nat
      BY <1>1, <1>a
    <3>2. /\ pc'[g] \in {"scan", "load", "write", "hash", "reject", "written", "broken"}
          /\ pc'[g] \in {"written", "broken"} \/ pc[g] \in Running
      BY <1>6 DEF Running
    <3>3. GateWork(g)' \in Int
      BY <2>3, <3>1, <3>2
    <3>4. CASE pc'[g] \in {"written", "broken"}
      BY <1>1, <1>2, <1>6, <2>2, <2>3, <3>1, <3>4 DEF Running
    <3>5. CASE pc'[g] \notin {"written", "broken"}
      <4>a. at'[g] = at[g] + 1 => 6 * (n + 1 - at'[g]) = 6 * (n + 1 - at[g]) - 6
        BY <3>1
      <4>b. 6 * (n + 1 - at[g]) \in Int
        BY <3>1
      <4>1. CASE pc[g] = "scan"
        <5>1. CASE at'[g] = at[g] + 1 /\ pc'[g] = "scan"
          BY <2>2, <2>3, <4>1, <4>a, <4>b, <5>1
        <5>2. CASE at' = at /\ pc'[g] \in {"load", "write", "reject"}
          BY <2>2, <2>3, <4>1, <4>b, <5>2
        <5> QED
          BY <1>6, <3>5, <4>1, <5>1, <5>2
      <4>2. CASE pc[g] = "load"
        BY <1>6, <2>2, <2>3, <3>1, <3>5, <4>2
      <4>3. CASE pc[g] = "write"
        BY <1>6, <2>2, <2>3, <3>1, <3>5, <4>3
      <4>4. CASE pc[g] = "hash" \/ pc[g] = "reject"
        <5>1. CASE at'[g] = at[g] + 1 /\ pc'[g] = "scan"
          BY <2>2, <2>3, <4>4, <4>a, <4>b, <5>1
        <5>2. CASE pc[g] = "hash" /\ at' = at /\ pc'[g] = "reject"
          BY <2>2, <2>3, <4>b, <5>2
        <5> QED
          BY <1>6, <3>5, <4>4, <5>1, <5>2
      <4> QED
        BY <3>2, <3>5, <4>1, <4>2, <4>3, <4>4 DEF Running
    <3> QED
      BY <3>3, <3>4, <3>5
<1>8. at'[g] <= Len(list'[g]) + 1 /\ pc'[g] # "idle"
  BY <1>1, <1>2, <1>6 DEF Running
<1> QED
  BY <1>1, <1>3, <1>4, <1>7, <1>8

LEMMA InListStep == TypeOK /\ MidFile /\ InList /\ [Next]_vars => InList'
<1> SUFFICES ASSUME TypeOK, MidFile, InList, [Next]_vars PROVE InList'
  OBVIOUS
<1>1. ASSUME NEW g \in Gates, NEW request \in Requests, StartGate(g, request) PROVE InList'
  <2>1. Len(request) \in Nat
    BY GateAssumption
  <2> QED
    BY <1>1, <2>1 DEF StartGate, InList, TypeOK
<1>2. ASSUME NEW g \in Gates, GateStep(g) \/ BreakOff(g) PROVE InList'
  BY <1>2, WorkLowered DEF InList
<1>3. CASE UNCHANGED <<list, at, pc>>
  BY <1>3 DEF InList
<1> QED
  BY <1>1, <1>2, <1>3 DEF Next, AgentWrites, Done, vars, local

(* A gate call never goes back, whatever agents and other calls write, so it *)
(* takes at most six steps for each file: the safety half of GateAnswers.    *)
THEOREM CallsGoOn == Spec => CallGoesOn /\ [](\A g \in Gates : GateWork(g) \in Nat)
<1>1. Init => InList
  BY DEF Init, InList
<1>2. TypeOK /\ MidFile /\ InList => \A g \in Gates : GateWork(g) \in Nat
  BY DEF TypeOK, MidFile, InList, AtFile, GateWork, FilesLeft, StageWeight, Running
<1>3. TypeOK /\ MidFile /\ InList /\ [Next]_vars =>
        [\A g \in Gates :
           /\ GateStep(g) \/ BreakOff(g) => GateWork(g)' < GateWork(g)
           /\ pc[g] # "idle" => GateWork(g)' <= GateWork(g)]_vars
  <2> SUFFICES ASSUME TypeOK, MidFile, InList, Next, NEW g \in Gates
               PROVE  /\ GateStep(g) \/ BreakOff(g) => GateWork(g)' < GateWork(g)
                      /\ pc[g] # "idle" => GateWork(g)' <= GateWork(g)
    BY DEF vars
  <2>1. GateStep(g) \/ BreakOff(g) => GateWork(g)' < GateWork(g)
    BY WorkLowered
  <2>2. ASSUME pc[g] # "idle" PROVE GateWork(g)' <= GateWork(g)
    <3>0. GateWork(g) \in Nat
      BY <1>2
    <3>1. ASSUME NEW h \in Gates, NEW request \in Requests, StartGate(h, request)
          PROVE GateWork(g)' = GateWork(g)
      BY <2>2, <3>1 DEF StartGate, GateWork, FilesLeft, TypeOK
    <3>2. ASSUME NEW h \in Gates, GateStep(h) \/ BreakOff(h)
          PROVE GateWork(g)' <= GateWork(g)
      <4>1. CASE h = g
        <5>1. GateStep(g) \/ BreakOff(g)
          BY <3>2, <4>1
        <5> QED
          BY <3>0, <5>1, WorkLowered
      <4>2. CASE h # g
        BY <3>0, <3>2, <4>2, WorkLowered
      <4> QED
        BY <4>1, <4>2
    <3>3. CASE UNCHANGED <<pc, list, at, answer>>
      BY <3>0, <3>3, Idle
    <3>4. ASSUME NEW b \in Artifacts, NEW c \in Contents \cup {None}, AgentWrites(b, c)
          PROVE  UNCHANGED <<pc, list, at, answer>>
      BY <3>4 DEF AgentWrites, local
    <3>5. Done => UNCHANGED <<pc, list, at, answer>>
      BY DEF Done, vars
    <3> QED
      BY <3>0, <3>1, <3>2, <3>3, <3>4, <3>5 DEF Next
  <2> QED
    BY <2>1, <2>2
<1> QED
  BY <1>1, <1>2, <1>3, InListStep, Typed, PTL DEF Spec, CallGoesOn
=============================================================================
