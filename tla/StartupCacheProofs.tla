--------------------------- MODULE StartupCacheProofs ---------------------------
(* The bundle of the start-up cache, whatever the shaders, the discs and the   *)
(* number of troubles are, and whenever the files change from outside.         *)
EXTENDS StartupCache, FiniteSetTheorems, TLAPS

------------------------------------------------------------------------------
(* Types *)

\* The types, in parts.
Files ==
    /\ resources \in [holds : Discs, stamp : 0 .. MaxTroubles]
    /\ source \in [Shaders -> {"none", "torn", "whole"}]
    /\ binary \in [Shaders -> {"none", "bad", "whole"}]
    /\ failed \subseteq Rejected
    /\ manifest # None => manifest \in [stamp : 0 .. MaxTroubles, names : (SUBSET Shaders) \ {{}}]
    /\ bundle # None => bundle.records \subseteq Shaders \X {"module", "rejected"} /\ bundle.records # {}
    /\ bundle # None => bundle.unseen \in BOOLEAN

Scanner ==
    /\ visited \subseteq Shaders /\ found \subseteq Shaders /\ Cardinality(writing) <= 1
    /\ scanned \in 0 .. MaxTroubles /\ partial \in BOOLEAN

Writer ==
    /\ done \subseteq paths /\ paths \subseteq Shaders /\ open \in BOOLEAN
    /\ records \subseteq done \X {"module", "rejected"} /\ (records # {} => open)

Memory ==
    /\ installed \in [Shaders -> Known] /\ warm \in BOOLEAN /\ unseen \in BOOLEAN
    /\ troubles \in 0 .. MaxTroubles

\* A manifest is renamed only if the scan found something, and every change of
\* the resources is one of the troubles.
Counted ==
    /\ pc = "rename" => found # {}
    /\ resources.stamp <= troubles

\* The types, as an inductive invariant.
TypeInv == TypeOK /\ Counted

\* What happens to the files from outside.
Outside == ChangeResources \/ \E s \in Shaders : RemoveSource(s) \/ SpoilBinary(s)

\* They are the type invariant.
LEMMA TypeParts == TypeOK <=> Files /\ Scanner /\ Writer /\ Memory
BY DEF TypeOK, Files, Scanner, Writer, Memory

\* What is being written is one file.
LEMMA OneFile ==
  /\ Cardinality({}) <= 1
  /\ \A s : Cardinality({s}) <= 1
<1>1. Cardinality({}) = 0
  BY FS_EmptySet
<1>2. \A s : Cardinality({s}) = 1
  BY FS_Singleton
<1>3. 0 <= 1 /\ 1 <= 1
  OBVIOUS
<1> QED BY <1>1, <1>2, <1>3

\* The steps that write no file.
LEMMA FileSteps ==
  ASSUME Next
  PROVE  \/ UNCHANGED disk
         \/ \E s \in Shaders : \/ ScanVisits(s) \/ Prepare(s) \/ GetShader(s)
                               \/ RemoveSource(s) \/ SpoilBinary(s)
         \/ ScanEnds \/ ManifestRenamed \/ Expand \/ SourceWritten \/ Publish
         \/ GetShaderContinues \/ ChangeResources
BY DEF Next, Program, Start, Load, Consume, Consumed, ConsumeFails, FallBack, Validate,
       LookAtResources, ScanStarts, Expanded, LookAtSources,
       Enumerate, Prepared, RecheckSources, RecheckResources, LookAtAll, Stop, ScanFails

\* The caches after a shader was compiled.
LEMMA Compiled ==
  ASSUME NEW s \in Shaders, NEW outcome, NEW kept, Produce(s, outcome, kept),
         binary \in [Shaders -> {"none", "bad", "whole"}], failed \subseteq Rejected
  PROVE  /\ binary' \in [Shaders -> {"none", "bad", "whole"}] /\ failed' \subseteq Rejected
         /\ kept => outcome = Outcome(s)
         /\ UNCHANGED troubles \/ Trouble
BY DEF Produce, Stored, Outcome, Smooth

\* The files keep their types.
LEMMA FilesPreserved ==
  ASSUME TypeInv, Next
  PROVE  Files'
<1> USE ShadersAssumption DEF TypeInv
<1>0. Files /\ Scanner /\ Writer /\ Memory
  BY TypeParts
<1>1. CASE UNCHANGED disk
  BY <1>0, <1>1 DEF disk, Files
<1>2. ASSUME NEW s \in Shaders, ScanVisits(s) PROVE Files'
  BY <1>0, <1>2 DEF ScanVisits, SaveSource, Write, Files
<1>3. ASSUME NEW s \in Shaders, Prepare(s) PROVE Files'
  <2>1. CASE source[s] = "whole"
    <3>1. PICK outcome \in Outcomes, kept \in BOOLEAN : Produce(s, outcome, kept)
      BY <1>3, <2>1 DEF Prepare
    <3> QED BY <1>0, <1>3, <3>1, Compiled DEF Prepare, Files
  <2>2. CASE source[s] # "whole"
    BY <1>0, <1>3, <2>2 DEF Prepare, Files
  <2> QED BY <2>1, <2>2
<1>4. ASSUME NEW s \in Shaders, GetShader(s) PROVE Files'
  <2>1. CASE source[s] = "none"
    BY <1>0, <1>4, <2>1 DEF GetShader, Files
  <2>2. CASE source[s] # "none"
    <3>1. PICK outcome \in Outcomes, kept \in BOOLEAN : Produce(s, outcome, kept)
      BY <1>4, <2>2 DEF GetShader, Resolve
    <3> QED BY <1>0, <1>4, <2>2, <3>1, Compiled DEF GetShader, Files
  <2> QED BY <2>1, <2>2
<1>5. ASSUME NEW s \in Shaders, RemoveSource(s) \/ SpoilBinary(s) PROVE Files'
  BY <1>0, <1>5 DEF RemoveSource, SpoilBinary, Files
<1>6. CASE ScanEnds \/ ManifestRenamed
  <2>1. CASE ScanEnds
    BY <1>0, <2>1 DEF ScanEnds, Files
  <2>2. CASE ManifestRenamed
    <3>1. /\ manifest' = [stamp |-> scanned, names |-> found]
          /\ UNCHANGED <<resources, source, binary, failed, bundle>>
      BY <2>2 DEF ManifestRenamed
    <3>2. scanned \in 0 .. MaxTroubles /\ found \in (SUBSET Shaders) \ {{}}
      <4>1. found # {}
        BY <2>2 DEF ManifestRenamed, Counted
      <4>2. found \in SUBSET Shaders /\ scanned \in 0 .. MaxTroubles
        BY <1>0 DEF Scanner
      <4> QED BY <4>1, <4>2
    <3> QED BY <1>0, <3>1, <3>2 DEF Files
  <2> QED BY <1>6, <2>1, <2>2
<1>7. CASE Expand \/ SourceWritten
  <2>1. source' \in [Shaders -> {"none", "torn", "whole"}]
    BY <1>0, <1>7 DEF Expand, SourceWritten, SaveSource, Write, Files, Derived
  <2> QED BY <1>0, <1>7, <2>1 DEF Expand, SourceWritten, Files
<1>8. CASE Publish
  <2>1. \/ bundle' = bundle
        \/ /\ bundle' = [snapshot |-> identity, records |-> records, unseen |-> unseen]
           /\ records # {}
    BY <1>8 DEF Publish, Smooth, Trouble
  <2>2. records \subseteq Shaders \X {"module", "rejected"} /\ unseen \in BOOLEAN
    BY <1>0 DEF Writer, Memory
  <2> QED BY <1>0, <1>8, <2>1, <2>2 DEF Publish, Files
<1>9. CASE GetShaderContinues
  <2>1. PICK s \in writing : source' = [source EXCEPT ![s] = "whole"] /\ Resolve(s)
    BY <1>9 DEF GetShaderContinues
  <2>2. PICK outcome \in Outcomes, kept \in BOOLEAN : Produce(s, outcome, kept)
    BY <2>1 DEF Resolve
  <2>3. /\ binary' \in [Shaders -> {"none", "bad", "whole"}]
        /\ failed' \subseteq Rejected
    BY <1>0, <2>2 DEF Produce, Stored, Files
  <2> QED BY <1>0, <1>9, <2>1, <2>3 DEF GetShaderContinues, Files
<1>10. CASE ChangeResources
  <2>1. resources.stamp + 1 \in 0 .. MaxTroubles
    BY <1>0, <1>10 DEF ChangeResources, Trouble, Files, Memory, Counted
  <2> QED BY <1>0, <1>10, <2>1 DEF ChangeResources, Files
<1> QED BY <1>1, <1>2, <1>3, <1>4, <1>5, <1>6, <1>7, <1>8, <1>9, <1>10, FileSteps

\* So do the scan's variables; at most one source is being written.
LEMMA ScannerPreserved ==
  ASSUME TypeInv, Next
  PROVE  Scanner'
<1> USE ShadersAssumption, OneFile DEF TypeInv
<1>0. Files /\ Scanner
  BY TypeParts
<1>1. \/ UNCHANGED scan
      \/ \E s \in Shaders : ScanVisits(s) \/ GetShader(s)
      \/ LookAtResources \/ ScanStarts \/ ScanEnds \/ ManifestRenamed \/ Expand \/ SourceWritten
      \/ ScanFails \/ GetShaderContinues \/ Stop
  BY DEF Next, Program, Start, Load, Consume, Consumed, ConsumeFails, FallBack, Validate,
         Expanded, LookAtSources, Enumerate, Prepare, Prepared,
         RecheckSources, RecheckResources, LookAtAll, Publish, ChangeResources, RemoveSource,
         SpoilBinary, Process
<1>2. CASE UNCHANGED scan
  BY <1>0, <1>2 DEF scan, Scanner
<1>3. ASSUME NEW s \in Shaders, ScanVisits(s) \/ GetShader(s) PROVE Scanner'
  BY <1>0, <1>3 DEF ScanVisits, GetShader, SaveSource, Write, Scanner
<1>4. CASE LookAtResources \/ ManifestRenamed \/ SourceWritten \/ GetShaderContinues
  <2>1. CASE LookAtResources
    BY <1>0, <2>1 DEF LookAtResources, Scanner
  <2>2. CASE ManifestRenamed
    BY <1>0, <2>2 DEF ManifestRenamed, Scanner
  <2>3. CASE SourceWritten \/ GetShaderContinues
    <3>1. writing' = {} /\ UNCHANGED <<scanned, visited, found, partial>>
      BY <2>3 DEF SourceWritten, GetShaderContinues
    <3> QED BY <1>0, <3>1 DEF Scanner
  <2> QED BY <1>4, <2>1, <2>2, <2>3
<1>5. CASE ScanStarts
  BY <1>0, <1>5 DEF ScanStarts, Files, Scanner
<1>6. CASE ScanEnds
  BY <1>0, <1>6 DEF ScanEnds, Scanner
<1>7. CASE Expand
  BY <1>0, <1>7 DEF Expand, SaveSource, Write, Scanner
<1>8. CASE ScanFails \/ Stop
  <2>1. /\ scanned' = 0 /\ visited' = {} /\ found' = {} /\ writing' = {}
        /\ partial' \in BOOLEAN
    BY <1>8 DEF ScanFails, Stop
  <2> QED BY <1>0, <2>1 DEF Scanner
<1> QED BY <1>1, <1>2, <1>3, <1>4, <1>5, <1>6, <1>7, <1>8

\* What a shader was made of, if it is kept for the bundle.
LEMMA KeptOutcome ==
  ASSUME NEW s \in Shaders, NEW outcome \in Outcomes, NEW kept \in BOOLEAN,
         Produce(s, outcome, kept), kept
  PROVE  outcome = Outcome(s) /\ outcome \in {"module", "rejected"}
BY DEF Produce, Outcome

\* The writer's records are of sources that are done.
LEMMA WriterPreserved ==
  ASSUME TypeInv, Next
  PROVE  Writer'
<1> USE ShadersAssumption DEF TypeInv
<1>0. Files /\ Scanner /\ Writer
  BY TypeParts
<1>1. \/ UNCHANGED preparation
      \/ \E s \in Shaders : Prepare(s)
      \/ Enumerate \/ Prepared \/ RecheckSources \/ RecheckResources \/ Publish \/ Stop
  BY DEF Next, Program, Start, Load, Consume, Consumed, ConsumeFails, FallBack, Validate,
         LookAtResources, ScanStarts, ScanEnds, ManifestRenamed,
         Expand, SourceWritten, Expanded, ScanVisits, LookAtSources, LookAtAll, ScanFails, GetShader,
         GetShaderContinues, ChangeResources, RemoveSource, SpoilBinary, Process
<1>2. CASE UNCHANGED preparation
  BY <1>0, <1>2 DEF preparation, Writer
<1>3. ASSUME NEW s \in Shaders, Prepare(s) PROVE Writer'
  <2>1. done' = done \cup {s} /\ s \in paths /\ paths' = paths
    BY <1>3 DEF Prepare
  <2>2. CASE source[s] = "whole"
    <3>1. PICK outcome \in Outcomes, kept \in BOOLEAN :
             Produce(s, outcome, kept) /\ Install(s, outcome, kept)
      BY <1>3, <2>2 DEF Prepare
    <3>2. open' = (open /\ kept) /\ records' = IF open' THEN records \cup {<<s, outcome>>} ELSE {}
      BY <3>1 DEF Install
    <3>3. kept => outcome \in {"module", "rejected"}
      BY <3>1, KeptOutcome
    <3> QED BY <1>0, <2>1, <3>2, <3>3 DEF Writer
  <2>3. CASE source[s] # "whole"
    BY <1>0, <1>3, <2>1, <2>3 DEF Prepare, Writer
  <2> QED BY <2>2, <2>3
<1>4. CASE Enumerate
  BY <1>0, <1>4 DEF Enumerate, Present, Scanner, Writer
<1>5. CASE Prepared \/ RecheckSources \/ RecheckResources \/ Publish \/ Stop
  <2>1. \/ UNCHANGED preparation
        \/ open' = FALSE /\ records' = {} /\ paths' = {} /\ done' = {}
    BY <1>5 DEF Prepared, RecheckSources, RecheckResources, Publish, Stop, Leave, Stay
  <2> QED BY <1>0, <2>1, <1>2 DEF Writer
<1> QED BY <1>1, <1>2, <1>3, <1>4, <1>5

\* What is installed in this process.
LEMMA MemoryPreserved ==
  ASSUME TypeInv, Next
  PROVE  Memory' /\ (UNCHANGED troubles \/ Trouble)
<1> USE ShadersAssumption DEF TypeInv
<1>0. Memory /\ Scanner
  BY TypeParts
<1>1. troubles' \in 0 .. MaxTroubles /\ (UNCHANGED troubles \/ Trouble)
  <2>1. UNCHANGED troubles \/ Trouble
    <3>1. ASSUME NEW s \in Shaders, NEW outcome, NEW kept, Produce(s, outcome, kept)
          PROVE  UNCHANGED troubles \/ Trouble
      BY <3>1 DEF Produce, Smooth
    <3>2. ASSUME NEW s \in Shaders, Prepare(s) \/ GetShader(s) PROVE UNCHANGED troubles \/ Trouble
      BY <3>1, <3>2 DEF Prepare, GetShader, Resolve
    <3>3. CASE GetShaderContinues
      BY <3>3 DEF GetShaderContinues, Resolve, Produce, Smooth
    <3>4. CASE Load \/ ConsumeFails \/ Prepared \/ Publish \/ Stop
      BY <3>4 DEF Load, ConsumeFails, Prepared, Publish, Stop, Smooth
    <3> QED
      BY <3>2, <3>3, <3>4
      DEF Next, Program, Start, Consume, Consumed, ConsumeFails, Validate, LookAtResources,
          ScanStarts, ScanEnds, ManifestRenamed,
          Expand, SourceWritten, Expanded, ScanVisits, LookAtSources, Enumerate, RecheckSources,
          RecheckResources, LookAtAll, ScanFails, ChangeResources, RemoveSource, SpoilBinary
  <2> QED BY <1>0, <2>1 DEF Memory, Trouble
<1>2. unseen' \in BOOLEAN
  <2>1. unseen \in BOOLEAN
    BY <1>0 DEF Memory
  <2>2. \/ UNCHANGED unseen
        \/ unseen' = FALSE
        \/ unseen' = (unseen \/ pc \in ResourcesUnseen)
        \/ unseen' = (unseen \/ pc \in SourceUnseen)
    BY Zenon DEF Next, Program, Start, Load, Consume, Consumed, ConsumeFails, Validate,
       LookAtResources, ScanStarts, ScanEnds, ManifestRenamed, Expand, SourceWritten, Expanded,
       ScanVisits, LookAtSources, Enumerate, Prepare, Prepared, RecheckSources, RecheckResources,
       LookAtAll, Publish, GetShader, GetShaderContinues, Stop, ScanFails, ChangeResources,
       RemoveSource, SpoilBinary, history, Leave, Stay
  <2> QED BY <2>1, <2>2, Zenon
<1>3. CASE UNCHANGED <<installed, warm>>
  BY <1>0, <1>1, <1>2, <1>3 DEF Memory
<1>4. \/ UNCHANGED <<installed, warm>>
      \/ \E s \in Shaders : Consume(s) \/ Prepare(s) \/ GetShader(s)
      \/ ConsumeFails \/ Validate \/ GetShaderContinues \/ Stop
  BY DEF Next, Program, Start, Load, Consumed, LookAtResources, ScanStarts, ScanEnds,
         ManifestRenamed, Expand, SourceWritten, Expanded, ScanVisits, LookAtSources, Enumerate,
         Prepared, RecheckSources, RecheckResources, LookAtAll, Publish, ScanFails,
         ChangeResources, RemoveSource, SpoilBinary, Process, history
<1>5. ASSUME NEW s \in Shaders, Prepare(s) \/ GetShader(s) PROVE Memory'
  <2>1. installed' \in [Shaders -> Known] /\ warm' = warm
    BY <1>0, <1>5
       DEF Prepare, Install, GetShader, Resolve, Produce, Outcome, Outcomes, Known, Memory, history
  <2> QED BY <1>0, <1>1, <1>2, <2>1 DEF Memory
<1>6. ASSUME NEW s \in Shaders, Consume(s) PROVE Memory'
  BY <1>0, <1>1, <1>2, <1>6 DEF Consume, Known, Memory, history
<1>7. CASE ConsumeFails \/ Validate \/ Stop
  <2>1. (installed' = installed \/ installed' = Nobody) /\ (warm' = warm \/ warm' \in BOOLEAN)
    BY <1>7 DEF ConsumeFails, Validate, Stop, FallBack, RollBack, history
  <2> QED BY <1>0, <1>1, <1>2, <2>1 DEF Nobody, Known, Memory
<1>8. CASE GetShaderContinues
  <2>1. PICK s \in writing : Resolve(s)
    BY <1>8 DEF GetShaderContinues
  <2>2. PICK outcome \in Outcomes :
           installed' = [installed EXCEPT ![s] = IF outcome = "error" THEN "broken" ELSE outcome]
    BY <2>1 DEF Resolve
  <2> QED BY <1>0, <1>1, <1>2, <1>8, <2>2 DEF GetShaderContinues, Outcomes, Known, Memory, history
<1> QED BY <1>1, <1>3, <1>4, <1>5, <1>6, <1>7, <1>8

\* The place of the rename is reached with something found, and a change of the
\* resources counts.
LEMMA CountedPreserved ==
  ASSUME TypeInv, Next
  PROVE  Counted'
<1> USE ShadersAssumption DEF TypeInv
<1>0. Files /\ Scanner /\ Memory
  BY TypeParts
<1>1. pc' = "rename" => found' # {}
  <2>1. \/ ScanEnds /\ pc' = "rename"
        \/ pc' # "rename"
        \/ pc = "rename" /\ UNCHANGED found
    BY DEF Next, Program, Start, Load, Consume, Consumed, ConsumeFails, FallBack, Validate,
           LookAtResources, ScanStarts, ScanEnds,
           ManifestRenamed, Expand, SourceWritten, Expanded, LookAtSources, Enumerate, Prepared,
           RecheckSources, RecheckResources, LookAtAll, Publish, GetShaderContinues, Stop,
           ScanVisits, Prepare, ScanFails, GetShader, ChangeResources, RemoveSource, SpoilBinary,
           Process, scan, Leave, Goto
  <2>2. ScanEnds /\ pc' = "rename" => found' # {}
    BY DEF ScanEnds, Goto
  <2> QED BY <2>1, <2>2 DEF Counted
<1>2. resources'.stamp <= troubles'
  <2>1. CASE UNCHANGED resources
    <3>1. troubles <= troubles'
      BY <1>0, MemoryPreserved DEF Memory, Trouble
    <3> QED BY <1>0, <2>1, <3>1, MemoryPreserved DEF Files, Memory, Counted
  <2>2. CASE ChangeResources
    BY <1>0, <2>2 DEF ChangeResources, Trouble, Files, Memory, Counted
  <2>3. UNCHANGED resources \/ ChangeResources
    BY FileSteps DEF disk, ScanVisits, Prepare, GetShader, RemoveSource, SpoilBinary, ScanEnds,
                     ManifestRenamed, Expand, SourceWritten, Publish, GetShaderContinues
  <2> QED BY <2>1, <2>2, <2>3
<1> QED BY <1>1, <1>2 DEF Counted

\* All types hold when no start has been made.
LEMMA TypeInitially == Init => TypeInv
<1> SUFFICES ASSUME Init PROVE TypeInv
  OBVIOUS
<1>0. 0 \in 0 .. MaxTroubles
  BY ShadersAssumption
<1>1. Files
  BY <1>0 DEF Init, Files, Nobody
<1>2. Memory
  <2>1. installed = Nobody /\ warm = FALSE /\ unseen = FALSE /\ troubles = 0
    BY DEF Init
  <2>2. installed \in [Shaders -> Known]
    BY <2>1 DEF Nobody, Known
  <2> QED BY <1>0, <2>1, <2>2, Zenon DEF Memory
<1>3. Scanner
  <2>1. writing = {} /\ visited = {} /\ found = {} /\ scanned = 0 /\ partial = FALSE
    BY DEF Init
  <2> QED BY <1>0, <2>1, OneFile, Zenon DEF Scanner
<1>4. Writer
  BY DEF Init, Writer
<1>5. Counted
  BY DEF Init, Counted
<1> QED BY <1>1, <1>2, <1>3, <1>4, <1>5, TypeParts DEF TypeInv

\* No step breaks them.
LEMMA TypeInductive == TypeInv /\ [Next]_vars => TypeInv'
<1> SUFFICES ASSUME TypeInv, [Next]_vars PROVE TypeInv'
  OBVIOUS
<1>1. CASE Next
  <2>1. Files' /\ Scanner' /\ Writer' /\ Memory'
    BY <1>1, FilesPreserved, ScannerPreserved, WriterPreserved, MemoryPreserved
  <2>2. TypeOK'
    BY <2>1 DEF TypeOK, Files, Scanner, Writer, Memory
  <2> QED BY <1>1, <2>2, CountedPreserved DEF TypeInv
<1>2. CASE UNCHANGED vars
  <2>1. Files' /\ Scanner' /\ Writer' /\ Memory'
    BY <1>2, TypeParts
       DEF TypeInv, vars, disk, scan, preparation, history, Files, Scanner, Writer, Memory
  <2>2. TypeOK'
    BY <2>1 DEF TypeOK, Files, Scanner, Writer, Memory
  <2> QED BY <1>2, <2>2 DEF TypeInv, Counted, vars, disk, scan
<1> QED BY <1>1, <1>2

------------------------------------------------------------------------------
(* What a bundle certifies, if no change behind a look came in between         *)

\* The sources that are there, and those that can be prepared.
Held(files) == {s \in Shaders : files[s] # "none"}
Whole(files) == {s \in Shaders : files[s] = "whole"}

\* The records of a set of sources that could all be prepared.
Truth(names) == {<<s, Outcome(s)>> : s \in names}

\* A set of sources with what is derived from each.
Closed(names) == \A s \in names : Variants[s] \subseteq names

\* The sources a snapshot lists hold all of the game's files and the executable
\* and what is derived from them, and the records are theirs.
Certified(snapshot, recs) ==
    /\ snapshot[1].holds \cup Static \subseteq Held(snapshot[2][1])
    /\ Closed(Held(snapshot[2][1]))
    /\ recs = Truth(Held(snapshot[2][1]))

\* Every record on disk is true, and with no change unseen there are as many as
\* the snapshot needs.
BundleCertified ==
    bundle # None =>
        /\ bundle.records \subseteq Truth(Shaders)
        /\ ~bundle.unseen => Certified(bundle.snapshot, bundle.records)

\* What is consumed comes from the bundle that is still there, in the end all
\* of it.
Loaded ==
    /\ pc \in {"consume", "validate"} =>
           /\ bundle # None /\ bundle.snapshot = identity
           /\ \A s \in Shaders : installed[s] # "none" => <<s, installed[s]>> \in bundle.records
    /\ pc = "validate" => \A r \in bundle.records : installed[r[1]] # "none"

\* The places before the preparation but those of a load, and those after it.
Early == {"off", "load", "before", "manifest", "scan", "rename", "expand", "sources", "enumerate"}
Late == {"prepare", "recheck", "recheck2", "final", "publish"}

\* A start that does the work has nothing but what it has prepared; as long as
\* the writer is open it has a record of each source that is done, as installed.
Installing ==
    /\ pc \in Early => installed = Nobody
    /\ pc \in Late => \A s \in Shaders : installed[s] # "none" => s \in done
    /\ pc \in Late /\ open =>
           records = Truth(done) /\ \A s \in done : installed[s] = Outcome(s)
    /\ pc \in Late \ {"prepare"} => open

\* A manifest lists what the files of its stamp held.
ManifestTrue ==
    manifest # None =>
        /\ manifest.stamp <= resources.stamp
        /\ manifest.stamp = resources.stamp => manifest.names = resources.holds

\* So will the next one; and what the scan has found is there.
Scanning ==
    /\ pc \in {"scan", "rename"} => scanned <= resources.stamp
    /\ pc = "scan" /\ scanned = resources.stamp =>
           /\ found = visited \cap resources.holds
           /\ ~unseen => found \subseteq Whole(source) \cup writing
    /\ pc = "rename" =>
           /\ writing = {}
           /\ scanned = resources.stamp =>
                  found = resources.holds /\ (~unseen => found \subseteq Whole(source))

\* The places from the first look at the resources to the last.
SinceBefore == {"manifest", "scan", "rename", "expand", "sources", "enumerate", "prepare",
                "recheck", "recheck2", "final"}

\* The resources looked at first are those there are now, or older.
Resources ==
    /\ pc \in SinceBefore =>
           /\ resourcesBefore[1].stamp \in Nat
           /\ resourcesBefore[1].stamp <= resources.stamp
           /\ resourcesBefore[1].stamp = resources.stamp => resourcesBefore[1] = resources
    /\ pc \in {"scan", "rename"} => resourcesBefore[1].stamp <= scanned
    /\ pc = "final" /\ ~unseen => resourcesBefore[1] = resources

\* After a scan and an expansion without errors the sources of these resources,
\* of the executable and the derived ones are whole.
Expanding ==
    /\ pc \in {"expand", "sources"} /\ ~partial /\ ~unseen /\ resourcesBefore[1] = resources =>
           resources.holds \subseteq Whole(source)
    /\ pc = "sources" /\ ~partial /\ ~unseen =>
           Static \subseteq Whole(source) /\ Closed(Whole(source))

\* The sources as they were looked at.
Before == sourcesBefore[2][1]

\* Sources only disappear while they are prepared, and what is recorded was
\* whole.
Preparing ==
    /\ pc \in {"enumerate", "prepare", "recheck"} =>
           \A s \in Shaders : source[s] \in {Before[s], "none"}
    /\ /\ ~unseen
       /\ \/ pc = "enumerate" /\ ~partial
          \/ pc \in {"prepare", "recheck"} /\ open
       =>
           /\ resourcesBefore[1] = resources => resources.holds \subseteq Held(Before)
           /\ Static \subseteq Held(Before)
           /\ \A s \in Whole(Before) : Variants[s] \subseteq Held(Before)
    /\ pc \in {"prepare", "recheck"} => Present \subseteq paths /\ paths \subseteq Held(Before)
    /\ pc \in {"prepare", "recheck"} /\ open => done \subseteq Whole(Before)
    /\ pc = "recheck" => done = paths

\* Nothing has changed since the sources were looked at, nor, in the end, since
\* the resources were.
Rechecked ==
    /\ pc \in {"recheck2", "final"} /\ ~unseen =>
           /\ records = Truth(Present)
           /\ resourcesBefore[1] = resources => resources.holds \subseteq Present
           /\ Static \subseteq Present /\ Closed(Present)
    /\ pc = "publish" /\ ~unseen => Certified(identity, records)

\* The whole: from one look to the next, and to the bundle.
IInv ==
    /\ TypeInv /\ BundleCertified /\ Loaded /\ Installing /\ ManifestTrue /\ Scanning
    /\ Resources /\ Expanding /\ Preparing /\ Rechecked

\* Which steps lead to, or stay at, the places the invariant speaks of.
LEMMA Entering ==
  ASSUME Next
  PROVE  /\ pc' \in {"scan", "rename"} =>
                \/ Outside \/ ScanStarts \/ \E s \in Shaders : ScanVisits(s)
                \/ ScanEnds \/ SourceWritten
         /\ pc' \in {"expand", "sources"} =>
                \/ Outside \/ ScanStarts \/ ScanEnds \/ ManifestRenamed \/ Expand
                \/ SourceWritten \/ Expanded \/ ScanFails
         /\ pc' \in {"enumerate", "prepare", "recheck"} =>
                \/ Outside \/ LookAtSources \/ Enumerate \/ Prepared
                \/ \E s \in Shaders : Prepare(s)
         /\ pc' \in {"recheck2", "final", "publish"} =>
                Outside \/ RecheckSources \/ RecheckResources \/ LookAtAll
         /\ pc' \in {"consume", "validate"} =>
                Outside \/ Load \/ Consumed \/ \E s \in Shaders : Consume(s)
<1> USE DEF Goto
<1>1. CASE Outside
  BY <1>1
<1>2. CASE Start \/ Load \/ Consumed \/ ConsumeFails \/ Validate \/ LookAtResources
  BY <1>2 DEF Start, Load, Consumed, ConsumeFails, FallBack, Validate, LookAtResources
<1>3. CASE ScanStarts \/ ScanEnds \/ ManifestRenamed \/ Expand \/ SourceWritten \/ Expanded
  BY <1>3 DEF ScanStarts, ScanEnds, ManifestRenamed, Expand, SourceWritten, Expanded
<1>4. CASE LookAtSources \/ Enumerate \/ Prepared
  BY <1>4 DEF LookAtSources, Enumerate, Prepared, Leave
<1>5. CASE RecheckSources \/ RecheckResources \/ LookAtAll \/ Publish
  BY <1>5 DEF RecheckSources, RecheckResources, LookAtAll, Publish, Leave
<1>6. CASE GetShaderContinues \/ Stop \/ ScanFails
  BY <1>6 DEF GetShaderContinues, Stop, ScanFails
<1>7. ASSUME NEW s \in Shaders, ScanVisits(s) PROVE pc' = "scan"
  BY <1>7 DEF ScanVisits
<1>8. ASSUME NEW s \in Shaders, Prepare(s) PROVE pc' = "prepare"
  BY <1>8 DEF Prepare
<1>9. ASSUME NEW s \in Shaders, GetShader(s) PROVE pc' \in {"ready", "get"}
  BY <1>9 DEF GetShader
<1>10. ASSUME NEW s \in Shaders, Consume(s) PROVE pc' = "consume"
  BY <1>10 DEF Consume
<1> QED
  BY <1>1, <1>2, <1>3, <1>4, <1>5, <1>6, <1>7, <1>8, <1>9, <1>10 DEF Next, Program, Outside

\* What changes from outside, and when it is seen.
LEMMA OutsideSteps ==
  ASSUME Outside, Files
  PROVE  /\ UNCHANGED <<pc, looks, scan, preparation, installed, warm, manifest, bundle>>
         /\ ~unseen' => ~unseen
         /\ \/ UNCHANGED resources
            \/ resources'.stamp = resources.stamp + 1 /\ (~unseen' => pc # "final")
         /\ \/ UNCHANGED source
            \/ /\ \E s \in Shaders : source' = [source EXCEPT ![s] = "none"]
               /\ ~unseen' => pc \notin SourceUnseen
<1>1. ASSUME ChangeResources
      PROVE  /\ UNCHANGED <<Process, source, manifest, bundle>>
             /\ ~unseen' => ~unseen /\ pc # "final"
             /\ resources'.stamp = resources.stamp + 1
  <2>1. /\ UNCHANGED <<Process, source, manifest, bundle>>
        /\ unseen' = (unseen \/ pc \in ResourcesUnseen)
    BY <1>1 DEF ChangeResources
  <2>2. resources'.stamp = resources.stamp + 1
    BY <1>1 DEF ChangeResources
  <2>3. ~unseen' => ~unseen /\ pc # "final"
    BY <2>1, Zenon DEF ResourcesUnseen
  <2> QED BY <2>1, <2>2, <2>3
<1>2. ASSUME NEW s \in Shaders, RemoveSource(s)
      PROVE  /\ UNCHANGED <<Process, resources, manifest, bundle>>
             /\ ~unseen' => ~unseen /\ pc \notin SourceUnseen
             /\ source' = [source EXCEPT ![s] = "none"]
  BY <1>2 DEF RemoveSource
<1>3. ASSUME NEW s \in Shaders, SpoilBinary(s)
      PROVE  UNCHANGED <<Process, resources, source, manifest, bundle, unseen>>
  BY <1>3 DEF SpoilBinary
<1> QED BY <1>1, <1>2, <1>3 DEF Outside, Process

\* The types, part by part.
LEMMA FilesOf == IInv => Files /\ Scanner /\ Writer /\ Memory
BY TypeParts DEF IInv, TypeInv

\* Stamps are compared as numbers.
LEMMA Stamps ==
  ASSUME Files
  PROVE  /\ resources.stamp \in Nat
         /\ manifest # None => manifest.stamp \in Nat
BY ShadersAssumption DEF Files

\* A record that is true names its source's outcome.
LEMMA TrueRecord ==
  ASSUME NEW s, NEW o, NEW names, <<s, o>> \in Truth(names)
  PROVE  s \in names /\ o = Outcome(s)
BY DEF Truth

\* Only a publication changes the bundle.
LEMMA BundlePreserved ==
  ASSUME IInv, Next
  PROVE  BundleCertified'
<1>0. Writer
  BY FilesOf
<1>1. UNCHANGED bundle \/ Publish
  BY FileSteps DEF disk, ScanVisits, Prepare, GetShader, RemoveSource, SpoilBinary, ScanEnds,
                   ManifestRenamed, Expand, SourceWritten, GetShaderContinues, ChangeResources
<1>2. CASE UNCHANGED bundle
  BY <1>2 DEF IInv, BundleCertified, Certified, Closed, Held, Truth, Outcome
<1>3. CASE Publish
  <2>1. pc = "publish"
    BY <1>3 DEF Publish
  <2>2. \/ bundle' = bundle
        \/ bundle' = [snapshot |-> identity, records |-> records, unseen |-> unseen]
    BY <1>3 DEF Publish
  <2>3. CASE bundle' = bundle
    BY <2>3 DEF IInv, BundleCertified, Certified, Closed, Held, Truth, Outcome
  <2>4. CASE bundle' = [snapshot |-> identity, records |-> records, unseen |-> unseen]
    <3>1. ~unseen => Certified(identity, records)
      BY <2>1 DEF IInv, Rechecked
    <3>2. bundle'.snapshot = identity /\ bundle'.records = records /\ bundle'.unseen = unseen
      BY <2>4
    <3>3. records \subseteq Truth(Shaders)
      <4>1. records = Truth(done)
        BY <2>1 DEF IInv, Installing, Late
      <4>2. done \subseteq Shaders
        BY <1>0 DEF Writer
      <4> QED BY <4>1, <4>2 DEF Truth
    <3> QED BY <3>1, <3>2, <3>3 DEF BundleCertified, Certified, Closed, Held, Truth, Outcome
  <2> QED BY <2>2, <2>3, <2>4
<1> QED BY <1>1, <1>2, <1>3

\* The records are consumed into an empty map, one by one, and all.
LEMMA LoadedPreserved ==
  ASSUME IInv, Next
  PROVE  Loaded'
<1>0. Files /\ Memory /\ Loaded
  BY FilesOf DEF IInv
<1>1. CASE pc' \notin {"consume", "validate"}
  BY <1>1 DEF Loaded
<1>2. CASE Outside
  BY <1>0, <1>2, OutsideSteps DEF Loaded, looks
<1>3. CASE Load /\ pc' \in {"consume", "validate"}
  <2>1. /\ pc' = "consume" /\ bundle # None /\ bundle.snapshot = identity
        /\ UNCHANGED <<bundle, identity, installed>>
    BY <1>3 DEF Load, BundleMatches, Goto, disk
  <2>2. installed = Nobody
    BY <1>3 DEF Load, IInv, Installing, Early
  <2> QED BY <2>1, <2>2 DEF Loaded, Nobody
<1>4. ASSUME NEW s \in Shaders, Consume(s) PROVE Loaded'
  <2>1. /\ pc = "consume" /\ UNCHANGED <<pc, bundle, identity>>
        /\ \E outcome \in {"module", "rejected"} :
              <<s, outcome>> \in bundle.records /\ installed' = [installed EXCEPT ![s] = outcome]
    BY <1>4 DEF Consume, disk, looks
  <2> QED BY <1>0, <2>1 DEF Loaded, Memory
<1>5. CASE Consumed
  <2>1. /\ pc = "consume" /\ pc' = "validate" /\ UNCHANGED <<bundle, identity, installed>>
        /\ \A r \in bundle.records : installed[r[1]] # "none"
    BY <1>5 DEF Consumed, Goto, disk, looks
  <2> QED BY <1>0, <2>1 DEF Loaded
<1> QED BY <1>1, <1>2, <1>3, <1>4, <1>5, Entering

\* Nothing is installed before the preparation of a start that does the work:
\* a load that fails has been rolled back.
LEMMA EarlyNobody ==
  ASSUME IInv, Next, pc' \in Early
  PROVE  installed' = Nobody
<1>0. Files /\ Installing
  BY FilesOf DEF IInv
<1> USE DEF Early
<1>1. CASE Outside
  BY <1>0, <1>1, OutsideSteps DEF Installing
<1>2. CASE ConsumeFails \/ Validate \/ Stop
  BY <1>2 DEF ConsumeFails, Validate, Stop, FallBack, RollBack, Goto
<1>3. CASE Start \/ Load \/ LookAtResources \/ ScanStarts \/ ScanEnds \/ ManifestRenamed
  BY <1>0, <1>3 DEF Installing, Start, Load, LookAtResources, ScanStarts, ScanEnds, ManifestRenamed
<1>4. CASE Expand \/ SourceWritten \/ Expanded \/ ScanFails \/ LookAtSources
  BY <1>0, <1>4 DEF Installing, Expand, SourceWritten, Expanded, ScanFails, LookAtSources
<1>5. ASSUME NEW s \in Shaders, ScanVisits(s) PROVE installed' = Nobody
  BY <1>0, <1>5 DEF Installing, ScanVisits
<1>6. pc' \notin Early \/ ~(Consumed \/ Enumerate \/ Prepared \/ RecheckSources \/ RecheckResources
                            \/ LookAtAll \/ Publish \/ GetShaderContinues)
  BY DEF Consumed, Enumerate, Prepared, RecheckSources, RecheckResources, LookAtAll, Publish,
         GetShaderContinues, Leave, Goto
<1>7. ASSUME NEW s \in Shaders, Consume(s) \/ Prepare(s) \/ GetShader(s) PROVE pc' \notin Early
  BY <1>7 DEF Consume, Prepare, GetShader, Goto
<1> QED BY <1>1, <1>2, <1>3, <1>4, <1>5, <1>6, <1>7 DEF Next, Program, Outside

\* The records of one more source.
LEMMA OneMore ==
  ASSUME NEW names, NEW s
  PROVE  Truth(names \cup {s}) = Truth(names) \cup {<<s, Outcome(s)>>}
BY DEF Truth

\* What is installed is what was prepared, and recorded while the writer is open.
LEMMA InstallingPreserved ==
  ASSUME IInv, Next
  PROVE  Installing'
<1>0. Files /\ Memory /\ Writer /\ Installing
  BY FilesOf DEF IInv
<1>1. pc' \in Early => installed' = Nobody
  BY EarlyNobody
<1>2. CASE pc' \notin Late
  BY <1>1, <1>2 DEF Installing
<1>3. SUFFICES ASSUME pc' \in Late PROVE Installing'
  BY <1>2
<1>4. pc' \notin Early
  BY <1>3 DEF Early, Late
<1>5. CASE \/ Outside \/ RecheckSources \/ RecheckResources \/ LookAtAll
           \/ Prepared
  <2>1. CASE Outside
    <3>1. UNCHANGED <<pc, installed, done, open, records>>
      BY <1>0, <2>1, OutsideSteps DEF preparation
    <3> QED BY <1>0, <1>4, <3>1 DEF Installing, Truth, Outcome
  <2>2. CASE RecheckSources \/ RecheckResources \/ LookAtAll
    <3>1. /\ pc \in Late \ {"prepare"} /\ UNCHANGED <<installed, done, open, records>>
      BY <1>3, <2>2 DEF RecheckSources, RecheckResources, LookAtAll, Leave, Stay, Goto, Late,
                        preparation
    <3> QED BY <1>0, <1>3, <1>4, <3>1 DEF Installing, Truth, Outcome
  <2>3. CASE Prepared
    <3>1. /\ pc = "prepare" /\ pc' = "recheck" /\ open
          /\ UNCHANGED <<installed, done, open, records>>
      BY <1>3, <2>3 DEF Prepared, Leave, Stay, Goto, Late, preparation
    <3> QED BY <1>0, <1>4, <3>1 DEF Installing, Late, Truth, Outcome
  <2> QED BY <1>5, <2>1, <2>2, <2>3
<1>6. CASE Enumerate
  <2>1. /\ pc = "enumerate" /\ pc' = "prepare" /\ UNCHANGED installed
        /\ done' = {} /\ records' = {}
    BY <1>6 DEF Enumerate, Goto
  <2>2. installed = Nobody
    BY <1>0, <2>1 DEF Installing, Early
  <2> QED BY <1>4, <2>1, <2>2 DEF Installing, Nobody, Truth
<1>7. ASSUME NEW s \in Shaders, Prepare(s) PROVE Installing'
  <2>1. /\ pc = "prepare" /\ UNCHANGED pc /\ done' = done \cup {s}
    BY <1>7 DEF Prepare
  <2>2. /\ \A t \in Shaders : installed[t] # "none" => t \in done
        /\ open => records = Truth(done) /\ \A t \in done : installed[t] = Outcome(t)
    BY <1>0, <2>1 DEF Installing, Late
  <2>3. done \subseteq Shaders
    BY <1>0 DEF Writer
  <2>4. CASE source[s] = "whole"
    <3>1. PICK outcome \in Outcomes, kept \in BOOLEAN :
             Produce(s, outcome, kept) /\ Install(s, outcome, kept)
      BY <1>7, <2>4 DEF Prepare
    <3>2. /\ open' = (open /\ kept)
          /\ records' = IF open' THEN records \cup {<<s, outcome>>} ELSE {}
          /\ installed' = IF outcome = "error" THEN installed ELSE [installed EXCEPT ![s] = outcome]
      BY <3>1 DEF Install
    <3>3. kept => outcome = Outcome(s) /\ outcome # "error"
      BY <3>1, KeptOutcome
    <3>4. \A t \in Shaders : installed'[t] # "none" => t \in done'
      BY <1>0, <2>1, <2>2, <3>2 DEF Memory
    <3>5. open' => records' = Truth(done') /\ \A t \in done' : installed'[t] = Outcome(t)
      <4>1. SUFFICES ASSUME open' PROVE records' = Truth(done') /\ \A t \in done' : installed'[t] = Outcome(t)
        OBVIOUS
      <4>2. open /\ kept
        BY <3>2, <4>1
      <4>3. outcome = Outcome(s) /\ outcome # "error"
        BY <3>3, <4>2
      <4>4. records' = records \cup {<<s, outcome>>} /\ installed' = [installed EXCEPT ![s] = outcome]
        BY <3>2, <4>1, <4>3
      <4>5. Truth(done') = Truth(done) \cup {<<s, Outcome(s)>>}
        BY <2>1, OneMore
      <4>6. \A t \in done' : installed'[t] = Outcome(t)
        BY <1>0, <2>1, <2>2, <2>3, <4>2, <4>3, <4>4 DEF Memory
      <4> QED BY <2>2, <4>2, <4>3, <4>4, <4>5, <4>6
    <3> QED BY <1>4, <2>1, <3>4, <3>5 DEF Installing, Truth, Outcome
  <2>5. CASE source[s] # "whole"
    <3>1. open' = FALSE /\ UNCHANGED installed
      BY <1>7, <2>5 DEF Prepare
    <3> QED BY <1>4, <2>1, <2>2, <3>1 DEF Installing
  <2> QED BY <2>4, <2>5
<1>8. \/ Outside \/ RecheckSources \/ RecheckResources \/ LookAtAll \/ Prepared
      \/ Enumerate \/ LookAtSources \/ \E s \in Shaders : Prepare(s)
  BY <1>3, Entering DEF Late
<1>9. ~LookAtSources
  BY <1>3 DEF LookAtSources, Late, Goto
<1> QED BY <1>5, <1>6, <1>7, <1>8, <1>9

\* The new manifest takes its name when the scan has visited everything.
LEMMA ManifestPreserved ==
  ASSUME IInv, Next
  PROVE  ManifestTrue'
<1>1. \/ UNCHANGED <<manifest, resources>>
      \/ ScanEnds \/ ManifestRenamed \/ ChangeResources
  BY FileSteps DEF disk, ScanVisits, Prepare, GetShader, RemoveSource, SpoilBinary, Expand,
                   SourceWritten, Publish, GetShaderContinues
<1>2. CASE UNCHANGED <<manifest, resources>>
  BY <1>2 DEF IInv, ManifestTrue
<1>3. CASE ScanEnds
  <2>1. (manifest' = manifest \/ manifest' = None) /\ resources' = resources
    BY <1>3 DEF ScanEnds
  <2> QED BY <2>1 DEF IInv, ManifestTrue
<1>4. CASE ManifestRenamed
  <2>1. /\ pc = "rename" /\ resources' = resources
        /\ manifest' = [stamp |-> scanned, names |-> found]
    BY <1>4 DEF ManifestRenamed
  <2>2. manifest'.stamp = scanned /\ manifest'.names = found
    BY <2>1
  <2> QED BY <2>1, <2>2 DEF IInv, Scanning, ManifestTrue
<1>5. CASE ChangeResources
  <2>1. manifest' = manifest /\ resources'.stamp = resources.stamp + 1
    BY <1>5 DEF ChangeResources
  <2>2. manifest # None => manifest.stamp <= resources.stamp
    BY DEF IInv, ManifestTrue
  <2> QED BY <2>1, <2>2, FilesOf, Stamps DEF ManifestTrue
<1> QED BY <1>1, <1>2, <1>3, <1>4, <1>5

\* The scan has found what it has visited, as long as the files are the same.
LEMMA ScanningPreserved ==
  ASSUME IInv, Next
  PROVE  Scanning'
<1>0. Files /\ Scanner /\ Scanning
  BY FilesOf DEF IInv
<1>1. CASE pc' \notin {"scan", "rename"}
  BY <1>1 DEF Scanning
<1>2. CASE Outside /\ pc' \in {"scan", "rename"}
  <2>1. /\ UNCHANGED <<pc, scanned, visited, found, writing>>
        /\ ~unseen' => ~unseen /\ UNCHANGED source
    BY <1>0, <1>2, OutsideSteps DEF scan, SourceUnseen
  <2>2. \/ UNCHANGED resources
        \/ resources'.stamp = resources.stamp + 1
    BY <1>0, <1>2, OutsideSteps
  <2>3. scanned <= resources.stamp /\ scanned \in Nat
    BY <1>0, <1>2, <2>1, ShadersAssumption DEF Scanner, Scanning
  <2>4. CASE UNCHANGED resources
    BY <1>0, <2>1, <2>4 DEF Scanning, Whole
  <2>5. CASE resources'.stamp = resources.stamp + 1
    <3>1. scanned' # resources'.stamp /\ scanned' <= resources'.stamp
      BY <1>0, <2>1, <2>3, <2>5, Stamps
    <3> QED BY <1>0, <1>2, <2>1, <3>1 DEF Scanning
  <2> QED BY <2>2, <2>4, <2>5
<1>3. CASE ScanStarts /\ pc' \in {"scan", "rename"}
  <2>1. /\ pc' = "scan" /\ scanned' = resources'.stamp /\ found' = {} /\ visited' = {}
        /\ UNCHANGED resources
    BY <1>3 DEF ScanStarts, Goto, disk
  <2> QED BY <1>0, <2>1, Stamps DEF Scanning
<1>4. ASSUME NEW s \in Shaders, ScanVisits(s) PROVE Scanning'
  <2>1. /\ pc = "scan" /\ pc' = "scan" /\ writing = {} /\ UNCHANGED <<scanned, resources>>
        /\ visited' = visited \cup {s} /\ s \notin visited /\ unseen' = unseen
    BY <1>4 DEF ScanVisits, history
  <2>2. CASE s \in resources.holds
    <3>1. found' = found \cup {s} /\ (SaveSource(s) \/ Write(s))
      BY <1>4, <2>2 DEF ScanVisits
    <3>2. Whole(source) \ {s} \subseteq Whole(source') /\ s \in Whole(source') \cup writing'
      BY <1>0, <3>1 DEF SaveSource, Write, Whole, Files
    <3> QED BY <1>0, <2>1, <2>2, <3>1, <3>2 DEF Scanning
  <2>3. CASE s \notin resources.holds
    <3>1. UNCHANGED <<source, writing, found>>
      BY <1>4, <2>3 DEF ScanVisits
    <3> QED BY <1>0, <2>1, <2>3, <3>1 DEF Scanning, Whole
  <2> QED BY <2>2, <2>3
<1>5. CASE ScanEnds /\ pc' \in {"scan", "rename"}
  <2>1. /\ pc = "scan" /\ pc' = "rename" /\ writing = {} /\ writing' = {} /\ visited = Shaders
        /\ UNCHANGED <<scanned, resources, found, source, unseen>>
    BY <1>5 DEF ScanEnds, Goto, history
  <2>2. resources.holds \subseteq Shaders
    BY <1>0, ShadersAssumption DEF Files
  <2>3. scanned = resources.stamp =>
            found = resources.holds /\ (~unseen => found \subseteq Whole(source))
    BY <1>0, <2>1, <2>2 DEF Scanning
  <2> QED BY <1>0, <2>1, <2>3 DEF Scanning, Whole
<1>6. CASE SourceWritten
  <2>1. /\ UNCHANGED <<pc, scanned, resources, visited, found, unseen>> /\ writing' = {}
        /\ pc \in {"scan", "expand"}
        /\ source' = [s \in Shaders |-> IF s \in writing THEN "whole" ELSE source[s]]
    BY <1>6 DEF SourceWritten, history
  <2>2. found \subseteq Shaders
    BY <1>0 DEF Scanner
  <2>3. found \subseteq Whole(source) \cup writing => found \subseteq Whole(source')
    BY <2>1, <2>2 DEF Whole
  <2> QED BY <1>0, <2>1, <2>3 DEF Scanning
<1> QED BY <1>1, <1>2, <1>3, <1>4, <1>5, <1>6, Entering

\* The other steps keep the look, and end where the next look begins.
LEMMA LooksKept ==
  ASSUME Files, Next, ~LookAtResources, ~RecheckResources, ~ScanStarts
  PROVE  \/ pc' \notin SinceBefore
         \/ /\ pc \in SinceBefore /\ UNCHANGED resourcesBefore
            /\ pc' = "final" => pc = "final" /\ (~unseen' => ~unseen)
            /\ pc' \in {"scan", "rename"} => pc \in {"scan", "rename"} /\ UNCHANGED scanned
<1> USE DEF SinceBefore, Goto, Leave, Stay, looks
<1>1. CASE Outside
  BY <1>1, OutsideSteps DEF scan
<1>2. \/ Start \/ Load \/ Consumed \/ ConsumeFails \/ Validate \/ Publish \/ LookAtAll
      \/ GetShaderContinues \/ Stop
      => pc' \notin SinceBefore
  BY DEF Start, Load, Consumed, ConsumeFails, FallBack, Validate, Publish, LookAtAll,
         GetShaderContinues, Stop
<1>3. CASE ScanEnds \/ ManifestRenamed \/ Expand \/ SourceWritten \/ Expanded \/ ScanFails
  BY <1>3 DEF ScanEnds, ManifestRenamed, Expand, SourceWritten, Expanded, ScanFails
<1>4. CASE LookAtSources \/ Enumerate \/ Prepared \/ RecheckSources
  BY <1>4 DEF LookAtSources, Enumerate, Prepared, RecheckSources
<1>5. ASSUME NEW s \in Shaders, ScanVisits(s)
      PROVE  pc = "scan" /\ pc' = "scan" /\ UNCHANGED <<resourcesBefore, scanned>>
  BY <1>5 DEF ScanVisits
<1>6. ASSUME NEW s \in Shaders, Prepare(s)
      PROVE  pc = "prepare" /\ pc' = "prepare" /\ UNCHANGED resourcesBefore
  BY <1>6 DEF Prepare
<1>7. ASSUME NEW s \in Shaders, GetShader(s) \/ Consume(s)
      PROVE  pc' \in {"ready", "get", "consume"}
  BY <1>7 DEF GetShader, Consume
<1> QED
  BY <1>1, <1>2, <1>3, <1>4, <1>5, <1>6, <1>7 DEF Next, Program, Outside

\* Where the resources were looked at first, and that they only grow older.
LEMMA ResourcesPreserved ==
  ASSUME IInv, Next
  PROVE  Resources'
<1>0. Files /\ Scanner /\ Scanning /\ Resources
  BY FilesOf DEF IInv
<1> USE DEF SinceBefore
<1>1. \/ UNCHANGED resources
      \/ ChangeResources
  BY FileSteps DEF disk, ScanVisits, Prepare, GetShader, RemoveSource, SpoilBinary, ScanEnds,
                   ManifestRenamed, Expand, SourceWritten, Publish, GetShaderContinues
<1>2. CASE ChangeResources
  <2>1. /\ resources'.stamp = resources.stamp + 1 /\ (pc = "final" => unseen')
        /\ UNCHANGED <<pc, resourcesBefore, scanned>>
    <3>1. /\ UNCHANGED Process
          /\ unseen' = (unseen \/ pc \in ResourcesUnseen)
      BY <1>2 DEF ChangeResources
    <3>2. resources'.stamp = resources.stamp + 1
      BY <1>2 DEF ChangeResources
    <3>3. pc = "final" => unseen'
      BY <3>1, Zenon DEF ResourcesUnseen
    <3> QED BY <3>1, <3>2, <3>3 DEF Process, looks, scan
  <2>2. pc \in SinceBefore =>
           /\ resourcesBefore[1].stamp \in Nat
           /\ resourcesBefore[1].stamp <= resources'.stamp
           /\ resourcesBefore[1].stamp # resources'.stamp
    BY <1>0, <2>1, Stamps DEF Resources
  <2> QED BY <1>0, <2>1, <2>2 DEF Resources
<1>3. CASE UNCHANGED resources
  <2>1. CASE LookAtResources
    <3>1. pc' = "manifest" /\ resourcesBefore'[1] = resources
      BY <2>1 DEF LookAtResources, Snapshot, Goto
    <3> QED BY <1>0, <1>3, <3>1, Stamps DEF Resources
  <2>2. CASE RecheckResources
    <3>1. \/ pc' = "ready"
          \/ /\ pc = "recheck2" /\ pc' = "final" /\ UNCHANGED resourcesBefore
             /\ resourcesBefore[1] = resources
      BY <2>2 DEF RecheckResources, Snapshot, Goto, Leave, Stay, looks
    <3> QED BY <1>0, <1>3, <3>1 DEF Resources
  <2>3. CASE ScanStarts
    <3>1. /\ pc = "manifest" /\ pc' \in {"scan", "expand"} /\ scanned' = resources.stamp
          /\ UNCHANGED resourcesBefore
      BY <2>3 DEF ScanStarts, Goto, looks
    <3> QED BY <1>0, <1>3, <3>1 DEF Resources
  <2>4. CASE ~LookAtResources /\ ~RecheckResources /\ ~ScanStarts
    <3>1. \/ pc' \notin SinceBefore
          \/ /\ pc \in SinceBefore /\ UNCHANGED resourcesBefore
             /\ pc' = "final" => pc = "final" /\ (~unseen' => ~unseen)
             /\ pc' \in {"scan", "rename"} => pc \in {"scan", "rename"} /\ UNCHANGED scanned
      BY <1>0, <2>4, LooksKept
    <3> QED BY <1>0, <1>3, <3>1 DEF Resources
  <2> QED BY <2>1, <2>2, <2>3, <2>4
<1> QED BY <1>1, <1>2, <1>3

\* What a scan or a manifest of these resources stands for is whole, and stays so.
LEMMA ExpandingPreserved ==
  ASSUME IInv, Next
  PROVE  Expanding'
<1>0. Files /\ Scanner /\ Scanning /\ Resources /\ Expanding /\ ManifestTrue
  BY FilesOf DEF IInv
<1>1. CASE pc' \notin {"expand", "sources"}
  BY <1>1 DEF Expanding
<1>2. CASE Outside /\ pc' \in {"expand", "sources"}
  <2>1. /\ UNCHANGED <<pc, resourcesBefore, partial>>
        /\ ~unseen' => ~unseen /\ UNCHANGED source
    BY <1>0, <1>2, OutsideSteps DEF scan, looks, SourceUnseen
  <2>2. CASE UNCHANGED resources
    BY <1>0, <2>1, <2>2 DEF Expanding, Closed, Whole
  <2>3. CASE resources'.stamp = resources.stamp + 1
    <3>1. resourcesBefore'[1] # resources'
      BY <1>0, <1>2, <2>1, <2>3, Stamps DEF Resources, SinceBefore
    <3> QED BY <1>0, <2>1, <3>1 DEF Expanding, Closed, Whole
  <2> QED BY <1>0, <1>2, <2>2, <2>3, OutsideSteps
<1>3. CASE ScanStarts /\ pc' \in {"expand", "sources"}
  <2>1. /\ pc' = "expand" /\ UNCHANGED <<resources, source>>
        /\ manifest # None /\ manifest.stamp = resources.stamp
        /\ \A s \in manifest.names : source[s] = "whole"
    BY <1>3 DEF ScanStarts, Goto, disk
  <2>2. manifest.names = resources.holds /\ resources.holds \subseteq Shaders
    BY <1>0, <2>1, ShadersAssumption DEF ManifestTrue, Files
  <2> QED BY <2>1, <2>2 DEF Expanding, Whole
<1>4. CASE (ScanEnds \/ ScanFails) /\ pc' \in {"expand", "sources"}
  <2>1. partial'
    BY <1>4 DEF ScanEnds, ScanFails, Goto
  <2> QED BY <2>1 DEF Expanding
<1>5. CASE ManifestRenamed
  <2>1. /\ pc = "rename" /\ pc' = "expand"
        /\ UNCHANGED <<resources, source, resourcesBefore, unseen>>
    BY <1>5 DEF ManifestRenamed, Goto, looks, history
  <2>2. resourcesBefore[1] = resources => scanned = resources.stamp
    <3>1. /\ resourcesBefore[1].stamp <= scanned /\ scanned <= resources.stamp
          /\ scanned \in Nat
      BY <1>0, <2>1, ShadersAssumption DEF Scanner, Scanning, Resources
    <3> QED BY <1>0, <3>1, Stamps
  <2> QED BY <1>0, <2>1, <2>2 DEF Scanning, Expanding, Whole
<1>6. CASE Expand \/ SourceWritten
  <2>1. UNCHANGED <<pc, resources, resourcesBefore, partial, unseen>> /\ pc # "sources"
    BY <1>6 DEF Expand, SourceWritten, looks, history
  <2>2. Whole(source) \subseteq Whole(source')
    <3>1. CASE Expand
      BY <1>0, <3>1 DEF Expand, SaveSource, Write, Whole, Files
    <3>2. CASE SourceWritten
      BY <1>0, <3>2 DEF SourceWritten, Whole
    <3> QED BY <1>6, <3>1, <3>2
  <2> QED BY <1>0, <2>1, <2>2 DEF Expanding
<1>7. CASE Expanded
  <2>1. /\ pc = "expand" /\ UNCHANGED <<resources, source, resourcesBefore, partial, unseen>>
        /\ \A s \in Derived : source[s] = "whole"
    BY <1>7 DEF Expanded, disk, looks, scan, history
  <2>2. Derived = Static \cup UNION {Variants[s] : s \in Whole(source)}
    BY DEF Derived, Whole
  <2>3. Derived \subseteq Shaders
    BY <2>2, ShadersAssumption DEF Whole
  <2>4. Derived \subseteq Whole(source)
    BY <2>1, <2>3 DEF Whole
  <2>5. Static \subseteq Whole(source) /\ Closed(Whole(source))
    BY <2>2, <2>4 DEF Closed
  <2> QED BY <1>0, <2>1, <2>5 DEF Expanding, Closed, Whole
<1> QED BY <1>1, <1>2, <1>3, <1>4, <1>5, <1>6, <1>7, Entering

\* Sources go and do not come back until they are looked at again.
LEMMA PreparingPreserved ==
  ASSUME IInv, Next
  PROVE  Preparing'
<1>0. Files /\ Scanner /\ Writer /\ Resources /\ Expanding /\ Preparing
  BY FilesOf DEF IInv
<1> USE DEF Before
<1>1. CASE pc' \notin {"enumerate", "prepare", "recheck"}
  BY <1>1 DEF Preparing
<1>2. CASE Outside /\ pc' \in {"enumerate", "prepare", "recheck"}
  <2>1. UNCHANGED <<pc, resourcesBefore, sourcesBefore, partial, paths, done, open, records>>
    BY <1>0, <1>2, OutsideSteps DEF scan, looks, preparation
  <2>2. \A s \in Shaders : source'[s] \in {source[s], "none"}
    BY <1>0, <1>2, OutsideSteps DEF Files
  <2>3. Present' \subseteq Present
    BY <2>2 DEF Present
  <2>4. \A s \in Shaders : source'[s] \in {Before'[s], "none"}
    BY <1>0, <1>2, <2>1, <2>2 DEF Preparing
  <2>5. resourcesBefore'[1] = resources' => resourcesBefore[1] = resources /\ resources' = resources
    <3>1. CASE resources'.stamp = resources.stamp + 1
      BY <1>0, <1>2, <2>1, <3>1, Stamps DEF Resources, SinceBefore
    <3>2. CASE UNCHANGED resources
      BY <2>1, <3>2
    <3> QED BY <1>0, <1>2, <3>1, <3>2, OutsideSteps
  <2>6. ~unseen' => ~unseen
    BY <1>0, <1>2, OutsideSteps
  <2> QED BY <1>0, <2>1, <2>3, <2>4, <2>5, <2>6 DEF Preparing, Held, Whole
<1>3. CASE LookAtSources
  <2>1. /\ pc = "sources" /\ pc' = "enumerate" /\ Before' = source
        /\ UNCHANGED <<resources, source, resourcesBefore, partial, unseen>>
    BY <1>3 DEF LookAtSources, Snapshot, Goto, disk, scan, history
  <2>2. Whole(source) \subseteq Held(source)
    BY DEF Whole, Held
  <2>3. ~unseen /\ ~partial =>
            /\ resourcesBefore[1] = resources => resources.holds \subseteq Held(source)
            /\ Static \subseteq Held(source)
            /\ \A s \in Whole(source) : Variants[s] \subseteq Held(source)
    BY <1>0, <2>1, <2>2 DEF Expanding, Closed
  <2> QED BY <2>1, <2>3 DEF Preparing, Held, Whole
<1>4. CASE Enumerate
  <2>1. /\ pc = "enumerate" /\ pc' = "prepare" /\ UNCHANGED <<disk, looks>>
        /\ paths' = Present /\ done' = {} /\ records' = {} /\ open' = ~partial
    BY <1>4 DEF Enumerate, Goto
  <2>2. Present \subseteq Held(Before)
    BY <1>0, <2>1 DEF Preparing, Present, Held
  <2>3. unseen' = unseen /\ partial' = partial
    BY <1>4 DEF Enumerate, history, scan
  <2> QED
    BY <1>0, <2>1, <2>2, <2>3 DEF Preparing, Present, Held, Whole, disk, looks
<1>5. ASSUME NEW s \in Shaders, Prepare(s) PROVE Preparing'
  <2>1. /\ pc = "prepare" /\ UNCHANGED <<pc, resources, source, looks, paths, unseen>>
        /\ done' = done \cup {s} /\ s \in paths
    BY <1>5 DEF Prepare, history
  <2>2. open' => open /\ source[s] = "whole"
    <3>1. CASE source[s] = "whole"
      <4>1. PICK outcome \in Outcomes, kept \in BOOLEAN : Install(s, outcome, kept)
        BY <1>5, <3>1 DEF Prepare
      <4> QED BY <3>1, <4>1 DEF Install
    <3>2. CASE source[s] # "whole"
      BY <1>5, <3>2 DEF Prepare
    <3> QED BY <3>1, <3>2
  <2>3. source[s] = "whole" => s \in Whole(Before)
    BY <1>0, <2>1 DEF Preparing, Whole
  <2> QED BY <1>0, <2>1, <2>2, <2>3 DEF Preparing, Present, Held, Whole, looks
<1>6. CASE Prepared /\ pc' \in {"enumerate", "prepare", "recheck"}
  <2>1. /\ pc = "prepare" /\ pc' = "recheck" /\ done = paths /\ open
        /\ UNCHANGED <<disk, looks, preparation, unseen>>
    BY <1>6 DEF Prepared, Leave, Stay, Goto
  <2> QED
    BY <1>0, <2>1 DEF Preparing, Present, Held, Whole, disk, looks, preparation
<1> QED BY <1>1, <1>2, <1>3, <1>4, <1>5, <1>6, Entering

\* What is published is what the last looks have found unchanged.
LEMMA RecheckedPreserved ==
  ASSUME IInv, Next
  PROVE  Rechecked'
<1>0. Files /\ Writer /\ Resources /\ Installing /\ Preparing /\ Rechecked
  BY FilesOf DEF IInv
<1>1. CASE pc' \notin {"recheck2", "final", "publish"} \/ unseen'
  BY <1>1 DEF Rechecked
<1>2. CASE Outside /\ pc' \in {"recheck2", "final", "publish"} /\ ~unseen'
  <2>1. UNCHANGED <<pc, resourcesBefore, identity, records>> /\ ~unseen
    BY <1>0, <1>2, OutsideSteps DEF looks, preparation
  <2>2. CASE pc = "publish"
    BY <1>0, <2>1, <2>2 DEF Rechecked, Certified, Closed, Held, Truth, Outcome
  <2>3. CASE pc \in {"recheck2", "final"}
    <3>1. UNCHANGED source
      BY <1>0, <1>2, <2>3, OutsideSteps DEF SourceUnseen
    <3>2. resourcesBefore'[1] = resources' => resourcesBefore[1] = resources /\ resources' = resources
      <4>1. CASE resources'.stamp = resources.stamp + 1
        BY <1>0, <2>1, <2>3, <4>1, Stamps DEF Resources, SinceBefore
      <4>2. CASE UNCHANGED resources
        BY <2>1, <4>2
      <4> QED BY <1>0, <1>2, <4>1, <4>2, OutsideSteps
    <3> QED BY <1>0, <2>1, <2>3, <3>1, <3>2 DEF Rechecked, Closed, Present, Truth, Outcome
  <2> QED BY <1>2, <2>1, <2>2, <2>3
<1>3. CASE RecheckSources /\ pc' \in {"recheck2", "final", "publish"} /\ ~unseen'
  <2>1. /\ pc = "recheck" /\ pc' = "recheck2" /\ Before = source /\ ~unseen
        /\ UNCHANGED <<resources, source, resourcesBefore, records>>
    BY <1>3 DEF RecheckSources, Snapshot, Before, Leave, Stay, Goto, disk, looks, preparation
  <2>2. /\ Present \subseteq paths /\ paths \subseteq Held(source) /\ open
        /\ done = paths /\ done \subseteq Whole(source) /\ records = Truth(done)
    BY <1>0, <2>1 DEF Preparing, Installing, Late
  <2>3. Held(source) = Present
    BY DEF Held, Present
  <2>4. done = Present
    BY <2>2, <2>3
  <2>5. /\ resourcesBefore[1] = resources => resources.holds \subseteq Present
        /\ Static \subseteq Present
        /\ \A s \in Whole(source) : Variants[s] \subseteq Present
    BY <1>0, <2>1, <2>2, <2>3 DEF Preparing
  <2>6. Closed(Present)
    BY <2>2, <2>4, <2>5 DEF Closed
  <2>7. records = Truth(Present)
    BY <2>2, <2>4
  <2> QED BY <2>1, <2>5, <2>6, <2>7 DEF Rechecked, Closed, Present, Truth, Outcome
<1>4. CASE RecheckResources /\ pc' \in {"recheck2", "final", "publish"}
  <2>1. /\ pc = "recheck2" /\ pc' = "final"
        /\ UNCHANGED <<resources, source, resourcesBefore, records, unseen>>
    BY <1>4 DEF RecheckResources, Leave, Stay, Goto, disk, looks, preparation
  <2> QED BY <1>0, <2>1 DEF Rechecked, Closed, Present, Truth, Outcome
<1>5. CASE LookAtAll /\ ~unseen'
  <2>1. /\ pc = "final" /\ pc' = "publish" /\ UNCHANGED records /\ ~unseen
        /\ identity'[1] = resources /\ identity'[2][1] = source
    BY <1>5 DEF LookAtAll, Snapshot, Goto, preparation, history
  <2>2. /\ records = Truth(Present) /\ resources.holds \subseteq Present
        /\ Static \subseteq Present /\ Closed(Present)
    BY <1>0, <2>1 DEF Rechecked, Resources
  <2>3. Held(source) = Present
    BY DEF Held, Present
  <2>4. Certified(identity', records)
    BY <2>1, <2>2, <2>3 DEF Certified
  <2> QED BY <2>1, <2>4 DEF Rechecked, Certified, Closed, Held, Truth, Outcome
<1> QED BY <1>1, <1>2, <1>3, <1>4, <1>5, Entering

\* Before the first start there is nothing to certify.
LEMMA Initially == Init => IInv
<1> SUFFICES ASSUME Init PROVE IInv
  OBVIOUS
<1>1. pc = "off" /\ bundle = None /\ manifest = None /\ installed = Nobody
  BY DEF Init
<1> QED
  BY <1>1, TypeInitially
     DEF IInv, BundleCertified, Loaded, Installing, Early, Late, ManifestTrue, Scanning, Resources,
         Expanding, Preparing, Rechecked, SinceBefore

\* The parts are inductive together.
LEMMA Inductive == IInv /\ [Next]_vars => IInv'
<1> SUFFICES ASSUME IInv, [Next]_vars PROVE IInv'
  OBVIOUS
<1>1. TypeInv'
  BY TypeInductive DEF IInv
<1>2. CASE Next
  BY <1>1, <1>2, BundlePreserved, LoadedPreserved, InstallingPreserved, ManifestPreserved,
     ScanningPreserved, ResourcesPreserved, ExpandingPreserved, PreparingPreserved,
     RecheckedPreserved DEF IInv
<1>3. CASE UNCHANGED vars
  <2>1. UNCHANGED <<resources, source, manifest, bundle, pc, identity, resourcesBefore, sourcesBefore,
                    scanned, visited, found, writing, partial, paths, done, open, records,
                    installed, unseen>>
    BY <1>3 DEF vars, disk, looks, scan, preparation, history
  <2>2. BundleCertified' /\ ManifestTrue'
    BY <2>1 DEF IInv, BundleCertified, Certified, Closed, Held, Truth, Outcome, ManifestTrue
  <2>3. Loaded' /\ Installing'
    BY <2>1 DEF IInv, Loaded, Installing, Nobody, Truth, Outcome
  <2>4. Scanning' /\ Resources' /\ Expanding'
    BY <2>1 DEF IInv, Scanning, Resources, Expanding, Closed, Whole
  <2>5. Preparing' /\ Rechecked'
    BY <2>1 DEF IInv, Preparing, Before, Rechecked, Certified, Closed, Present, Held, Whole, Truth,
                Outcome
  <2> QED BY <1>1, <2>2, <2>3, <2>4, <2>5 DEF IInv
<1> QED BY <1>2, <1>3

------------------------------------------------------------------------------
(* Theorems *)

\* The variables keep their types.
THEOREM TypeCorrect == Spec => []TypeOK
<1>1. TypeInv => TypeOK
  BY DEF TypeInv
<1> QED BY <1>1, TypeInitially, TypeInductive, PTL DEF Spec

\* What has been looked at stands, from the scan to the bundle, as long as no
\* change comes behind the look; that what is consumed, prepared and recorded is
\* true does not depend on that (Renderer::PrepareKnownShaders).
THEOREM Invariance == Spec => []IInv
BY Initially, Inductive, PTL DEF Spec

\* What is wanted of the files there are is there, if they are certified.
LEMMA AllWanted ==
  ASSUME NEW recs, Certified(Snapshot(TRUE, TRUE), recs)
  PROVE  Wanted \subseteq Present /\ recs = Truth(Present)
<1>1. Snapshot(TRUE, TRUE)[1] = resources /\ Snapshot(TRUE, TRUE)[2][1] = source
  BY DEF Snapshot
<1>2. Held(source) = Present
  BY DEF Held, Present
<1>3. resources.holds \cup Static \subseteq Present /\ Closed(Present) /\ recs = Truth(Present)
  BY <1>1, <1>2 DEF Certified
<1> QED BY <1>3 DEF Wanted, Closed

\* The map of such records is complete.
LEMMA TrueMap ==
  ASSUME NEW map, Wanted \subseteq Present,
         \A s \in Shaders : map[s] = IF s \in Present THEN Outcome(s) ELSE "none"
  PROVE  Complete(map)
BY DEF Complete

\* True records, read into a map.
LEMMA RecordsRead ==
  ASSUME NEW names, NEW recs, recs = Truth(names), NEW s \in Shaders
  PROVE  FromRecords(recs)[s] = IF s \in names THEN Outcome(s) ELSE "none"
<1>1. /\ <<s, "rejected">> \in recs <=> s \in names /\ "rejected" = Outcome(s)
      /\ <<s, "module">> \in recs <=> s \in names /\ "module" = Outcome(s)
  BY DEF Truth
<1>2. Outcome(s) \in {"rejected", "module"}
  BY DEF Outcome
<1> QED BY <1>1, <1>2 DEF FromRecords

\* Whatever was removed, changed or not written, and whenever the program
\* stopped: every record of a bundle is true, and a bundle that certifies the
\* files there are holds the outcome of every one of them, of every shader of the
\* game's files and the executable and of what is derived from them, unless a
\* change came behind a look (startup_cache.h, Renderer::PrepareKnownShaders).
THEOREM Faithful == Spec => []BundleFaithful
<1>1. IInv => BundleFaithful
  <2> SUFFICES ASSUME IInv, bundle # None
               PROVE  /\ \A r \in bundle.records : r[2] = Outcome(r[1])
                      /\ ~bundle.unseen => CertifiedIsComplete
    BY DEF BundleFaithful
  <2>1. \A r \in bundle.records : r[2] = Outcome(r[1])
    BY DEF IInv, BundleCertified, Truth
  <2>2. SUFFICES ASSUME ~bundle.unseen, bundle.snapshot = Snapshot(TRUE, TRUE)
                 PROVE  Complete(FromRecords(bundle.records))
    BY <2>1 DEF CertifiedIsComplete
  <2>3. Certified(Snapshot(TRUE, TRUE), bundle.records)
    BY <2>2 DEF IInv, BundleCertified
  <2>4. Wanted \subseteq Present /\ bundle.records = Truth(Present)
    BY <2>2, <2>3, AllWanted
  <2> QED BY <2>4, RecordsRead, TrueMap
<1> QED BY <1>1, Invariance, PTL

\* The step to "ready" that ends a start.
LEMMA LastStep ==
  ASSUME Next, pc' = "ready", pc \notin {"ready", "get"}
  PROVE  \/ Validate /\ pc = "validate" /\ identity = Snapshot(TRUE, TRUE) /\ UNCHANGED installed
         \/ pc \in Late /\ UNCHANGED installed
<1> USE DEF Goto, Late
<1>1. \/ Validate \/ Prepared \/ RecheckSources \/ RecheckResources \/ Publish
  BY DEF Next, Program, Start, Load, Consume, Consumed, ConsumeFails, FallBack, LookAtResources,
         ScanStarts, ScanEnds, ManifestRenamed, Expand, SourceWritten, Expanded, LookAtSources,
         Enumerate, LookAtAll, GetShaderContinues, Stop, ScanVisits, Prepare, ScanFails, GetShader,
         ChangeResources, RemoveSource, SpoilBinary, Process
<1>2. CASE Validate
  BY <1>2 DEF Validate, FallBack
<1>3. CASE Prepared \/ RecheckSources \/ RecheckResources \/ Publish
  BY <1>3 DEF Prepared, RecheckSources, RecheckResources, Publish
<1> QED BY <1>1, <1>2, <1>3

\* A start that takes the bundle, and the one that has just prepared it, has the
\* shaders of a start that does all the work, unless a change came behind a look;
\* a start that did not take it has only what it prepared (LoadTransactional).
THEOREM WarmStart == Spec => WarmIsCold
<1>1. IInv /\ [Next]_vars =>
        [pc' = "ready" /\ pc \notin {"ready", "get"} =>
            /\ pc = "validate" /\ ~bundle.unseen => Complete(installed)
            /\ pc = "publish" /\ ~unseen /\ identity = Snapshot(TRUE, TRUE) => Complete(installed)
            /\ pc # "validate" => \A s \in Shaders : installed[s] # "none" => s \in done]_vars
  <2> SUFFICES ASSUME IInv, Next, pc' = "ready", pc \notin {"ready", "get"}
               PROVE  /\ pc = "validate" /\ ~bundle.unseen => Complete(installed)
                      /\ pc = "publish" /\ ~unseen /\ identity = Snapshot(TRUE, TRUE)
                            => Complete(installed)
                      /\ pc # "validate" => \A s \in Shaders : installed[s] # "none" => s \in done
    OBVIOUS
  <2>0. installed \in [Shaders -> Known]
    BY FilesOf DEF Memory
  <2>1. ASSUME pc = "validate", ~bundle.unseen PROVE Complete(installed)
    <3>1. identity = Snapshot(TRUE, TRUE)
      BY <2>1, LastStep DEF Late
    <3>2. /\ bundle # None /\ bundle.snapshot = identity
          /\ \A s \in Shaders : installed[s] # "none" => <<s, installed[s]>> \in bundle.records
          /\ \A r \in bundle.records : installed[r[1]] # "none"
      BY <2>1 DEF IInv, Loaded
    <3>3. Certified(Snapshot(TRUE, TRUE), bundle.records)
      BY <2>1, <3>1, <3>2 DEF IInv, BundleCertified
    <3>4. Wanted \subseteq Present /\ bundle.records = Truth(Present)
      BY <3>3, AllWanted
    <3>5. ASSUME NEW s \in Shaders
          PROVE  installed[s] = IF s \in Present THEN Outcome(s) ELSE "none"
      <4>1. CASE s \in Present
        <5>1. <<s, Outcome(s)>> \in bundle.records
          BY <3>4, <4>1 DEF Truth
        <5>2. installed[s] # "none"
          BY <3>2, <5>1
        <5> QED BY <3>2, <3>4, <4>1, <5>2, TrueRecord
      <4>2. CASE s \notin Present
        <5>1. ASSUME installed[s] # "none" PROVE FALSE
          <6>1. <<s, installed[s]>> \in Truth(Present)
            BY <3>2, <3>4, <5>1
          <6> QED BY <4>2, <6>1, TrueRecord
        <5> QED BY <4>2, <5>1
      <4> QED BY <4>1, <4>2
    <3> QED BY <3>4, <3>5, TrueMap
  <2>2. ASSUME pc = "publish", ~unseen, identity = Snapshot(TRUE, TRUE) PROVE Complete(installed)
    <3>1. Certified(Snapshot(TRUE, TRUE), records)
      BY <2>2 DEF IInv, Rechecked
    <3>2. Wanted \subseteq Present /\ records = Truth(Present)
      BY <3>1, AllWanted
    <3>3. /\ records = Truth(done) /\ \A s \in done : installed[s] = Outcome(s)
          /\ \A s \in Shaders : installed[s] # "none" => s \in done
      BY <2>2 DEF IInv, Installing, Late
    <3>4. done = Present
      <4>1. \A s : s \in done <=> <<s, Outcome(s)>> \in records
        BY <3>3 DEF Truth
      <4>2. \A s : s \in Present <=> <<s, Outcome(s)>> \in records
        BY <3>2 DEF Truth
      <4> QED BY <4>1, <4>2
    <3> QED BY <3>2, <3>3, <3>4, TrueMap
  <2>3. ASSUME pc # "validate", NEW s \in Shaders, installed[s] # "none" PROVE s \in done
    <3>1. pc \in Late
      BY <2>3, LastStep
    <3> QED BY <2>3, <3>1 DEF IInv, Installing
  <2> QED BY <2>1, <2>2, <2>3
<1> QED BY <1>1, Invariance, PTL DEF Spec, WarmIsCold
==============================================================================
