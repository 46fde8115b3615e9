------------------------------ MODULE StartupCache ------------------------------
(* The shaders known at start-up: Renderer::PrepareKnownShaders, the bundle of *)
(* gpu/shader/startup_cache.h that spares it the work, and the shaders the     *)
(* game adds later (Renderer::GetShader).                                      *)
(*                                                                             *)
(* Shaders are named by the hash of their code, so a source file is whole or   *)
(* torn.  A snapshot is the files it looks at: what size and time do not show  *)
(* is left out, so is the time of a file written again with the same content   *)
(* (the code's snapshot tells the two apart, and the start is cold once more), *)
(* and so are the compiler's and the program's own versions.  The              *)
(* workers' queue is PreparationQueue's: a source is prepared and installed in *)
(* one step, in any order.  Files put aside under temporary names, which no    *)
(* snapshot lists, are left out too.                                           *)
EXTENDS Integers, FiniteSets

CONSTANTS
    Shaders,
    Discs,          \* sets of shaders the game's files may hold
    Static,         \* shaders in the executable
    Variants,       \* the shaders derived from each
    Rejected,       \* shaders the compiler refuses
    MaxTroubles     \* bound: failures, changes from outside and crashes

ASSUME ShadersAssumption ==
    /\ Discs \subseteq SUBSET Shaders /\ Static \subseteq Shaders /\ Rejected \subseteq Shaders
    /\ Variants \in [Shaders -> SUBSET Shaders]
    /\ MaxTroubles \in Nat

VARIABLES
    resources,      \* the game's files: what they hold, and when they changed
    source, manifest, binary, failed,       \* the cache directory's files
    bundle,
    pc, identity, resourcesBefore, sourcesBefore,
    scanned, visited, found, writing,       \* Scan and the expansion
    partial,        \* the scan or the expansion failed
    paths, done, open, records,             \* preparation, and the bundle's writer
    installed,      \* shaders, by what is known of them
    warm,           \* this start took the bundle
    unseen,         \* not the program's: a change no later look of this start shows
    troubles        \* what went wrong so far

disk == <<resources, source, manifest, binary, failed, bundle>>
looks == <<identity, resourcesBefore, sourcesBefore>>
scan == <<scanned, visited, found, writing, partial>>
preparation == <<paths, done, open, records>>
history == <<warm, unseen>>
vars == <<disk, pc, looks, scan, preparation, installed, history, troubles>>

Trouble == troubles < MaxTroubles /\ troubles' = troubles + 1
Smooth == UNCHANGED troubles

None == [none |-> TRUE]
NoLook == <<>>
Nobody == [s \in Shaders |-> "none"]
Goto(place) == pc' = place

Snapshot(compiled, sources) ==
    <<resources, IF sources THEN <<source, manifest>> ELSE <<>>,
      IF compiled /\ sources THEN <<binary, failed>> ELSE <<>> >>

Present == {s \in Shaders : source[s] # "none"}

Init ==
    /\ resources \in [holds : Discs, stamp : {0}]
    /\ source = Nobody /\ manifest = None /\ binary = Nobody /\ failed = {} /\ bundle = None
    /\ pc = "off" /\ identity = NoLook /\ resourcesBefore = NoLook /\ sourcesBefore = NoLook
    /\ scanned = 0 /\ visited = {} /\ found = {} /\ writing = {} /\ partial = FALSE
    /\ paths = {} /\ done = {} /\ open = FALSE /\ records = {}
    /\ installed = Nobody /\ warm = FALSE /\ unseen = FALSE /\ troubles = 0

------------------------------------------------------------------------------
(* The bundle *)

Start ==
    /\ pc = "off"
    /\ identity' = Snapshot(TRUE, TRUE)
    /\ Goto("load")
    /\ UNCHANGED <<disk, resourcesBefore, sourcesBefore, scan, preparation, installed, history, troubles>>

BundleMatches == bundle # None /\ bundle.snapshot = identity

\* Load's first pass: the identity, the records' digests and the bundle's.
Load ==
    /\ pc = "load"
    /\ \/ BundleMatches /\ Smooth /\ Goto("consume") /\ UNCHANGED identity
       \/ /\ IF BundleMatches THEN Trouble ELSE Smooth
          /\ Goto("before") /\ identity' = NoLook
    /\ UNCHANGED <<disk, resourcesBefore, sourcesBefore, scan, preparation, installed, history>>

\* The second pass installs the records one by one.
Consume(s) ==
    /\ pc = "consume" /\ installed[s] = "none"
    /\ \E outcome \in {"module", "rejected"} :
          <<s, outcome>> \in bundle.records /\ installed' = [installed EXCEPT ![s] = outcome]
    /\ UNCHANGED <<disk, pc, looks, scan, preparation, history, troubles>>

Consumed ==
    /\ pc = "consume" /\ \A r \in bundle.records : installed[r[1]] # "none"
    /\ Goto("validate")
    /\ UNCHANGED <<disk, looks, scan, preparation, installed, history, troubles>>

\* fault: what has been consumed stays
RollBackNothing == UNCHANGED installed

RollBack == installed' = Nobody

FallBack == RollBack /\ identity' = NoLook /\ Goto("before")

\* The file cannot be read again, or the device refuses a module.
ConsumeFails ==
    /\ pc = "consume" /\ Trouble /\ FallBack
    /\ UNCHANGED <<disk, resourcesBefore, sourcesBefore, scan, preparation, history>>

\* LoadTransactional: validateInputs, and the rollback.
Validate ==
    /\ pc = "validate"
    /\ IF identity = Snapshot(TRUE, TRUE)
       THEN warm' = TRUE /\ identity' = NoLook /\ Goto("ready") /\ UNCHANGED installed
       ELSE FallBack /\ UNCHANGED warm
    /\ UNCHANGED <<disk, resourcesBefore, sourcesBefore, scan, preparation, unseen, troubles>>

------------------------------------------------------------------------------
(* The sources *)

\* resourcesBefore; then Scan looks at the manifest, and reuses what it lists if
\* it is of these resources and every source is whole.
LookAtResources ==
    /\ pc = "before"
    /\ resourcesBefore' = Snapshot(FALSE, FALSE)
    /\ partial' = FALSE /\ unseen' = FALSE /\ Goto("manifest")
    /\ UNCHANGED <<disk, identity, sourcesBefore, scanned, visited, found, writing, preparation,
                   installed, warm, troubles>>

ScanStarts ==
    /\ pc = "manifest"
    /\ scanned' = resources.stamp /\ visited' = {} /\ found' = {}
    /\ Goto(IF /\ manifest # None /\ manifest.stamp = resources.stamp
               /\ \A s \in manifest.names : source[s] = "whole"
            THEN "expand" ELSE "scan")
    /\ UNCHANGED <<disk, looks, writing, partial, preparation, installed, history, troubles>>

\* A file is not written atomically.  SaveSource leaves a whole one alone,
\* ExtractIndexed writes it again.
Write(s) == source' = [source EXCEPT ![s] = "torn"] /\ writing' = {s}
SaveSource(s) == IF source[s] = "whole" THEN UNCHANGED <<source, writing>> ELSE Write(s)

ScanVisits(s) ==
    /\ pc = "scan" /\ writing = {} /\ s \notin visited
    /\ visited' = visited \cup {s}
    /\ IF s \in resources.holds THEN (SaveSource(s) \/ Write(s)) /\ found' = found \cup {s}
       ELSE UNCHANGED <<source, writing, found>>
    /\ UNCHANGED <<resources, manifest, binary, failed, bundle, pc, looks, scanned, partial,
                   preparation, installed, history, troubles>>

\* The old manifest is removed before the new one takes its name.
ScanEnds ==
    /\ pc = "scan" /\ writing = {} /\ visited = Shaders
    /\ IF found = {} THEN partial' = TRUE /\ Goto("expand") /\ UNCHANGED manifest
       ELSE manifest' = None /\ Goto("rename") /\ UNCHANGED partial
    /\ visited' = {}
    /\ UNCHANGED <<resources, source, binary, failed, bundle, looks, scanned, found, writing,
                   preparation, installed, history, troubles>>

ManifestRenamed ==
    /\ pc = "rename"
    /\ manifest' = [stamp |-> scanned, names |-> found]
    /\ scanned' = 0 /\ found' = {}
    /\ Goto("expand")
    /\ UNCHANGED <<resources, source, binary, failed, bundle, looks, visited, writing, partial,
                   preparation, installed, history, troubles>>

\* ExtractXexShaders and the variants of the sources that are whole.
Derived == Static \cup UNION {Variants[s] : s \in {t \in Shaders : source[t] = "whole"}}

Expand ==
    /\ pc = "expand" /\ writing = {}
    /\ \E s \in Derived : source[s] # "whole" /\ SaveSource(s)
    /\ UNCHANGED <<resources, manifest, binary, failed, bundle, pc, looks, scanned, visited, found, partial,
                   preparation, installed, history, troubles>>

SourceWritten ==
    /\ pc \in {"scan", "expand"} /\ writing # {}
    /\ source' = [s \in Shaders |-> IF s \in writing THEN "whole" ELSE source[s]]
    /\ writing' = {}
    /\ UNCHANGED <<resources, manifest, binary, failed, bundle, pc, looks, scanned, visited, found, partial,
                   preparation, installed, history, troubles>>

Expanded ==
    /\ pc = "expand" /\ writing = {} /\ \A s \in Derived : source[s] = "whole"
    /\ Goto("sources")
    /\ UNCHANGED <<disk, looks, scan, preparation, installed, history, troubles>>

\* Scan or the expansion stops at a file it cannot read or write.
ScanFails ==
    /\ pc \in {"scan", "rename", "expand"} /\ Trouble
    /\ partial' = TRUE
    /\ scanned' = 0 /\ visited' = {} /\ found' = {} /\ writing' = {}
    /\ Goto(IF pc = "expand" THEN "sources" ELSE "expand")
    /\ UNCHANGED <<disk, looks, preparation, installed, history>>

------------------------------------------------------------------------------
(* Preparation *)

LookAtSources ==
    /\ pc = "sources"
    /\ sourcesBefore' = Snapshot(FALSE, TRUE)
    /\ Goto("enumerate")
    /\ UNCHANGED <<disk, identity, resourcesBefore, scan, preparation, installed, history, troubles>>

Enumerate ==
    /\ pc = "enumerate"
    /\ paths' = Present /\ done' = {} /\ records' = {} /\ open' = ~partial
    /\ Goto("prepare")
    /\ UNCHANGED <<disk, looks, scan, installed, history, troubles>>

Outcome(s) == IF s \in Rejected THEN "rejected" ELSE "module"

Stored(s) ==
    IF s \in Rejected THEN failed' = failed \cup {s} /\ UNCHANGED binary
    ELSE binary' = [binary EXCEPT ![s] = "whole"] /\ UNCHANGED failed
Cached(s) == binary[s] = "whole" \/ s \in failed

\* What the caches, the compiler and createShader make of s, and whether it is
\* good for the bundle: not if the compiler fails, the device refuses the module
\* or a file cannot be written.
Produce(s, outcome, kept) ==
    \/ Smooth /\ outcome = Outcome(s) /\ kept /\ Stored(s)
    \/ /\ Trouble /\ ~kept
       /\ \/ outcome = Outcome(s) /\ (Stored(s) \/ UNCHANGED <<binary, failed>>)
          \/ outcome = "broken" /\ s \notin Rejected /\ Stored(s)
          \/ outcome = "error" /\ ~Cached(s) /\ UNCHANGED <<binary, failed>>
Outcomes == {"module", "rejected", "broken", "error"}

\* fault: an error closes the bundle's writer and leaves what it has written
InstallKeepsRecords(s, outcome, kept) ==
    /\ installed' = IF outcome = "error" THEN installed ELSE [installed EXCEPT ![s] = outcome]
    /\ open' = (open /\ kept)
    /\ records' = IF open' THEN records \cup {<<s, outcome>>} ELSE records

Install(s, outcome, kept) ==
    /\ installed' = IF outcome = "error" THEN installed ELSE [installed EXCEPT ![s] = outcome]
    /\ open' = (open /\ kept)
    /\ records' = IF open' THEN records \cup {<<s, outcome>>} ELSE {}

\* fault: what the compiler refuses is an error like any other
PrepareForgetsRejected(s) ==
    /\ pc = "prepare" /\ s \in paths \ done
    /\ done' = done \cup {s}
    /\ IF source[s] = "whole"
       THEN \E outcome \in Outcomes, kept \in BOOLEAN :
               Produce(s, outcome, kept) /\ Install(s, outcome, kept /\ outcome # "rejected")
       ELSE open' = FALSE /\ records' = {} /\ UNCHANGED <<binary, failed, installed, troubles>>
    /\ UNCHANGED <<resources, source, manifest, bundle, pc, looks, scan, paths, history>>

\* A source that is gone or torn is an error: there will be no bundle.
Prepare(s) ==
    /\ pc = "prepare" /\ s \in paths \ done
    /\ done' = done \cup {s}
    /\ IF source[s] = "whole"
       THEN \E outcome \in Outcomes, kept \in BOOLEAN :
               Produce(s, outcome, kept) /\ Install(s, outcome, kept)
       ELSE open' = FALSE /\ records' = {} /\ UNCHANGED <<binary, failed, installed, troubles>>
    /\ UNCHANGED <<resources, source, manifest, bundle, pc, looks, scan, paths, history>>

Leave ==
    /\ Goto("ready") /\ open' = FALSE /\ records' = {} /\ paths' = {} /\ done' = {}
    /\ identity' = NoLook /\ resourcesBefore' = NoLook /\ sourcesBefore' = NoLook
    /\ unseen' = FALSE
Stay == UNCHANGED <<looks, preparation, unseen>>

\* All sources are done, or the queue stops.
Prepared ==
    /\ pc = "prepare"
    /\ \/ done = paths /\ open /\ Goto("recheck") /\ Stay /\ Smooth
       \/ done = paths /\ ~open /\ Leave /\ Smooth
       \/ done # paths /\ Leave /\ Trouble
    /\ UNCHANGED <<disk, scan, installed, warm>>

RecheckSources ==
    /\ pc = "recheck"
    /\ IF sourcesBefore = Snapshot(FALSE, TRUE) THEN Goto("recheck2") /\ Stay ELSE Leave
    /\ UNCHANGED <<disk, scan, installed, warm, troubles>>

\* fault: only the sources are looked at again
RecheckNoResources ==
    /\ pc = "recheck2"
    /\ Goto("final") /\ Stay
    /\ UNCHANGED <<disk, scan, installed, warm, troubles>>

RecheckResources ==
    /\ pc = "recheck2"
    /\ IF resourcesBefore = Snapshot(FALSE, FALSE) THEN Goto("final") /\ Stay ELSE Leave
    /\ UNCHANGED <<disk, scan, installed, warm, troubles>>

LookAtAll ==
    /\ pc = "final"
    /\ identity' = Snapshot(TRUE, TRUE)
    /\ Goto("publish")
    /\ UNCHANGED <<disk, resourcesBefore, sourcesBefore, scan, preparation, installed, history, troubles>>

\* Finish refuses a bundle of no records, and may fail to write or to rename it.
Publish ==
    /\ pc = "publish"
    /\ \/ records # {} /\ Smooth /\ bundle' = [snapshot |-> identity, records |-> records, unseen |-> unseen]
       \/ UNCHANGED bundle /\ IF records = {} THEN Smooth ELSE Trouble
    /\ Leave
    /\ UNCHANGED <<resources, source, manifest, binary, failed, scan, installed, warm>>

------------------------------------------------------------------------------
(* The game runs and meets shaders nobody knew *)

Resolve(s) ==
    \E outcome \in Outcomes, kept \in BOOLEAN :
        /\ Produce(s, outcome, kept)
        /\ installed' = [installed EXCEPT ![s] = IF outcome = "error" THEN "broken" ELSE outcome]

\* GetShader keeps a source only where there is no file of its name.
GetShader(s) ==
    /\ pc = "ready" /\ installed[s] = "none"
    /\ IF source[s] = "none"
       THEN /\ source' = [source EXCEPT ![s] = "torn"] /\ writing' = {s}
            /\ Goto("get")
            /\ UNCHANGED <<binary, failed, installed, troubles>>
       ELSE Resolve(s) /\ UNCHANGED <<source, writing, pc>>
    /\ UNCHANGED <<resources, manifest, bundle, looks, scanned, visited, found, partial, preparation, history>>

GetShaderContinues ==
    /\ pc = "get"
    /\ \E s \in writing : source' = [source EXCEPT ![s] = "whole"] /\ Resolve(s)
    /\ writing' = {} /\ Goto("ready")
    /\ UNCHANGED <<resources, manifest, bundle, looks, scanned, visited, found, partial, preparation, history>>

\* The process ends and all its memory with it: regularly out of "ready", or in
\* a crash.
Stop ==
    /\ pc # "off"
    /\ IF pc = "ready" THEN Smooth ELSE Trouble
    /\ Goto("off")
    /\ identity' = NoLook /\ resourcesBefore' = NoLook /\ sourcesBefore' = NoLook
    /\ scanned' = 0 /\ visited' = {} /\ found' = {} /\ writing' = {} /\ partial' = FALSE
    /\ paths' = {} /\ done' = {} /\ open' = FALSE /\ records' = {}
    /\ installed' = Nobody /\ warm' = FALSE /\ unseen' = FALSE
    /\ UNCHANGED disk

Program ==
    \/ Start \/ Load \/ Consumed \/ Validate
    \/ LookAtResources \/ ScanStarts \/ ScanEnds \/ ManifestRenamed \/ Expand \/ SourceWritten \/ Expanded
    \/ LookAtSources \/ Enumerate \/ Prepared \/ RecheckSources \/ RecheckResources \/ LookAtAll \/ Publish
    \/ GetShaderContinues \/ Stop
    \/ \E s \in Shaders : Consume(s) \/ ScanVisits(s) \/ Prepare(s)

------------------------------------------------------------------------------
(* The files change from outside, at any time *)

Process == <<pc, looks, scan, preparation, installed, warm>>

\* The places where no later look of this start shows that the resources have
\* changed, or that a source has gone: it was visited or derived before
\* sourcesBefore lists it as missing, or its last look is over.
ResourcesUnseen == {"final"}
SourceUnseen == {"scan", "rename", "expand", "sources", "recheck2", "final"}

ChangeResources ==
    /\ Trouble
    /\ \E d \in Discs : resources' = [holds |-> d, stamp |-> resources.stamp + 1]
    /\ unseen' = (unseen \/ pc \in ResourcesUnseen)
    /\ UNCHANGED <<source, manifest, binary, failed, bundle, Process>>

RemoveSource(s) ==
    /\ Trouble /\ source[s] = "whole"
    /\ source' = [source EXCEPT ![s] = "none"]
    /\ unseen' = (unseen \/ pc \in SourceUnseen)
    /\ UNCHANGED <<resources, manifest, binary, failed, bundle, Process>>

SpoilBinary(s) ==
    /\ Trouble /\ binary[s] = "whole"
    /\ binary' = [binary EXCEPT ![s] = "bad"]
    /\ UNCHANGED <<resources, source, manifest, failed, bundle, unseen, Process>>

Next ==
    \/ Program \/ ConsumeFails \/ ScanFails \/ ChangeResources
    \/ \E s \in Shaders : GetShader(s) \/ RemoveSource(s) \/ SpoilBinary(s)

Spec == Init /\ [][Next]_vars

\* The program goes on, and is started again after it has ended.
FairSpec == Spec /\ WF_vars(Program)

------------------------------------------------------------------------------
(* Properties *)

Known == {"none", "module", "rejected", "broken"}

\* The variables have their types.
TypeOK ==
    /\ resources \in [holds : Discs, stamp : 0 .. MaxTroubles]
    /\ source \in [Shaders -> {"none", "torn", "whole"}] /\ binary \in [Shaders -> {"none", "bad", "whole"}]
    /\ failed \subseteq Rejected
    /\ manifest # None => manifest \in [stamp : 0 .. MaxTroubles, names : (SUBSET Shaders) \ {{}}]
    /\ bundle # None => bundle.records \subseteq Shaders \X {"module", "rejected"} /\ bundle.records # {}
    /\ bundle # None => bundle.unseen \in BOOLEAN
    /\ visited \subseteq Shaders /\ found \subseteq Shaders /\ Cardinality(writing) <= 1
    /\ done \subseteq paths /\ paths \subseteq Shaders /\ scanned \in 0 .. MaxTroubles
    /\ {partial, open, warm, unseen} \subseteq BOOLEAN /\ troubles \in 0 .. MaxTroubles
    /\ records \subseteq done \X {"module", "rejected"} /\ (records # {} => open)
    /\ installed \in [Shaders -> Known]

\* The sources a start that does all the work prepares: those there, those of
\* the game's files and the executable, and what is derived from them.
Wanted ==
    LET bases == Present \cup resources.holds \cup Static
    IN  bases \cup UNION {Variants[s] : s \in bases}

\* The map of a preparation without errors, for the files there are now.
Complete(map) ==
    \A s \in Shaders :
        /\ s \in Wanted => map[s] = Outcome(s)
        /\ s \notin Present => map[s] = "none"

\* What Load makes of a bundle's records.
FromRecords(recs) ==
    [s \in Shaders |-> IF <<s, "rejected">> \in recs THEN "rejected"
                       ELSE IF <<s, "module">> \in recs THEN "module"
                       ELSE "none"]

\* A bundle that certifies the files there are holds a record of every source
\* wanted of them, and no other (renderer.cpp 2187-2189: a bundle whose inputs
\* changed while it was prepared is not published).
CertifiedIsComplete ==
    bundle # None /\ bundle.snapshot = Snapshot(TRUE, TRUE) => Complete(FromRecords(bundle.records))

\* Whatever fails, changes or stops: each record of a bundle is the true outcome
\* of its source, and a bundle that certifies the files there are is complete,
\* unless one of the changes no look shows came while it was prepared.
BundleFaithful ==
    bundle # None =>
        /\ \A r \in bundle.records : r[2] = Outcome(r[1])
        /\ ~bundle.unseen => CertifiedIsComplete

\* A start that takes the bundle ends with the shaders a start that does all the
\* work ends with, and so does the start that has just prepared it, if nothing
\* changed unseen; and a start that had to do the work itself, after part of a
\* bundle was consumed too, ends with nothing but what it has prepared.
WarmIsCold ==
    [][pc' = "ready" /\ pc \notin {"ready", "get"} =>
          /\ pc = "validate" /\ ~bundle.unseen => Complete(installed)
          /\ pc = "publish" /\ ~unseen /\ identity = Snapshot(TRUE, TRUE) => Complete(installed)
          /\ pc # "validate" => \A s \in Shaders : installed[s] # "none" => s \in done]_vars

\* When nothing fails or changes any more the starts take the bundle before
\* long, unless a crash has left a torn source for good, or the scan finds no
\* shader in the game's files.
WarmInTheEnd ==
    \/ <>[](pc = "ready" => warm)
    \/ <>[](pc = "off" => \E s \in Shaders : source[s] = "torn")
    \/ <>[](resources.holds = {})
==============================================================================
