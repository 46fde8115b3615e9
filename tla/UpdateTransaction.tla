--------------------------- MODULE UpdateTransaction ---------------------------
(* Installing an update: the program that prepared it (game or standalone      *)
(* updater) starts the helper and exits once the helper is ready               *)
(* (settings/restart.h), the helper waits for that exit and replaces the       *)
(* installed files one by one, undoing everything when a step fails            *)
(* (tools/updater/helper_main.cpp, updater/apply.cpp).                         *)
(*                                                                             *)
(* A file is abstracted to the version it holds.  Every move and removal may   *)
(* fail, and the machine may stop between any two; a later start of either     *)
(* program may prepare another update in an operation directory of its own.    *)
EXTENDS Integers, Sequences, FiniteSets

CONSTANTS
    Plan,           \* the files of the apply plan, in its order
    Present,        \* those installed before
    Exe, VersionFile,   \* LostOdysseyRecomp.exe and source-version.txt
    Operations      \* bound: updates prepared

File == {Plan[i] : i \in DOMAIN Plan}

ASSUME PlanAssumption ==
    /\ Plan \in Seq(File) /\ Cardinality(File) = Len(Plan) /\ Plan # <<>>
    /\ Present \subseteq File /\ {Exe, VersionFile} \subseteq File
ASSUME OperationsAssumption == Operations \in Nat

Version == {"old", "new"}
Absent == "absent"

VARIABLES
    install, stage, backup,     \* the version of each file in the install, stage and rollback directories
    abandoned,                  \* copies left in the rollback directories of earlier operations
    operations,                 \* updates that may still be prepared
    parent,                     \* the program that prepared the update
    ready,                      \* the handshake event: "closed", "open" or "set"
    helper,                     \* where the helper is
    i,                          \* the file it is at
    hadBackup, placed,          \* the AppliedFile entries
    rollbackFailed,             \* rollbackError is not empty
    before                      \* the installation when the update was prepared

files == <<install, stage, backup, abandoned>>
progress == <<i, hadBackup, placed, rollbackFailed, before>>
vars == <<files, operations, parent, ready, helper, progress>>

Nothing == [f \in File |-> Absent]

Init ==
    /\ install = [f \in File |-> IF f \in Present THEN "old" ELSE Absent]
    /\ stage = Nothing /\ backup = Nothing /\ abandoned = [f \in File |-> {}]
    /\ operations = Operations
    /\ parent = "none" /\ ready = "closed" /\ helper = "none"
    /\ i = 1 /\ hadBackup = {} /\ placed = {} /\ rollbackFailed = FALSE
    /\ before = install

------------------------------------------------------------------------------
(* Preparing, and the parent's side of the handshake *)

\* The game knows its own version; the standalone updater goes by the version
\* file, and by nothing when there is no executable.
OffersUpdate ==
    \/ install[Exe] = "old"
    \/ install[Exe] = Absent \/ install[VersionFile] # "new"

FreshProgress ==
    /\ i' = 1 /\ hadBackup' = {} /\ placed' = {} /\ rollbackFailed' = FALSE
    /\ before' = install

\* fault: one rollback directory for all operations, cleared at the start
PrepareClearsBackups ==
    /\ parent = "none" /\ operations > 0 /\ OffersUpdate
    /\ operations' = operations - 1
    /\ stage' = [f \in File |-> "new"] /\ backup' = Nothing
    /\ abandoned' = abandoned
    /\ parent' = "prepared" /\ FreshProgress
    /\ UNCHANGED <<install, ready, helper>>

\* Download, verification and staging in a new operation directory.  A failure
\* there removes the directory and leaves no trace.
Prepare ==
    /\ parent = "none" /\ operations > 0 /\ OffersUpdate
    /\ operations' = operations - 1
    /\ stage' = [f \in File |-> "new"] /\ backup' = Nothing
    /\ abandoned' = [f \in File |-> abandoned[f] \cup ({backup[f]} \ {Absent})]
    /\ parent' = "prepared" /\ FreshProgress
    /\ UNCHANGED <<install, ready, helper>>

LaunchHelper ==
    /\ parent = "prepared"
    /\ \/ parent' = "waiting" /\ ready' = "open" /\ helper' = "start"
       \/ parent' = "resumed" /\ UNCHANGED <<ready, helper>>
    /\ UNCHANGED <<files, operations, progress>>

ParentSeesReady ==
    /\ parent = "waiting" /\ ready = "set"
    /\ ready' = "closed" /\ parent' = "exiting"
    /\ UNCHANGED <<files, operations, helper, progress>>

\* Ten seconds without an answer; the child is killed whatever it is doing.
ParentTimesOut ==
    /\ parent = "waiting" /\ ready # "set"
    /\ ready' = "closed" /\ parent' = "terminating"
    /\ UNCHANGED <<files, operations, helper, progress>>

TerminateHelper ==
    /\ parent = "terminating"
    /\ helper' = IF helper = "failed" THEN helper ELSE "killed"
    /\ parent' = "resumed"
    /\ UNCHANGED <<files, operations, ready, progress>>

\* The game saves, flushes and leaves; so does one that was resumed, when the
\* user closes it.
ParentExits ==
    /\ parent \in {"exiting", "resumed"}
    /\ parent' = "exited"
    /\ UNCHANGED <<files, operations, ready, helper, progress>>

------------------------------------------------------------------------------
(* The helper *)

Goto(place) == helper' = place

\* The plan is read and validated, the parent and the event are opened.
Open ==
    /\ helper = "start"
    /\ \/ ready # "closed" /\ Goto("opened")
       \/ Goto("failed")
    /\ UNCHANGED <<files, operations, parent, ready, progress>>

SetReady ==
    /\ helper = "opened"
    /\ ready' = IF ready = "open" THEN "set" ELSE ready
    /\ Goto("parked")
    /\ UNCHANGED <<files, operations, parent, progress>>

\* fault: goes on without waiting
ParentGoneUnchecked ==
    /\ helper = "parked"
    /\ Goto("begin")
    /\ UNCHANGED <<files, operations, parent, ready, progress>>

ParentGone ==
    /\ helper = "parked" /\ parent = "exited"
    /\ Goto("begin")
    /\ UNCHANGED <<files, operations, parent, ready, progress>>

\* ValidateApplyPlan again, and an empty rollback directory; either may fail.
Begin ==
    /\ helper = "begin"
    /\ backup' = Nothing
    /\ helper' \in {"moveOut", "failed"}
    /\ UNCHANGED <<install, stage, abandoned, operations, parent, ready, progress>>

f == Plan[i]

\* fault: the backup is forgotten
MoveOutUnrecorded ==
    /\ helper = "moveOut" /\ install[f] # Absent
    /\ install' = [install EXCEPT ![f] = Absent]
    /\ backup' = [backup EXCEPT ![f] = install[f]]
    /\ Goto("place")
    /\ UNCHANGED <<stage, abandoned, operations, parent, ready, progress>>

MoveOut ==
    /\ helper = "moveOut" /\ install[f] # Absent
    /\ install' = [install EXCEPT ![f] = Absent]
    /\ backup' = [backup EXCEPT ![f] = install[f]]
    /\ hadBackup' = hadBackup \cup {f}
    /\ Goto("place")
    /\ UNCHANGED <<stage, abandoned, operations, parent, ready, i, placed, rollbackFailed, before>>

NothingToMoveOut ==
    /\ helper = "moveOut" /\ install[f] = Absent
    /\ Goto("place")
    /\ UNCHANGED <<files, operations, parent, ready, progress>>

Place ==
    /\ helper = "place"
    /\ install' = [install EXCEPT ![f] = stage[f]]
    /\ stage' = [stage EXCEPT ![f] = Absent]
    /\ placed' = placed \cup {f}
    /\ IF i = Len(Plan)
       THEN Goto("updated") /\ UNCHANGED i
       ELSE Goto("moveOut") /\ i' = i + 1
    /\ UNCHANGED <<backup, abandoned, operations, parent, ready, hadBackup, rollbackFailed, before>>

\* A directory that cannot be created, a target that is no regular file, a move
\* that fails: everything applied so far is undone, newest first.
StepFails ==
    /\ helper \in {"moveOut", "place"}
    /\ Goto("undoRemove")
    /\ UNCHANGED <<files, operations, parent, ready, progress>>

\* fault: runs on past the first file
UndoneRunsOn == Goto("undoRemove") /\ i' = i - 1

Undone == IF i = 1 THEN Goto("failed") /\ UNCHANGED i
                   ELSE Goto("undoRemove") /\ i' = i - 1

UndoRemove ==
    /\ helper = "undoRemove"
    /\ \/ f \in placed /\ install' = [install EXCEPT ![f] = Absent] /\ UNCHANGED rollbackFailed
       \/ f \in placed /\ rollbackFailed' = TRUE /\ UNCHANGED install
       \/ f \notin placed /\ UNCHANGED <<install, rollbackFailed>>
    /\ Goto("undoRestore")
    /\ UNCHANGED <<stage, backup, abandoned, operations, parent, ready, i, hadBackup, placed, before>>

UndoRestore ==
    /\ helper = "undoRestore"
    /\ \/ /\ f \in hadBackup
          /\ install' = [install EXCEPT ![f] = backup[f]]
          /\ backup' = [backup EXCEPT ![f] = Absent]
          /\ UNCHANGED rollbackFailed
       \/ f \in hadBackup /\ rollbackFailed' = TRUE /\ UNCHANGED <<install, backup>>
       \/ f \notin hadBackup /\ UNCHANGED <<install, backup, rollbackFailed>>
    /\ Undone
    /\ UNCHANGED <<stage, abandoned, operations, parent, ready, hadBackup, placed, before>>

\* After the result is written the stage and rollback directories are removed.
CleanUp ==
    /\ helper = "updated"
    /\ stage' = Nothing /\ backup' = Nothing
    /\ Goto("done")
    /\ UNCHANGED <<install, abandoned, operations, parent, ready, progress>>

------------------------------------------------------------------------------

\* The program that waits for the handshake dies; its event goes with it.
ParentDies ==
    /\ parent \in {"waiting", "exiting"}
    /\ parent' = "exited" /\ ready' = "closed"
    /\ UNCHANGED <<files, operations, helper, progress>>

HelperDies ==
    /\ helper \notin {"none", "failed", "done", "killed"}
    /\ helper' = "killed"
    /\ UNCHANGED <<files, operations, parent, ready, progress>>

\* Power loss: everything stops, the files stay.
Crash ==
    /\ parent # "none"
    /\ parent' = "none" /\ ready' = "closed" /\ helper' = "none"
    /\ UNCHANGED <<files, operations, progress>>

\* Both programs are gone and one of them is started again.
StartAgain ==
    /\ parent = "exited" /\ helper \in {"none", "failed", "done", "killed"}
    /\ parent' = "none" /\ helper' = "none"
    /\ UNCHANGED <<files, operations, ready, progress>>

Next ==
    \/ Prepare \/ LaunchHelper \/ ParentSeesReady \/ ParentTimesOut
    \/ TerminateHelper \/ ParentExits
    \/ Open \/ SetReady \/ ParentGone \/ Begin
    \/ MoveOut \/ NothingToMoveOut \/ Place \/ StepFails
    \/ UndoRemove \/ UndoRestore \/ CleanUp
    \/ ParentDies \/ HelperDies \/ Crash \/ StartAgain

Spec == Init /\ [][Next]_vars

------------------------------------------------------------------------------
(* Properties *)

Applying == {"begin", "moveOut", "place", "undoRemove", "undoRestore", "updated"}

\* The variables have their types.
TypeOK ==
    /\ install \in [File -> Version \cup {Absent}]
    /\ stage \in [File -> Version \cup {Absent}]
    /\ backup \in [File -> Version \cup {Absent}]
    /\ abandoned \in [File -> SUBSET Version]
    /\ operations \in 0 .. Operations
    /\ parent \in {"none", "prepared", "waiting", "terminating", "resumed", "exiting", "exited"}
    /\ ready \in {"closed", "open", "set"}
    /\ helper \in Applying \cup {"none", "start", "opened", "parked", "failed", "killed", "done"}
    /\ i \in DOMAIN Plan
    /\ hadBackup \subseteq File /\ placed \subseteq File /\ rollbackFailed \in BOOLEAN
    /\ before \in [File -> Version \cup {Absent}]

\* A helper that reports success has replaced every file, and one that reports a
\* failure with no "rollback incomplete" has put back exactly what it found.
AllOrNothing ==
    /\ helper = "updated" => \A g \in File : install[g] = "new"
    /\ helper = "failed" /\ parent = "exited" /\ ~rollbackFailed => install = before

\* Whatever fails and wherever the machine stops, the last complete version of
\* a file is never gone: it is installed, or in some operation's rollback
\* directory, until an update has been installed whole.
OldFilesSurvive ==
    \A g \in Present :
        \/ "old" \in {install[g], backup[g]} \cup abandoned[g]
        \/ \A h \in File : install[h] = "new"

\* The helper touches the installation only after the program that started it
\* has exited, also when that program gave up waiting for it.
HelperWaitsForExit == helper \in Applying => parent = "exited"
==============================================================================
