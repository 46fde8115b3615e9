------------------------ MODULE UpdateTransactionProofs ------------------------
(* The update transaction for any list of files, any earlier installation and  *)
(* any number of attempts: what a file is at each point of the helper's loop,  *)
(* forwards and while undoing, and where its old version is.                   *)
EXTENDS UpdateTransaction, FiniteSetTheorems, TLAPS

------------------------------------------------------------------------------
(* What the loop of ApplyWithRollback has made of the file at position j *)

Applied(j) ==
    /\ Plan[j] \in placed /\ install[Plan[j]] = "new"
    /\ backup[Plan[j]] = before[Plan[j]]
    /\ Plan[j] \in hadBackup <=> before[Plan[j]] # Absent

MovedOut(j) ==
    /\ Plan[j] \notin placed /\ install[Plan[j]] = Absent
    /\ backup[Plan[j]] = before[Plan[j]] /\ stage[Plan[j]] = "new"
    /\ Plan[j] \in hadBackup <=> before[Plan[j]] # Absent

Untouched(j) ==
    /\ Plan[j] \notin placed /\ install[Plan[j]] = before[Plan[j]]
    /\ backup[Plan[j]] = Absent /\ stage[Plan[j]] = "new"
    /\ Plan[j] \notin hadBackup

\* Its AppliedFile entry has been gone through as far as the removal.
Removed(j) ==
    /\ Plan[j] \in hadBackup => backup[Plan[j]] = before[Plan[j]] /\ install[Plan[j]] # "old"
    /\ rollbackFailed \/ install[Plan[j]] = before[Plan[j]]
       \/ (Plan[j] \in hadBackup /\ install[Plan[j]] = Absent)

------------------------------------------------------------------------------
(* The inductive invariant *)

\* From the preparation until the helper begins nothing has been touched.
Fresh ==
    parent = "prepared" \/ helper \in {"start", "opened", "parked", "begin"} =>
        /\ i = 1 /\ hadBackup = {} /\ placed = {} /\ ~rollbackFailed
        /\ before = install /\ backup = Nothing /\ stage = [g \in File |-> "new"]

\* No helper runs before it is launched or after a new start.
NoHelperYet == parent \in {"none", "prepared"} => helper = "none"

\* Before position i every file is replaced, behind it none is touched.
Forward ==
    helper \in {"moveOut", "place"} =>
        /\ ~rollbackFailed
        /\ \A j \in DOMAIN Plan : /\ j < i => Applied(j)
                                  /\ j > i => Untouched(j)
        /\ helper = "moveOut" => Untouched(i)
        /\ helper = "place" => MovedOut(i)

\* Undoing goes down from i; what is behind it has been put back.
Undoing ==
    helper \in {"undoRemove", "undoRestore"} =>
        /\ \A j \in DOMAIN Plan :
              /\ j < i => Applied(j)
              /\ j > i => rollbackFailed \/ install[Plan[j]] = before[Plan[j]]
        /\ helper = "undoRemove" => Applied(i) \/ MovedOut(i) \/ Untouched(i)
        /\ helper = "undoRestore" => Removed(i)

Finished ==
    /\ helper = "updated" => \A g \in File : install[g] = "new"
    /\ helper = "failed" => rollbackFailed \/ install = before

\* The old version of every file is somewhere until an update is complete; then
\* no other one is offered.
OldKept ==
    \/ \A g \in Present : "old" \in {install[g], backup[g]} \cup abandoned[g]
    \/ /\ \A g \in File : install[g] = "new"
       /\ helper \in {"done", "none"} /\ parent \in {"exited", "none"}

IInv ==
    /\ TypeOK /\ HelperWaitsForExit /\ Fresh /\ NoHelperYet
    /\ Forward /\ Undoing /\ Finished /\ OldKept

------------------------------------------------------------------------------
(* The plan *)

\* Each file has one position in the plan (PlanAssumption counts them).
LEMMA PlanPositions ==
  /\ DOMAIN Plan = 1 .. Len(Plan) /\ Len(Plan) \in Nat \ {0}
  /\ \A j \in DOMAIN Plan : Plan[j] \in File
  /\ \A g \in File : \E j \in DOMAIN Plan : Plan[j] = g
  /\ \A j, k \in DOMAIN Plan : Plan[j] = Plan[k] => j = k
<1>1. Plan \in Seq(File) /\ DOMAIN Plan = 1 .. Len(Plan) /\ Len(Plan) \in Nat \ {0}
  BY PlanAssumption
<1>2. Plan \in [1 .. Len(Plan) -> File] /\ \A g \in File : \E j \in DOMAIN Plan : Plan[j] = g
  BY <1>1 DEF File
<1>3. IsFiniteSet(1 .. Len(Plan)) /\ Cardinality(1 .. Len(Plan)) = Len(Plan)
  BY <1>1, FS_Interval
<1>4. Plan \in Surjection(1 .. Len(Plan), File)
  <2>1. \A g \in File : \E j \in 1 .. Len(Plan) : Plan[j] = g
    BY <1>1, <1>2
  <2> QED BY <1>2, <2>1 DEF Surjection
<1>5. Plan \in Injection(1 .. Len(Plan), File)
  BY <1>3, <1>4, FS_SurjSameCardinalityImpliesInj, PlanAssumption
<1>6. \A j, k \in 1 .. Len(Plan) : Plan[j] = Plan[k] => j = k
  BY <1>5 DEF Injection, IsInjective
<1> QED BY <1>1, <1>2, <1>6

------------------------------------------------------------------------------
(* Steps that touch neither files nor progress *)

Handshake ==
    \/ LaunchHelper \/ ParentSeesReady \/ ParentTimesOut \/ TerminateHelper \/ ParentExits
    \/ Open \/ SetReady \/ ParentGone \/ ParentDies \/ HelperDies \/ Crash \/ StartAgain

LEMMA HandshakeSteps ==
  ASSUME Handshake \/ NothingToMoveOut \/ StepFails
  PROVE  UNCHANGED <<install, stage, backup, abandoned, i, hadBackup, placed, rollbackFailed, before>>
BY DEF Handshake, LaunchHelper, ParentSeesReady, ParentTimesOut, TerminateHelper, ParentExits,
       Open, SetReady, ParentGone, ParentDies, HelperDies, Crash, StartAgain,
       NothingToMoveOut, StepFails, files, progress

\* Where the handshake can take the helper and the parent.
LEMMA HandshakeMoves ==
  ASSUME Handshake
  PROVE  /\ helper' = helper \/ helper' \in {"start", "opened", "parked", "begin", "failed", "killed", "none"}
         /\ helper' = "start" => helper = "start" \/ parent = "prepared"
         /\ helper' = "opened" => helper \in {"opened", "start"}
         /\ helper' = "parked" => helper \in {"parked", "opened"}
         /\ helper' = "begin" => helper \in {"begin", "parked"}
         /\ helper' = "failed" => helper \in {"failed", "start"}
         /\ parent' = "prepared" => parent = "prepared"
BY DEF Handshake, LaunchHelper, ParentSeesReady, ParentTimesOut, TerminateHelper, ParentExits,
       Open, SetReady, ParentGone, ParentDies, HelperDies, Crash, StartAgain, Goto

\* The helper's steps between its beginning and its end.
Loop == Begin \/ MoveOut \/ NothingToMoveOut \/ Place \/ StepFails \/ UndoRemove \/ UndoRestore \/ CleanUp

LEMMA LoopMoves ==
  ASSUME Loop
  PROVE  /\ UNCHANGED <<parent, ready, operations, before, abandoned>>
         /\ helper \in Applying /\ helper' \in (Applying \ {"begin"}) \cup {"failed", "done"}
BY DEF Loop, Begin, MoveOut, NothingToMoveOut, Place, StepFails, UndoRemove, UndoRestore, Undone,
       CleanUp, Goto, files, progress, Applying

------------------------------------------------------------------------------
(* One lemma per part of the invariant *)

\* The variables keep their types.
LEMMA TypePreserved ==
  ASSUME TypeOK, [Next]_vars
  PROVE  TypeOK'
<1> USE PlanPositions, OperationsAssumption DEF TypeOK, Applying, Version, Absent
<1>1. CASE Prepare
  <2>1. abandoned' \in [File -> SUBSET Version]
    <3>1. \A g \in File : abandoned[g] \cup ({backup[g]} \ {Absent}) \subseteq Version
      OBVIOUS
    <3> QED BY <1>1, <3>1 DEF Prepare
  <2>2. install' \in [File -> Version \cup {Absent}] /\ before' \in [File -> Version \cup {Absent}]
    BY <1>1 DEF Prepare, FreshProgress
  <2>3. stage' \in [File -> Version \cup {Absent}] /\ backup' \in [File -> Version \cup {Absent}]
    BY <1>1 DEF Prepare, Nothing
  <2>4. operations' \in 0 .. Operations
    BY <1>1 DEF Prepare
  <2>5. i' \in DOMAIN Plan /\ hadBackup' \subseteq File /\ placed' \subseteq File
    BY <1>1 DEF Prepare, FreshProgress
  <2>6. rollbackFailed' \in BOOLEAN
    BY <1>1 DEF Prepare, FreshProgress
  <2>7. parent' = "prepared" /\ helper' = helper /\ ready' = ready
    BY <1>1 DEF Prepare
  <2> QED BY <2>1, <2>2, <2>3, <2>4, <2>5, <2>6, <2>7
<1>2. CASE Handshake
  <2>1. /\ parent' \in {"none", "prepared", "waiting", "terminating", "resumed", "exiting", "exited"}
        /\ ready' \in {"closed", "open", "set"}
        /\ helper' \in Applying \cup {"none", "start", "opened", "parked", "failed", "killed", "done"}
        /\ operations' = operations
    BY <1>2 DEF Handshake, LaunchHelper, ParentSeesReady, ParentTimesOut, TerminateHelper,
       ParentExits, Open, SetReady, ParentGone, ParentDies, HelperDies, Crash, StartAgain, Goto,
       files, progress
  <2> QED BY <1>2, <2>1, HandshakeSteps
<1>3. CASE Loop
  <2>1. /\ parent' = parent /\ ready' = ready /\ operations' = operations
        /\ before' = before /\ abandoned' = abandoned
        /\ helper' \in Applying \cup {"failed", "done"}
    BY <1>3, LoopMoves
  <2>2. CASE Begin \/ CleanUp
    BY <2>1, <2>2 DEF Begin, CleanUp, Nothing, progress
  <2>3. CASE MoveOut
    BY <2>1, <2>3 DEF MoveOut, f
  <2>4. CASE NothingToMoveOut \/ StepFails
    BY <2>1, <2>4, HandshakeSteps
  <2>5. CASE Place
    BY <2>1, <2>5 DEF Place, f
  <2>6. CASE UndoRemove
    BY <2>1, <2>6 DEF UndoRemove, f
  <2>7. CASE UndoRestore
    <3>1. install' \in [File -> Version \cup {Absent}] /\ backup' \in [File -> Version \cup {Absent}]
      <4>1. \/ /\ install' = [install EXCEPT ![Plan[i]] = backup[Plan[i]]]
               /\ backup' = [backup EXCEPT ![Plan[i]] = Absent]
            \/ install' = install /\ backup' = backup
        BY <2>7 DEF UndoRestore, f
      <4> QED BY <4>1
    <3>2. i' \in DOMAIN Plan
      BY <2>7 DEF UndoRestore, Undone
    <3>3. rollbackFailed' \in BOOLEAN
      BY <2>7 DEF UndoRestore
    <3>4. UNCHANGED <<stage, hadBackup, placed>>
      BY <2>7 DEF UndoRestore
    <3> QED BY <2>1, <3>1, <3>2, <3>3, <3>4
  <2> QED BY <1>3, <2>2, <2>3, <2>4, <2>5, <2>6, <2>7 DEF Loop
<1>4. CASE UNCHANGED vars
  BY <1>4 DEF vars, files, progress
<1> QED BY <1>1, <1>2, <1>3, <1>4 DEF Next, Handshake, Loop

\* The loop is entered when the parent has exited, and it stays so.
LEMMA WaitPreserved ==
  ASSUME HelperWaitsForExit, NoHelperYet, [Next]_vars
  PROVE  HelperWaitsForExit' /\ NoHelperYet'
<1> USE DEF HelperWaitsForExit, NoHelperYet, Applying
<1>1. CASE Prepare
  BY <1>1 DEF Prepare
<1>2. CASE Handshake
  BY <1>2 DEF Handshake, LaunchHelper, ParentSeesReady, ParentTimesOut, TerminateHelper,
     ParentExits, Open, SetReady, ParentGone, ParentDies, HelperDies, Crash, StartAgain, Goto
<1>3. CASE Loop
  BY <1>3, LoopMoves
<1>4. CASE UNCHANGED vars
  BY <1>4 DEF vars
<1> QED BY <1>1, <1>2, <1>3, <1>4 DEF Next, Handshake, Loop

\* Only the loop changes what Prepare has set.
LEMMA FreshPreserved ==
  ASSUME TypeOK, Fresh, NoHelperYet, HelperWaitsForExit, [Next]_vars
  PROVE  Fresh'
<1> USE DEF Fresh
<1>1. CASE Prepare
  BY <1>1 DEF Prepare, FreshProgress, Nothing
<1>2. CASE Handshake
  <2>1. parent' = "prepared" \/ helper' \in {"start", "opened", "parked", "begin"}
        => parent = "prepared" \/ helper \in {"start", "opened", "parked", "begin"}
    BY <1>2, HandshakeMoves
  <2> QED BY <1>2, <2>1, HandshakeSteps DEF Nothing
<1>3. CASE Loop
  BY <1>3, LoopMoves DEF HelperWaitsForExit, Applying
<1>4. CASE UNCHANGED vars
  BY <1>4 DEF vars, files, progress, Nothing
<1> QED BY <1>1, <1>2, <1>3, <1>4 DEF Next, Handshake, Loop

\* Position by position: a step changes only the file it is at.
LEMMA LoopPreserved ==
  ASSUME TypeOK, Fresh, NoHelperYet, Forward, Undoing, Finished, [Next]_vars
  PROVE  Forward' /\ Undoing' /\ Finished'
<1> USE PlanPositions
<1>1. CASE Prepare
  BY <1>1 DEF Prepare, NoHelperYet, Forward, Undoing, Finished
<1>2. CASE Handshake
  <2>1. helper' \in {"moveOut", "place", "undoRemove", "undoRestore", "updated"} => helper' = helper
    BY <1>2, HandshakeMoves
  <2>2. Forward' /\ Undoing'
    BY <1>2, <2>1, HandshakeSteps DEF Forward, Undoing, Applied, MovedOut, Untouched, Removed
  <2>3. helper' = "failed" => rollbackFailed \/ install = before
    BY <1>2, HandshakeMoves DEF Finished, Fresh
  <2> QED BY <1>2, <2>1, <2>2, <2>3, HandshakeSteps DEF Finished
<1>3. CASE Begin
  <2>1. /\ i = 1 /\ hadBackup = {} /\ placed = {} /\ ~rollbackFailed
        /\ before = install /\ backup = Nothing /\ stage = [g \in File |-> "new"]
        /\ backup' = Nothing /\ helper' \in {"moveOut", "failed"}
        /\ UNCHANGED <<install, stage, i, hadBackup, placed, rollbackFailed, before>>
    BY <1>3 DEF Begin, Fresh, progress
  <2>2. \A j \in DOMAIN Plan : Untouched(j)'
    BY <2>1 DEF Untouched, Nothing
  <2> QED BY <2>1, <2>2 DEF Forward, Undoing, Finished
<1>4. CASE MoveOut
  <2>1. /\ helper = "moveOut" /\ helper' = "place" /\ install[Plan[i]] # Absent
        /\ install' = [install EXCEPT ![Plan[i]] = Absent]
        /\ backup' = [backup EXCEPT ![Plan[i]] = install[Plan[i]]]
        /\ hadBackup' = hadBackup \cup {Plan[i]}
        /\ UNCHANGED <<stage, i, placed, rollbackFailed, before>>
    BY <1>4 DEF MoveOut, f, Goto
  <2>2. \A j \in DOMAIN Plan : /\ j < i => Applied(j)'
                               /\ j > i => Untouched(j)'
    BY <2>1 DEF Forward, Applied, Untouched, TypeOK
  <2>3. MovedOut(i)'
    BY <2>1 DEF Forward, Untouched, MovedOut, TypeOK
  <2> QED BY <2>1, <2>2, <2>3 DEF Forward, Undoing, Finished
<1>5. CASE NothingToMoveOut
  <2>1. /\ helper = "moveOut" /\ helper' = "place" /\ install[Plan[i]] = Absent
        /\ UNCHANGED <<install, stage, backup, i, hadBackup, placed, rollbackFailed, before>>
    BY <1>5, HandshakeSteps DEF NothingToMoveOut, f, Goto
  <2>2. MovedOut(i)
    BY <2>1 DEF Forward, Untouched, MovedOut
  <2> QED BY <2>1, <2>2 DEF Forward, Undoing, Finished, Applied, Untouched, MovedOut
<1>6. CASE Place
  <2>1. /\ helper = "place"
        /\ install' = [install EXCEPT ![Plan[i]] = stage[Plan[i]]]
        /\ stage' = [stage EXCEPT ![Plan[i]] = Absent]
        /\ placed' = placed \cup {Plan[i]}
        /\ IF i = Len(Plan) THEN helper' = "updated" /\ i' = i
                            ELSE helper' = "moveOut" /\ i' = i + 1
        /\ UNCHANGED <<backup, hadBackup, rollbackFailed, before>>
    BY <1>6 DEF Place, f, Goto
  <2>2. \A j \in DOMAIN Plan : /\ j <= i => Applied(j)'
                               /\ j > i => Untouched(j)'
    BY <2>1 DEF Forward, Applied, Untouched, MovedOut, TypeOK
  <2>3. CASE i = Len(Plan)
    <3>1. \A g \in File : install'[g] = "new"
      BY <2>2, <2>3 DEF Applied, TypeOK
    <3> QED BY <2>1, <2>3, <3>1 DEF Forward, Undoing, Finished
  <2>4. CASE i # Len(Plan)
    <3>1. i + 1 \in DOMAIN Plan
      BY <2>4 DEF TypeOK
    <3> QED BY <2>1, <2>2, <2>4, <3>1 DEF Forward, Undoing, Finished, TypeOK
  <2> QED BY <2>3, <2>4
<1>7. CASE StepFails
  <2>1. /\ helper \in {"moveOut", "place"} /\ helper' = "undoRemove"
        /\ UNCHANGED <<install, stage, backup, i, hadBackup, placed, rollbackFailed, before>>
    BY <1>7, HandshakeSteps DEF StepFails, Goto
  <2>2. \A j \in DOMAIN Plan : /\ j < i => Applied(j)'
                               /\ j > i => install'[Plan[j]] = before'[Plan[j]]
    BY <2>1 DEF Forward, Applied, Untouched
  <2>3. MovedOut(i)' \/ Untouched(i)'
    BY <2>1 DEF Forward, MovedOut, Untouched
  <2> QED BY <2>1, <2>2, <2>3 DEF Forward, Undoing, Finished
<1>8. CASE UndoRemove
  <2>1. /\ helper = "undoRemove" /\ helper' = "undoRestore"
        /\ \/ /\ Plan[i] \in placed /\ rollbackFailed' = rollbackFailed
              /\ install' = [install EXCEPT ![Plan[i]] = Absent]
           \/ Plan[i] \in placed /\ rollbackFailed' = TRUE /\ install' = install
           \/ Plan[i] \notin placed /\ install' = install /\ rollbackFailed' = rollbackFailed
        /\ UNCHANGED <<stage, backup, i, hadBackup, placed, before>>
    BY <1>8 DEF UndoRemove, f, Goto
  <2>2. \A j \in DOMAIN Plan : j # i => install'[Plan[j]] = install[Plan[j]]
    BY <2>1 DEF TypeOK
  <2>3. \A j \in DOMAIN Plan :
           /\ j < i => Applied(j)'
           /\ j > i => rollbackFailed' \/ install'[Plan[j]] = before'[Plan[j]]
    BY <2>1, <2>2 DEF Undoing, Applied, TypeOK
  <2>4. Applied(i) \/ MovedOut(i) \/ Untouched(i)
    BY <2>1 DEF Undoing
  <2>5. Removed(i)'
    <3>1. CASE Applied(i)
      BY <2>1, <3>1 DEF Applied, Removed, TypeOK, Absent
    <3>2. CASE MovedOut(i)
      BY <2>1, <3>2 DEF MovedOut, Removed, Absent
    <3>3. CASE Untouched(i)
      BY <2>1, <3>3 DEF Untouched, Removed
    <3> QED BY <2>4, <3>1, <3>2, <3>3
  <2> QED BY <2>1, <2>3, <2>5 DEF Forward, Undoing, Finished
<1>9. CASE UndoRestore
  <2>1. /\ helper = "undoRestore"
        /\ \/ /\ Plan[i] \in hadBackup /\ rollbackFailed' = rollbackFailed
              /\ install' = [install EXCEPT ![Plan[i]] = backup[Plan[i]]]
              /\ backup' = [backup EXCEPT ![Plan[i]] = Absent]
           \/ /\ Plan[i] \in hadBackup /\ rollbackFailed' = TRUE
              /\ install' = install /\ backup' = backup
           \/ /\ Plan[i] \notin hadBackup /\ rollbackFailed' = rollbackFailed
              /\ install' = install /\ backup' = backup
        /\ IF i = 1 THEN helper' = "failed" /\ i' = i
                    ELSE helper' = "undoRemove" /\ i' = i - 1
        /\ UNCHANGED <<stage, hadBackup, placed, before>>
    BY <1>9 DEF UndoRestore, Undone, f, Goto
  <2>2. \A j \in DOMAIN Plan : j # i => /\ install'[Plan[j]] = install[Plan[j]]
                                        /\ backup'[Plan[j]] = backup[Plan[j]]
    BY <2>1 DEF TypeOK
  <2>3. rollbackFailed' \/ install'[Plan[i]] = before'[Plan[i]]
    BY <2>1 DEF Undoing, Removed, TypeOK
  <2>4. rollbackFailed => rollbackFailed'
    BY <2>1
  <2>5. \A j \in DOMAIN Plan :
           /\ j < i => Applied(j)'
           /\ j >= i => rollbackFailed' \/ install'[Plan[j]] = before'[Plan[j]]
    BY <2>1, <2>2, <2>3, <2>4 DEF Undoing, Applied, TypeOK
  <2>6. CASE i = 1
    <3>1. rollbackFailed' \/ \A g \in File : install'[g] = before'[g]
      BY <2>5, <2>6
    <3>2. install' \in [File -> Version \cup {Absent}] /\ before' \in [File -> Version \cup {Absent}]
      BY TypePreserved DEF TypeOK
    <3>3. rollbackFailed' \/ install' = before'
      BY <3>1, <3>2
    <3> QED BY <2>1, <2>6, <3>3 DEF Forward, Undoing, Finished
  <2>7. CASE i # 1
    <3>1. PICK k \in DOMAIN Plan : k = i - 1
      BY <2>7 DEF TypeOK
    <3>2. i' = k /\ helper' = "undoRemove"
      BY <2>1, <2>7, <3>1
    <3>3. \A j \in DOMAIN Plan :
             /\ j <= k => Applied(j)'
             /\ j > k => rollbackFailed' \/ install'[Plan[j]] = before'[Plan[j]]
      BY <2>5, <3>1 DEF TypeOK
    <3>4. Applied(i)'
      BY <3>2, <3>3 DEF Applied
    <3>5. Undoing'
      BY <3>2, <3>3, <3>4 DEF Undoing
    <3> QED BY <3>2, <3>5 DEF Forward, Finished
  <2> QED BY <2>6, <2>7
<1>10. CASE CleanUp
  BY <1>10 DEF CleanUp, Goto, Forward, Undoing, Finished
<1>11. CASE UNCHANGED vars
  BY <1>11 DEF vars, files, progress, Forward, Undoing, Finished, Applied, MovedOut, Untouched, Removed
<1> QED BY <1>1, <1>2, <1>3, <1>4, <1>5, <1>6, <1>7, <1>8, <1>9, <1>10, <1>11 DEF Next, Handshake

\* A step that leaves every file where it is, or moves one old version within
\* the transaction, keeps the first half of OldKept; the second holds from the
\* removal of the directories on.
LEMMA OldPreserved ==
  ASSUME TypeOK, Fresh, NoHelperYet, HelperWaitsForExit, Forward, Undoing, Finished, OldKept, [Next]_vars
  PROVE  OldKept'
<1> DEFINE Kept(g) == "old" \in {install[g], backup[g]} \cup abandoned[g]
<1> USE PlanPositions
<1>1. CASE UNCHANGED vars
  BY <1>1 DEF vars, files, OldKept
<1>2. CASE /\ \A g \in File : install[g] = "new"
           /\ helper \in {"done", "none"} /\ parent \in {"exited", "none"} /\ Next
  <2>1. install[Exe] = "new" /\ install[VersionFile] = "new"
    BY <1>2, PlanAssumption
  <2>2. ~Prepare
    BY <2>1 DEF Prepare, OffersUpdate, Absent
  <2>3. Crash \/ StartAgain
    BY <1>2, <2>2, LoopMoves DEF Next, Loop, Applying, LaunchHelper, ParentSeesReady, ParentTimesOut,
       TerminateHelper, ParentExits, Open, SetReady, ParentGone, ParentDies, HelperDies
  <2> QED BY <1>2, <2>3 DEF Crash, StartAgain, files, OldKept
<1>3. CASE (\A g \in Present : Kept(g)) /\ Next
  <2> SUFFICES ASSUME NEW g \in Present
               PROVE  Kept(g)' \/ CleanUp
    <3>1. CASE CleanUp
      BY <3>1 DEF CleanUp, Goto, Finished, HelperWaitsForExit, Applying, OldKept
    <3> QED BY <3>1 DEF OldKept
  <2>1. Kept(g) /\ g \in File
    BY <1>3, PlanAssumption
  <2>2. CASE Prepare
    BY <2>1, <2>2 DEF Prepare, TypeOK, Absent
  <2>3. CASE Handshake \/ NothingToMoveOut \/ StepFails
    BY <2>1, <2>3, HandshakeSteps
  <2>4. CASE Begin
    BY <2>1, <2>4 DEF Begin, Fresh, Nothing
  <2>5. CASE MoveOut
    <3>1. backup[Plan[i]] = Absent
      BY <2>5 DEF MoveOut, Forward, Untouched
    <3> QED BY <2>1, <2>5, <3>1 DEF MoveOut, f, TypeOK, Absent
  <2>6. CASE Place
    <3>1. install[Plan[i]] = Absent
      BY <2>6 DEF Place, Forward, MovedOut
    <3> QED BY <2>1, <2>6, <3>1 DEF Place, f, TypeOK, Absent
  <2>7. CASE UndoRemove
    <3>1. Plan[i] \in placed => install[Plan[i]] # "old"
      BY <2>7 DEF UndoRemove, Undoing, Applied, MovedOut, Untouched
    <3> QED BY <2>1, <2>7, <3>1 DEF UndoRemove, f, TypeOK
  <2>8. CASE UndoRestore
    <3>1. Plan[i] \in hadBackup => install[Plan[i]] # "old"
      BY <2>8 DEF UndoRestore, Undoing, Removed
    <3> QED BY <2>1, <2>8, <3>1 DEF UndoRestore, f, TypeOK
  <2> QED BY <1>3, <2>2, <2>3, <2>4, <2>5, <2>6, <2>7, <2>8 DEF Next, Handshake
<1> QED BY <1>1, <1>2, <1>3 DEF OldKept

------------------------------------------------------------------------------
(* Theorems *)

\* The invariant holds whatever fails and wherever the machine stops.
THEOREM Invariance == Spec => []IInv
<1>1. Init => IInv
  <2> SUFFICES ASSUME Init PROVE IInv
    OBVIOUS
  <2>1. TypeOK
    <3>1. /\ install \in [File -> Version \cup {Absent}] /\ before = install
          /\ stage \in [File -> Version \cup {Absent}] /\ backup \in [File -> Version \cup {Absent}]
          /\ abandoned \in [File -> SUBSET Version]
      BY DEF Init, Nothing, Version
    <3>2. i \in DOMAIN Plan /\ operations \in 0 .. Operations
      BY PlanPositions, OperationsAssumption DEF Init
    <3>3. rollbackFailed \in BOOLEAN
      BY DEF Init
    <3> QED BY <3>1, <3>2, <3>3 DEF Init, TypeOK
  <2>2. OldKept
    BY PlanAssumption DEF Init, OldKept
  <2> QED BY <2>1, <2>2 DEF Init, IInv, HelperWaitsForExit, Applying, Fresh, NoHelperYet, Forward,
                            Undoing, Finished
<1>2. IInv /\ [Next]_vars => IInv'
  BY TypePreserved, WaitPreserved, FreshPreserved, LoopPreserved, OldPreserved DEF IInv
<1> QED BY <1>1, <1>2, PTL DEF Spec

\* The files, the handshake and the helper's bookkeeping keep their types.
THEOREM TypeCorrect == Spec => []TypeOK
<1>1. IInv => TypeOK
  BY DEF IInv
<1> QED BY <1>1, Invariance, PTL

\* For every plan and every earlier installation: "updated" means every file is
\* new, a failure without "rollback incomplete" means none has changed.
THEOREM Atomicity == Spec => []AllOrNothing
<1>1. IInv => AllOrNothing
  BY DEF IInv, Finished, AllOrNothing
<1> QED BY <1>1, Invariance, PTL

\* However many attempts fail and however they are interrupted, every installed
\* file's old version is on disk until an update is complete.
THEOREM NothingLost == Spec => []OldFilesSurvive
<1>1. IInv => OldFilesSurvive
  BY DEF IInv, OldKept, OldFilesSurvive
<1> QED BY <1>1, Invariance, PTL

\* The handshake: no file is touched before the parent has exited.
THEOREM ExitFirst == Spec => []HelperWaitsForExit
<1>1. IInv => HelperWaitsForExit
  BY DEF IInv
<1> QED BY <1>1, Invariance, PTL
==============================================================================
