------------------------------ MODULE CommandRing ------------------------------
(* The primary ring buffer of gpu/command_processor.cpp: a guest thread writes *)
(* packets and publishes the write pointer through the CP_RB_WPTR register;    *)
(* the worker thread executes up to it and writes the read pointer back.       *)
(*                                                                             *)
(* The register exists twice: m_writePtrIndex, which UpdateWritePointer        *)
(* stores, and the word in the MMIO window, stored after it by WriteRegister,  *)
(* or alone by a guest store that does not go through the hook.  A packet is   *)
(* one slot here, numbered in the order the guest wrote it; what it does to    *)
(* registers and memory is left out.                                           *)
EXTENDS Integers, Sequences

CONSTANTS
    Size,           \* slots of the ring
    Total           \* bound: packets the guest writes

ASSUME SizeAssumption    == Size \in Nat /\ Size > 1
ASSUME PacketsAssumption == Total \in Nat

Slot == 0 .. Size - 1
Unset == Size               \* 0xBAADF00D, no slot
After(i) == (i + 1) % Size

VARIABLES
    ring,                       \* the packet in each slot, 0 for none yet
    ringReady,                  \* m_primaryBufferSize is set
    wptr, mirror,               \* m_writePtrIndex and the MMIO word
    rptr,                       \* m_readPtrIndex
    writeback,                  \* the read pointer the guest sees
    guest, tail, written, submitted,    \* the guest: where it is, its next slot, packets written, published
    worker, seen, pos,          \* the worker: where it is, its local writePtr, the reader's offset
    sleeping,                   \* m_workerSleeping
    wakeLocked,                 \* m_workerWakeMutex is held by the worker
    notified,                   \* the sleeping worker has been notified
    executed                    \* packets executed, in order

guestVars == <<guest, tail, written, submitted>>
workerVars == <<worker, seen, pos>>
wakeVars == <<sleeping, wakeLocked, notified>>
vars == <<ring, ringReady, wptr, mirror, rptr, writeback,
          guestVars, workerVars, wakeVars, executed>>

Init ==
    /\ ring = [i \in Slot |-> 0] /\ ringReady = FALSE
    /\ wptr = Unset /\ mirror = 0 /\ rptr = 0 /\ writeback = 0
    /\ guest = "start" /\ tail = 0 /\ written = 0 /\ submitted = 0
    /\ worker = "load" /\ seen = Unset /\ pos = 0
    /\ sleeping = FALSE /\ wakeLocked = FALSE /\ notified = FALSE
    /\ executed = <<>>

------------------------------------------------------------------------------
(* The guest *)

InitializeRingBuffer ==
    /\ guest = "start"
    /\ ringReady' = TRUE /\ rptr' = 0
    /\ guest' = "idle"
    /\ UNCHANGED <<ring, wptr, mirror, writeback, tail, written, submitted,
                   workerVars, wakeVars, executed>>

\* The guest's driver keeps one slot free, going by the read pointer it is shown.
WritePacket ==
    /\ guest = "idle" /\ written < Total /\ After(tail) # writeback
    /\ ring' = [ring EXCEPT ![tail] = written + 1]
    /\ tail' = After(tail) /\ written' = written + 1
    /\ UNCHANGED <<ringReady, wptr, mirror, rptr, writeback, guest, submitted,
                   workerVars, wakeVars, executed>>

UpdateWritePointer ==
    /\ guest = "idle" /\ written > submitted
    /\ wptr' = tail /\ submitted' = written
    /\ guest' = "testSleeping"
    /\ UNCHANGED <<ring, ringReady, mirror, rptr, writeback, tail, written,
                   workerVars, wakeVars, executed>>

\* m_workerSleeping is stored and loaded relaxed: until the worker has released
\* the mutex, the guest may still see the old value.
TestSleeping ==
    /\ guest = "testSleeping"
    /\ \/ sleeping /\ guest' = "notify"
       \/ ~sleeping /\ guest' = "storeMirror"
       \/ sleeping /\ wakeLocked /\ guest' = "storeMirror"
    /\ UNCHANGED <<ring, ringReady, wptr, mirror, rptr, writeback, tail, written, submitted,
                   workerVars, wakeVars, executed>>

NotifyWorker ==
    /\ guest = "notify" /\ ~wakeLocked
    /\ notified' = (notified \/ worker = "asleep")
    /\ guest' = "storeMirror"
    /\ UNCHANGED <<ring, ringReady, wptr, mirror, rptr, writeback, tail, written, submitted,
                   workerVars, sleeping, wakeLocked, executed>>

\* WriteRegister, after UpdateWritePointer has returned.
StoreMirror ==
    /\ guest = "storeMirror"
    /\ mirror' = tail
    /\ guest' = "idle"
    /\ UNCHANGED <<ring, ringReady, wptr, rptr, writeback, tail, written, submitted,
                   workerVars, wakeVars, executed>>

DirectStore ==
    /\ guest = "idle" /\ written > submitted
    /\ mirror' = tail /\ submitted' = written
    /\ UNCHANGED <<ring, ringReady, wptr, rptr, writeback, guest, tail, written,
                   workerVars, wakeVars, executed>>

Guest ==
    \/ InitializeRingBuffer \/ WritePacket \/ UpdateWritePointer \/ TestSleeping
    \/ NotifyWorker \/ StoreMirror \/ DirectStore

------------------------------------------------------------------------------
(* The worker *)

LoadWritePointer ==
    /\ worker = "load"
    /\ seen' = wptr
    /\ worker' = IF ringReady THEN "mirror" ELSE "decide"
    /\ UNCHANGED <<ring, ringReady, wptr, mirror, rptr, writeback, guestVars, pos, wakeVars, executed>>

\* fault: ignores the word in the MMIO window
ReadMirrorNever ==
    /\ worker = "mirror"
    /\ seen' = seen
    /\ worker' = "decide"
    /\ UNCHANGED <<ring, ringReady, wptr, mirror, rptr, writeback, guestVars, pos, wakeVars, executed>>

ReadMirror ==
    /\ worker = "mirror"
    /\ seen' = mirror
    /\ worker' = IF mirror # seen THEN "adopt" ELSE "decide"
    /\ UNCHANGED <<ring, ringReady, wptr, mirror, rptr, writeback, guestVars, pos, wakeVars, executed>>

Adopt ==
    /\ worker = "adopt"
    /\ wptr' = seen
    /\ worker' = "decide"
    /\ UNCHANGED <<ring, ringReady, mirror, rptr, writeback, guestVars, seen, pos, wakeVars, executed>>

NothingToDo == seen = Unset \/ rptr = seen \/ ~ringReady

\* The first 200 idle rounds yield, the later ones sleep; either may come next.
Yield ==
    /\ worker = "decide" /\ NothingToDo
    /\ worker' = "load"
    /\ UNCHANGED <<ring, ringReady, wptr, mirror, rptr, writeback, guestVars, seen, pos, wakeVars, executed>>

PrepareToSleep ==
    /\ worker = "decide" /\ NothingToDo
    /\ wakeLocked' = TRUE /\ sleeping' = TRUE /\ notified' = FALSE
    /\ worker' = "predicate"
    /\ UNCHANGED <<ring, ringReady, wptr, mirror, rptr, writeback, guestVars, seen, pos, executed>>

\* The predicate holds: wait_for returns without sleeping (again).
StayAwake ==
    /\ worker = "predicate" /\ wptr # seen
    /\ worker' = "wake"
    /\ UNCHANGED <<ring, ringReady, wptr, mirror, rptr, writeback, guestVars, seen, pos, wakeVars, executed>>

\* The predicate's load of m_writePtrIndex and the release of the mutex are one
\* step: a wake-up missed because of a store between them is one the timeout
\* makes good, and Timeout may come at any moment of the sleep.
FallAsleep ==
    /\ worker = "predicate" /\ wptr = seen
    /\ wakeLocked' = FALSE /\ notified' = FALSE
    /\ worker' = "asleep"
    /\ UNCHANGED <<ring, ringReady, wptr, mirror, rptr, writeback, guestVars, seen, pos, sleeping, executed>>

Notified ==
    /\ worker = "asleep" /\ notified
    /\ wakeLocked' = TRUE
    /\ worker' = "predicate"
    /\ UNCHANGED <<ring, ringReady, wptr, mirror, rptr, writeback, guestVars, seen, pos, sleeping, notified, executed>>

\* The 500 microseconds have passed.
Timeout ==
    /\ worker = "asleep"
    /\ wakeLocked' = TRUE
    /\ worker' = "wake"
    /\ UNCHANGED <<ring, ringReady, wptr, mirror, rptr, writeback, guestVars, seen, pos, sleeping, notified, executed>>

Wake ==
    /\ worker = "wake"
    /\ sleeping' = FALSE /\ wakeLocked' = FALSE
    /\ worker' = "load"
    /\ UNCHANGED <<ring, ringReady, wptr, mirror, rptr, writeback, guestVars, seen, pos, notified, executed>>

\* fault: shows the guest the new read pointer before the batch is executed
StartBatchEarlyWriteback ==
    /\ worker = "decide" /\ ~NothingToDo
    /\ pos' = rptr
    /\ writeback' = seen
    /\ worker' = "execute"
    /\ UNCHANGED <<ring, ringReady, wptr, mirror, rptr, guestVars, seen, wakeVars, executed>>

StartBatch ==
    /\ worker = "decide" /\ ~NothingToDo
    /\ pos' = rptr
    /\ worker' = "execute"
    /\ UNCHANGED <<ring, ringReady, wptr, mirror, rptr, writeback, guestVars, seen, wakeVars, executed>>

\* fault: runs the slot at the write pointer as well
ExecutePacketPastEnd ==
    /\ worker = "execute" /\ pos # After(seen)
    /\ executed' = Append(executed, ring[pos])
    /\ pos' = After(pos)
    /\ UNCHANGED <<ring, ringReady, wptr, mirror, rptr, writeback, guestVars, worker, seen, wakeVars>>

ExecutePacket ==
    /\ worker = "execute" /\ pos # seen
    /\ executed' = Append(executed, ring[pos])
    /\ pos' = After(pos)
    /\ UNCHANGED <<ring, ringReady, wptr, mirror, rptr, writeback, guestVars, worker, seen, wakeVars>>

EndBatch ==
    /\ worker = "execute" /\ pos = seen
    /\ rptr' = seen
    /\ worker' = "writeback"
    /\ UNCHANGED <<ring, ringReady, wptr, mirror, writeback, guestVars, seen, pos, wakeVars, executed>>

WriteBack ==
    /\ worker = "writeback"
    /\ writeback' = rptr
    /\ worker' = "load"
    /\ UNCHANGED <<ring, ringReady, wptr, mirror, rptr, guestVars, seen, pos, wakeVars, executed>>

Worker ==
    \/ LoadWritePointer \/ ReadMirror \/ Adopt
    \/ Yield \/ PrepareToSleep \/ StayAwake \/ FallAsleep \/ Notified \/ Timeout \/ Wake
    \/ StartBatch \/ ExecutePacket \/ EndBatch \/ WriteBack

Next == Guest \/ Worker

Spec == Init /\ [][Next]_vars

\* The worker thread is scheduled, its timed wait ends, and the guest finishes
\* a register store it has begun.
FairSpec ==
    /\ Spec
    /\ WF_vars(Worker)
    /\ WF_vars(TestSleeping \/ StoreMirror) /\ SF_vars(NotifyWorker)

------------------------------------------------------------------------------
(* Properties *)

\* The variables have their types.
TypeOK ==
    /\ ring \in [Slot -> 0 .. Total] /\ ringReady \in BOOLEAN
    /\ wptr \in Slot \cup {Unset} /\ mirror \in Slot
    /\ rptr \in Slot /\ writeback \in Slot
    /\ guest \in {"start", "idle", "testSleeping", "notify", "storeMirror"}
    /\ tail \in Slot /\ written \in 0 .. Total /\ submitted \in 0 .. Total
    /\ worker \in {"load", "mirror", "adopt", "decide", "predicate", "asleep",
                   "wake", "execute", "writeback"}
    /\ seen \in Slot \cup {Unset} /\ pos \in Slot
    /\ sleeping \in BOOLEAN /\ wakeLocked \in BOOLEAN /\ notified \in BOOLEAN
    /\ executed \in Seq(1 .. Total)

Done == {executed[i] : i \in DOMAIN executed}

\* The ring with its two write pointers is a queue: every packet the guest
\* published is executed once and in the order it was written, however the two
\* copies of the write pointer cross with the worker's loads.  None is skipped,
\* none is run again after the ring wraps or before it is published, and no
\* other step is visible.
Stream == INSTANCE PacketStream WITH published <- submitted

ImplementsStream == Stream!Spec

\* Every published packet is executed in the end, though the wake-up may be
\* missed and the write pointer may be stored past the hook.
EverySubmissionExecuted ==
    \A n \in 1 .. Total : submitted >= n ~> n \in Done
==============================================================================
