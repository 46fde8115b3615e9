--------------------------- MODULE CommandRingProofs ---------------------------
(* The command ring, whatever its size and the guest's stores are.            *)
EXTENDS CommandRing, SequenceTheorems, TLAPS

\* The slot of the a-th packet, counted from 0.
At(a, p) == p \in Slot /\ \E q \in Nat : a = q * Size + p

\* A whole lap is at least as long as the ring.
LEMMA Times ==
  ASSUME NEW q \in Int, q >= 1
  PROVE  q * Size \in Int /\ q * Size >= Size
BY SizeAssumption, SMT

\* The ring starts with slot 0.
LEMMA First == At(0, 0)
<1>1. 0 = 0 * Size + 0
  BY SizeAssumption
<1> QED BY <1>1, SizeAssumption DEF At, Slot

\* The slots follow each other as the packets do.
LEMMA NextSlot ==
  ASSUME NEW a \in Nat, NEW p, At(a, p)
  PROVE  At(a + 1, After(p))
<1>1. PICK q \in Nat : a = q * Size + p
  BY DEF At
<1>2. p \in Slot /\ q * Size \in Int /\ (q + 1) * Size = q * Size + Size
  BY SizeAssumption DEF At
<1>3. CASE p = Size - 1
  <2>1. After(p) = 0
    BY <1>3, SizeAssumption DEF After
  <2>2. a + 1 = (q + 1) * Size + 0
    BY <1>1, <1>2, <1>3, SizeAssumption DEF Slot
  <2>3. q + 1 \in Nat /\ 0 \in Slot
    BY SizeAssumption DEF Slot
  <2> QED BY <2>1, <2>2, <2>3 DEF At
<1>4. CASE p # Size - 1
  <2>1. After(p) = p + 1 /\ p + 1 \in Slot
    BY <1>2, <1>4, SizeAssumption DEF After, Slot
  <2>2. a + 1 = q * Size + (p + 1)
    BY <1>1, <1>2 DEF Slot
  <2> QED BY <2>1, <2>2 DEF At
<1> QED BY <1>3, <1>4

\* Packets less than a lap apart have slots of their own.
LEMMA SameSlot ==
  ASSUME NEW a \in Nat, NEW b \in Nat, NEW p, NEW r, At(a, p), At(b, r), a - b < Size, b - a < Size
  PROVE  (p = r) <=> (a = b)
<1>1. PICK q \in Nat : a = q * Size + p
  BY DEF At
<1>2. PICK s \in Nat : b = s * Size + r
  BY DEF At
<1>3. p \in Slot /\ r \in Slot /\ q * Size \in Int /\ s * Size \in Int
  BY SizeAssumption DEF At
<1>4. q - s >= 1 => (q - s) * Size >= Size
  BY Times
<1>5. s - q >= 1 => (s - q) * Size >= Size
  BY Times
<1>6. (q - s) * Size = q * Size - s * Size /\ (s - q) * Size = s * Size - q * Size
  BY SizeAssumption
<1>7. p = r => a = b
  <2>1. SUFFICES ASSUME p = r PROVE a = b
    OBVIOUS
  <2>2. ~(q - s >= 1) /\ ~(s - q >= 1)
    BY <1>1, <1>2, <1>3, <1>4, <1>5, <1>6, <2>1, SizeAssumption DEF Slot
  <2>3. q = s
    BY <2>2
  <2> QED BY <1>1, <1>2, <2>1, <2>3
<1>8. a = b => p = r
  <2>1. SUFFICES ASSUME a = b PROVE p = r
    OBVIOUS
  <2>2. ~(q - s >= 1) /\ ~(s - q >= 1)
    BY <1>1, <1>2, <1>3, <1>4, <1>5, <1>6, <2>1, SizeAssumption DEF Slot
  <2>3. q = s
    BY <2>2
  <2> QED BY <1>1, <1>2, <1>3, <2>1, <2>3 DEF Slot
<1> QED BY <1>7, <1>8

------------------------------------------------------------------------------
(* The inductive invariant *)

\* With every index counted from the first packet: what the guest is shown, what
\* the worker has read, what the MMIO word says.
Layout(back, read, shown) ==
    /\ At(back, writeback) /\ At(read, rptr) /\ At(shown, mirror) /\ At(written, tail)
    /\ back <= read /\ read <= shown /\ shown <= submitted /\ submitted <= written
    /\ written - back < Size
    /\ \A a \in back .. written - 1, p \in Slot : At(a, p) => ring[p] = a + 1

\* Before the ring is set up the worker has nothing; a store of the register is
\* finished before the guest writes on.
GuestPlaced ==
    /\ guest \in {"testSleeping", "notify", "storeMirror"} => submitted = written
    /\ guest = "start" => /\ written = 0 /\ wptr = Unset /\ seen = Unset
                          /\ worker \notin {"mirror", "adopt", "execute", "writeback"}
    /\ guest = "start" <=> ~ringReady

\* The worker goes by a write pointer that was in the MMIO word: between what it
\* has read and what that word says now.
Batch(read, at, until, shown) ==
    /\ worker \in {"adopt", "decide", "execute"} /\ seen # Unset =>
          At(until, seen) /\ read <= until /\ until <= shown
    /\ worker \in {"adopt", "execute"} => seen # Unset
    /\ worker = "execute" => At(at, pos) /\ read <= at /\ at <= until
    /\ worker # "execute" => at = read

\* The packets up to there are executed, each when its turn came.
Account(at) ==
    /\ Len(executed) = at
    /\ \A i \in 1 .. Len(executed) : executed[i] = i

\* The types, in parts.
Places ==
    /\ guest \in {"start", "idle", "testSleeping", "notify", "storeMirror"}
    /\ worker \in {"load", "mirror", "adopt", "decide", "predicate", "asleep",
                   "wake", "execute", "writeback"}
Words ==
    /\ ring \in [Slot -> 0 .. Total]
    /\ wptr \in Slot \cup {Unset} /\ mirror \in Slot /\ rptr \in Slot /\ writeback \in Slot
    /\ tail \in Slot /\ written \in 0 .. Total /\ submitted \in 0 .. Total
    /\ seen \in Slot \cup {Unset} /\ pos \in Slot
Outcomes == executed \in Seq(1 .. Total)
Flags ==
    ringReady \in BOOLEAN /\ sleeping \in BOOLEAN /\ wakeLocked \in BOOLEAN /\ notified \in BOOLEAN

\* The ring as seen by counts.
View(back, read, at, until, shown) ==
    Layout(back, read, shown) /\ Batch(read, at, until, shown) /\ Account(at)

IInv ==
    /\ Places /\ Words /\ Outcomes /\ Flags /\ GuestPlaced
    /\ \E back, read, at, until, shown \in 0 .. Total : View(back, read, at, until, shown)

\* What the packets are counted with.
Counts == 0 .. Total

\* The steps that move no packet and no pointer a packet is found by.
LEMMA QuietGuest ==
  ASSUME Places, Words, Flags, GuestPlaced, InitializeRingBuffer \/ TestSleeping \/ NotifyWorker,
         NEW back \in Counts, NEW read \in Counts, NEW at \in Counts, NEW until \in Counts,
         NEW shown \in Counts, View(back, read, at, until, shown)
  PROVE  GuestPlaced' /\ View(back, read, at, until, shown)'
<1> USE PacketsAssumption DEF Counts, guestVars, workerVars, wakeVars
<1>1. CASE InitializeRingBuffer
  <2>1. /\ guest = "start" /\ guest' = "idle" /\ ringReady' = TRUE /\ rptr' = 0
        /\ UNCHANGED <<ring, wptr, mirror, writeback, tail, written, submitted, worker, seen, pos,
                       executed>>
    BY <1>1 DEF InitializeRingBuffer
  <2>2. read = 0
    BY <2>1 DEF View, Layout, GuestPlaced, Words
  <2>3. At(read, rptr)'
    BY <2>1, <2>2, First DEF At, Slot
  <2>4. Layout(back, read, shown)' /\ Batch(read, at, until, shown)' /\ Account(at)'
    BY <2>1, <2>3 DEF View, Layout, Batch, Account, At, Slot
  <2> QED BY <2>1, <2>4 DEF View, GuestPlaced
<1>2. CASE TestSleeping \/ NotifyWorker
  <2>1. /\ guest \in {"testSleeping", "notify"} /\ guest' \in {"notify", "storeMirror"}
        /\ UNCHANGED <<ring, ringReady, rptr, wptr, mirror, writeback, tail, written, submitted,
                       worker, seen, pos, executed>>
    BY <1>2 DEF TestSleeping, NotifyWorker
  <2>2. Layout(back, read, shown)' /\ Batch(read, at, until, shown)' /\ Account(at)'
    BY <2>1 DEF View, Layout, Batch, Account, At, Slot
  <2> QED BY <2>1, <2>2 DEF View, GuestPlaced
<1> QED BY <1>1, <1>2

\* A packet goes to a slot of its own.
LEMMA Written ==
  ASSUME Places, Words, Flags, GuestPlaced, WritePacket,
         NEW back \in Counts, NEW read \in Counts, NEW at \in Counts, NEW until \in Counts,
         NEW shown \in Counts, View(back, read, at, until, shown)
  PROVE  GuestPlaced' /\ View(back, read, at, until, shown)'
<1> USE PacketsAssumption DEF Counts
<1>1. /\ guest = "idle" /\ After(tail) # writeback /\ ring' = [ring EXCEPT ![tail] = written + 1]
      /\ tail' = After(tail) /\ written' = written + 1 /\ written < Total
      /\ UNCHANGED <<ringReady, wptr, mirror, rptr, writeback, guest, submitted, worker, seen, pos,
                     executed>>
  BY DEF WritePacket, workerVars
<1>2. /\ Layout(back, read, shown) /\ written \in Nat /\ tail \in Slot /\ At(written, tail)
      /\ At(back, writeback)
  BY DEF View, Words, Layout
<1>3. At(written + 1, After(tail))
  BY <1>2, NextSlot
<1>4. written + 1 - back < Size
  <2>1. written - back < Size /\ back <= written
    BY <1>2 DEF Layout, Words
  <2>2. written + 1 # back + Size
    <3>1. SUFFICES ASSUME written + 1 = back + Size PROVE FALSE
      OBVIOUS
    <3>2. PICK q \in Nat : back = q * Size + writeback
      BY <1>2 DEF At
    <3>3. /\ q * Size \in Int /\ (q + 1) * Size = q * Size + Size /\ q + 1 \in Nat
          /\ writeback \in Slot
      BY SizeAssumption DEF Words
    <3>4. written + 1 = (q + 1) * Size + writeback
      BY <1>2, <3>1, <3>2, <3>3, SizeAssumption DEF Slot
    <3>5. At(written + 1, writeback)
      BY <3>3, <3>4 DEF At
    <3> QED BY <1>1, <1>2, <1>3, <3>5, SameSlot, SizeAssumption
  <2> QED BY <1>2, <2>1, <2>2, SizeAssumption
<1>5. ASSUME NEW a \in back .. written, NEW p \in Slot, At(a, p)
      PROVE  ring'[p] = a + 1
  <2>1. CASE a = written
    <3>1. p = tail
      BY <1>2, <1>5, <2>1, SameSlot, SizeAssumption
    <3> QED BY <1>1, <1>2, <2>1, <3>1 DEF Words
  <2>2. CASE a # written
    <3>1. a \in back .. written - 1 /\ a \in Nat
      BY <1>2, <2>2
    <3>2. p # tail
      BY <1>2, <1>4, <1>5, <2>2, <3>1, SameSlot, SizeAssumption
    <3> QED BY <1>1, <1>2, <1>5, <3>1, <3>2 DEF Layout, Words
  <2> QED BY <2>1, <2>2
<1>6. Layout(back, read, shown)'
  <2>1. /\ At(back, writeback)' /\ At(read, rptr)' /\ At(shown, mirror)' /\ At(written, tail)'
    BY <1>1, <1>2, <1>3 DEF Layout, At, Slot
  <2>2. submitted <= written'
    BY <1>1, <1>2 DEF Layout, Words
  <2>3. \A a \in back .. written' - 1, p \in Slot : At(a, p) => ring'[p] = a + 1
    BY <1>1, <1>2, <1>5
  <2> QED BY <1>1, <1>2, <1>4, <2>1, <2>2, <2>3 DEF Layout, At, Slot
<1>7. Batch(read, at, until, shown)' /\ Account(at)'
  BY <1>1 DEF View, Batch, Account, At, Slot
<1> QED BY <1>1, <1>6, <1>7 DEF View, GuestPlaced

\* The guest publishes what it has written.
LEMMA Published ==
  ASSUME Places, Words, Flags, GuestPlaced, UpdateWritePointer \/ StoreMirror \/ DirectStore,
         NEW back \in Counts, NEW read \in Counts, NEW at \in Counts, NEW until \in Counts,
         NEW shown \in Counts, View(back, read, at, until, shown)
  PROVE  GuestPlaced' /\ \E new \in Counts : View(back, read, at, until, new)'
<1> USE PacketsAssumption DEF Counts
<1>1. written \in Counts /\ submitted \in Counts /\ Layout(back, read, shown)
  BY DEF Words, View
<1>2. CASE UpdateWritePointer
  <2>1. /\ guest = "idle" /\ guest' = "testSleeping" /\ submitted' = written
        /\ UNCHANGED <<ring, ringReady, mirror, rptr, writeback, tail, written, worker, seen, pos,
                       executed>>
    BY <1>2 DEF UpdateWritePointer, workerVars
  <2>2. Layout(back, read, shown)'
    BY <1>1, <2>1 DEF Layout, At, Slot
  <2>3. Batch(read, at, until, shown)'
    BY <1>1, <2>1 DEF View, Batch, At, Slot
  <2>4. Account(at)'
    BY <2>1 DEF View, Account
  <2> QED BY <2>1, <2>2, <2>3, <2>4 DEF View, GuestPlaced
<1>3. CASE StoreMirror \/ DirectStore
  <2>1. /\ guest' = "idle" /\ guest \in {"idle", "storeMirror"} /\ mirror' = tail
        /\ submitted' = written
        /\ UNCHANGED <<ring, ringReady, wptr, rptr, writeback, tail, written, worker, seen, pos,
                       executed>>
    BY <1>3 DEF StoreMirror, DirectStore, GuestPlaced, workerVars
  <2>2. Layout(back, read, written)'
    BY <1>1, <2>1 DEF Layout, At, Slot
  <2>3. Batch(read, at, until, written)'
    BY <1>1, <2>1 DEF View, Layout, Batch, At, Slot
  <2>4. Account(at)'
    BY <2>1 DEF View, Account
  <2>5. View(back, read, at, until, written)'
    BY <2>1, <2>2, <2>3, <2>4 DEF View
  <2> QED BY <1>1, <2>1, <2>5 DEF GuestPlaced
<1> QED BY <1>2, <1>3

\* The worker finds its write pointer, or nothing to do.
LEMMA Found ==
  ASSUME Places, Words, Flags, GuestPlaced,
         \/ LoadWritePointer \/ ReadMirror \/ Adopt \/ Yield \/ PrepareToSleep
         \/ StayAwake \/ FallAsleep \/ Notified \/ Timeout \/ Wake,
         NEW back \in Counts, NEW read \in Counts, NEW at \in Counts, NEW until \in Counts,
         NEW shown \in Counts, View(back, read, at, until, shown)
  PROVE  GuestPlaced' /\ \E new \in Counts : View(back, read, at, new, shown)'
<1> USE DEF Counts
<1>0. /\ UNCHANGED <<ring, ringReady, mirror, rptr, writeback, guest, tail, written, submitted, pos,
                     executed>>
      /\ worker # "execute" /\ worker' # "execute"
  BY DEF LoadWritePointer, ReadMirror, Adopt, Yield, PrepareToSleep, StayAwake, FallAsleep, Notified,
         Timeout, Wake, guestVars
<1>1. Layout(back, read, shown)' /\ Account(at)' /\ at = read
  BY <1>0 DEF View, Layout, Account, Batch, At, Slot
<1>2. CASE LoadWritePointer
  <2>1. /\ seen' = wptr /\ wptr' = wptr /\ worker' \in {"mirror", "decide"}
        /\ worker' = "mirror" => ringReady
        /\ worker' = "decide" => ~ringReady
    BY <1>2 DEF LoadWritePointer
  <2>2. GuestPlaced' /\ (worker' = "decide" => seen' = Unset)
    BY <1>0, <2>1 DEF GuestPlaced, Unset
  <2>3. Batch(read, at, until, shown)'
    BY <1>0, <1>1, <2>1, <2>2 DEF Batch, Unset
  <2> QED BY <1>1, <2>2, <2>3 DEF View
<1>3. CASE ReadMirror
  <2>1. /\ worker = "mirror" /\ seen' = mirror /\ wptr' = wptr /\ worker' \in {"adopt", "decide"}
    BY <1>3 DEF ReadMirror
  <2>2. GuestPlaced' /\ guest # "start"
    BY <1>0, <2>1 DEF GuestPlaced
  <2>3. At(shown, mirror) /\ read <= shown /\ mirror # Unset
    <3>1. At(shown, mirror) /\ read <= shown
      BY DEF View, Layout
    <3>2. mirror # Unset
      BY SizeAssumption DEF Words, Slot, Unset
    <3> QED BY <3>1, <3>2
  <2>4. Batch(read, at, shown, shown)'
    BY <1>0, <1>1, <2>1, <2>3 DEF Batch, Unset, At, Slot
  <2> QED BY <1>1, <2>2, <2>4 DEF View
<1>4. CASE Adopt
  <2>1. worker = "adopt" /\ worker' = "decide" /\ seen' = seen /\ wptr' = seen
    BY <1>4 DEF Adopt
  <2>2. GuestPlaced'
    BY <1>0, <2>1 DEF GuestPlaced
  <2>3. Batch(read, at, until, shown)'
    BY <1>0, <2>1 DEF View, Batch, At, Slot, Unset
  <2> QED BY <1>1, <2>2, <2>3 DEF View
<1>5. CASE Yield \/ PrepareToSleep \/ StayAwake \/ FallAsleep \/ Notified \/ Timeout \/ Wake
  <2>1. UNCHANGED <<seen, wptr>> /\ worker' \in {"load", "predicate", "asleep", "wake"}
    BY <1>5 DEF Yield, PrepareToSleep, StayAwake, FallAsleep, Notified, Timeout, Wake
  <2>2. GuestPlaced'
    BY <1>0, <2>1 DEF GuestPlaced, Unset
  <2>3. Batch(read, at, until, shown)'
    BY <1>0, <1>1, <2>1 DEF Batch
  <2> QED BY <1>1, <2>2, <2>3 DEF View
<1> QED BY <1>2, <1>3, <1>4, <1>5

\* A batch begins where the last one ended and ends at its write pointer.
LEMMA Bounded ==
  ASSUME Places, Words, Flags, GuestPlaced, StartBatch \/ EndBatch \/ WriteBack,
         NEW back \in Counts, NEW read \in Counts, NEW at \in Counts, NEW until \in Counts,
         NEW shown \in Counts, View(back, read, at, until, shown)
  PROVE  GuestPlaced' /\ \E old, new \in Counts : View(old, new, at, until, shown)'
<1> USE PacketsAssumption DEF Counts
<1>1. Layout(back, read, shown) /\ written \in Nat /\ Batch(read, at, until, shown) /\ Account(at)
  BY DEF View, Words
<1>2. CASE StartBatch
  <2>1. /\ worker = "decide" /\ seen # Unset /\ ringReady /\ pos' = rptr /\ worker' = "execute"
        /\ UNCHANGED <<ring, ringReady, wptr, mirror, rptr, writeback, guest, tail, written, submitted,
                       seen, executed>>
    BY <1>2 DEF StartBatch, NothingToDo, guestVars
  <2>2. Layout(back, read, shown)' /\ Account(at)'
    BY <1>1, <2>1 DEF Layout, Account, At, Slot
  <2>3. Batch(read, at, until, shown)'
    BY <1>1, <2>1 DEF Layout, Batch, At, Slot, Unset
  <2>4. GuestPlaced'
    BY <2>1 DEF GuestPlaced, Unset
  <2> QED BY <2>2, <2>3, <2>4 DEF View
<1>3. CASE EndBatch
  <2>1. /\ worker = "execute" /\ pos = seen /\ rptr' = seen /\ worker' = "writeback"
        /\ UNCHANGED <<ring, ringReady, wptr, mirror, writeback, guest, tail, written, submitted,
                       seen, pos, executed>>
    BY <1>3 DEF EndBatch, guestVars
  <2>2. /\ At(until, seen) /\ At(at, pos) /\ read <= at /\ at <= until /\ until <= shown
        /\ shown <= submitted /\ submitted <= written /\ written - back < Size /\ back <= read
    BY <1>1, <2>1 DEF Batch, Layout
  <2>3. at = until
    BY <1>1, <2>1, <2>2, SameSlot, SizeAssumption DEF Words
  <2>4. Layout(back, at, shown)'
    BY <1>1, <2>1, <2>2 DEF Layout, At, Slot
  <2>5. Batch(at, at, until, shown)' /\ Account(at)'
    BY <1>1, <2>1 DEF Batch, Account
  <2>6. GuestPlaced'
    BY <2>1 DEF GuestPlaced, Unset
  <2> QED BY <2>4, <2>5, <2>6 DEF View
<1>4. CASE WriteBack
  <2>1. /\ worker = "writeback" /\ writeback' = rptr /\ worker' = "load"
        /\ UNCHANGED <<ring, ringReady, wptr, mirror, rptr, guest, tail, written, submitted,
                       seen, pos, executed>>
    BY <1>4 DEF WriteBack, guestVars
  <2>2. Layout(read, read, shown)'
    <3>1. written - read < Size
      BY <1>1, SizeAssumption DEF Layout, Words
    <3>2. \A a \in read .. written - 1 : a \in back .. written - 1
      BY <1>1 DEF Layout
    <3> QED BY <1>1, <2>1, <3>1, <3>2 DEF Layout, At, Slot
  <2>3. Batch(read, at, until, shown)' /\ Account(at)'
    BY <1>1, <2>1 DEF Batch, Account
  <2>4. GuestPlaced'
    BY <2>1 DEF GuestPlaced, Unset
  <2> QED BY <2>2, <2>3, <2>4 DEF View
<1> QED BY <1>2, <1>3, <1>4

\* The slot at the reader's offset holds the packet after the ones that are done.
LEMMA InSlot ==
  ASSUME Places, Words, Outcomes, worker = "execute", pos # seen,
         NEW back \in Counts, NEW read \in Counts, NEW at \in Counts, NEW until \in Counts,
         NEW shown \in Counts, View(back, read, at, until, shown)
  PROVE  /\ at < until /\ until <= written /\ until - at < Size /\ until <= submitted
         /\ \A a \in at .. until - 1, p \in Slot : At(a, p) => ring[p] = a + 1
         /\ At(at, pos) /\ At(until, seen) /\ At(at + 1, After(pos)) /\ seen # Unset
<1> USE PacketsAssumption DEF Counts
<1>1. /\ seen # Unset /\ At(until, seen) /\ read <= until /\ until <= shown
      /\ At(at, pos) /\ read <= at /\ at <= until
  BY DEF View, Batch
<1>2. /\ back <= read /\ shown <= submitted /\ submitted <= written /\ written - back < Size
      /\ \A a \in back .. written - 1, p \in Slot : At(a, p) => ring[p] = a + 1
      /\ written \in Nat /\ submitted \in Nat
  BY DEF View, Layout, Words
<1>3. at # until
  BY <1>1, <1>2, SameSlot, SizeAssumption
<1>4. At(at + 1, After(pos))
  BY <1>1, NextSlot
<1>5. \A a \in at .. until - 1 : a \in back .. written - 1
  BY <1>1, <1>2
<1>6. at < until /\ until <= written /\ until - at < Size /\ until <= submitted
  BY <1>1, <1>2, <1>3, SizeAssumption
<1> QED BY <1>1, <1>2, <1>4, <1>5, <1>6

\* One packet more is done, the next one.
LEMMA Executed ==
  ASSUME Places, Words, Flags, Outcomes, GuestPlaced, ExecutePacket,
         NEW back \in Counts, NEW read \in Counts, NEW at \in Counts, NEW until \in Counts,
         NEW shown \in Counts, View(back, read, at, until, shown)
  PROVE  /\ GuestPlaced' /\ Outcomes' /\ pos' \in Slot
         /\ \E new \in Counts : View(back, read, new, until, shown)'
<1> USE PacketsAssumption DEF Counts
<1>1. /\ worker = "execute" /\ pos # seen /\ executed' = Append(executed, ring[pos])
      /\ pos' = After(pos)
      /\ UNCHANGED <<ring, ringReady, wptr, mirror, rptr, writeback, guest, tail, written, submitted,
                     worker, seen>>
  BY DEF ExecutePacket, guestVars
<1>2. /\ at < until /\ until <= written /\ At(at, pos) /\ At(at + 1, After(pos)) /\ seen # Unset
      /\ \A a \in at .. until - 1, p \in Slot : At(a, p) => ring[p] = a + 1
  BY <1>1, InSlot DEF Counts
<1>3. ring[pos] = at + 1 /\ at + 1 \in Counts /\ at + 1 \in 1 .. Total
  BY <1>2 DEF Words
<1>4. executed \in Seq(1 .. Total)
  BY DEF Outcomes
<1>5. executed' = Append(executed, at + 1) /\ Outcomes'
  BY <1>1, <1>3, <1>4, AppendProperties DEF Outcomes
<1>6. /\ Len(executed') = Len(executed) + 1 /\ executed'[Len(executed) + 1] = at + 1
      /\ \A i \in 1 .. Len(executed) : executed'[i] = executed[i]
      /\ DOMAIN executed = 1 .. Len(executed) /\ DOMAIN executed' = 1 .. Len(executed) + 1
      /\ Len(executed) \in Nat
  BY <1>3, <1>4, <1>5, AppendProperties
<1>7. Account(at + 1)'
  <2>1. Len(executed) = at /\ \A i \in 1 .. Len(executed) : executed[i] = i
    BY DEF View, Account
  <2> QED BY <1>6, <2>1 DEF Account
<1>8. Layout(back, read, shown)'
  BY <1>1 DEF View, Layout, At, Slot
<1>9. Batch(read, at + 1, until, shown)'
  BY <1>1, <1>2, SMTT(30) DEF View, Batch, At, Slot, Unset, After
<1>10. GuestPlaced' /\ pos' \in Slot
  BY <1>1, <1>2 DEF GuestPlaced, Unset, At
<1> QED BY <1>3, <1>5, <1>7, <1>8, <1>9, <1>10 DEF View

\* The rest of the types, action by action.
LEMMA TypesPreserved ==
  ASSUME Places, Words, Flags, Next, pos' \in Slot, worker = "execute" => seen # Unset
  PROVE  Places' /\ Words' /\ Flags'
<1> USE PacketsAssumption, SizeAssumption
        DEF Places, Words, guestVars, workerVars, wakeVars
<1>0. 0 \in Slot /\ \A i \in Slot : After(i) \in Slot
  BY DEF After, Slot
<1>1. Flags'
  BY Zenon DEF Flags, Next, Guest, Worker, InitializeRingBuffer, WritePacket, UpdateWritePointer,
         TestSleeping, NotifyWorker, StoreMirror, DirectStore, LoadWritePointer, ReadMirror, Adopt,
         Yield, PrepareToSleep, StayAwake, FallAsleep, Notified, Timeout, Wake, StartBatch,
         ExecutePacket, EndBatch, WriteBack
<1>2. SUFFICES Places' /\ Words'
  BY <1>1
<1>3. CASE Guest
  <2>1. CASE WritePacket
    BY <1>0, <2>1 DEF WritePacket
  <2>2. CASE InitializeRingBuffer \/ UpdateWritePointer \/ TestSleeping \/ NotifyWorker
    BY <1>0, <2>2 DEF InitializeRingBuffer, UpdateWritePointer, TestSleeping, NotifyWorker
  <2>3. CASE StoreMirror \/ DirectStore
    BY <2>3 DEF StoreMirror, DirectStore
  <2> QED BY <1>3, <2>1, <2>2, <2>3 DEF Guest
<1>4. CASE Worker
  <2>1. CASE LoadWritePointer \/ ReadMirror \/ Adopt
    BY <2>1 DEF LoadWritePointer, ReadMirror, Adopt
  <2>2. CASE Yield \/ PrepareToSleep \/ StayAwake \/ FallAsleep \/ Notified \/ Timeout \/ Wake
    BY <2>2 DEF Yield, PrepareToSleep, StayAwake, FallAsleep, Notified, Timeout, Wake
  <2>3. CASE StartBatch \/ WriteBack
    BY <2>3 DEF StartBatch, WriteBack
  <2>4. CASE EndBatch
    BY <2>4 DEF EndBatch
  <2>5. CASE ExecutePacket
    BY <2>5 DEF ExecutePacket
  <2> QED BY <1>4, <2>1, <2>2, <2>3, <2>4, <2>5 DEF Worker
<1> QED BY <1>3, <1>4 DEF Next

\* Nothing has been written.
LEMMA Initially == Init => IInv
<1> SUFFICES ASSUME Init PROVE IInv
  OBVIOUS
<1> USE SizeAssumption, PacketsAssumption, First
<1>1. 0 \in Slot /\ 0 \in 0 .. Total /\ Unset \notin Slot
  BY DEF Slot, Unset
<1>2. Places /\ Words
  BY <1>1 DEF Init, Places, Words
<1>3. Outcomes /\ Flags
  BY EmptySeq DEF Init, Outcomes, Flags
<1>4. GuestPlaced
  BY DEF Init, GuestPlaced
<1>5. Layout(0, 0, 0)
  BY DEF Init, Layout
<1>6. Batch(0, 0, 0, 0)
  BY DEF Init, Batch
<1>7. Account(0)
  BY EmptySeq DEF Init, Account
<1> QED BY <1>1, <1>2, <1>3, <1>4, <1>5, <1>6, <1>7 DEF IInv, View

\* The parts are inductive together.
LEMMA Inductive == IInv /\ [Next]_vars => IInv'
<1> SUFFICES ASSUME IInv, [Next]_vars PROVE IInv'
  OBVIOUS
<1>0. /\ Places /\ Words /\ Outcomes /\ Flags /\ GuestPlaced
      /\ \E back, read, at, until, shown \in Counts : View(back, read, at, until, shown)
  BY DEF IInv, Counts
<1>1. PICK back \in Counts, read \in Counts, at \in Counts, until \in Counts, shown \in Counts :
         View(back, read, at, until, shown)
  BY <1>0
<1>2. CASE UNCHANGED vars
  <2>1. Places' /\ Words' /\ Outcomes' /\ GuestPlaced'
    BY <1>0, <1>2 DEF vars, guestVars, workerVars, Places, Words, Outcomes, GuestPlaced, Unset,
                      Slot
  <2>2. Flags'
    BY <1>0, <1>2 DEF vars, wakeVars, Flags
  <2>3. Layout(back, read, shown)' /\ Batch(read, at, until, shown)' /\ Account(at)'
    BY <1>1, <1>2 DEF vars, guestVars, workerVars, View, Layout, Batch, Account, At, Slot,
                      Unset
  <2> QED BY <2>1, <2>2, <2>3 DEF IInv, View, Counts
<1>3. CASE Next
  <2>1. CASE ExecutePacket
    <3>1. /\ GuestPlaced' /\ Outcomes' /\ pos' \in Slot
          /\ \E new \in Counts : View(back, read, new, until, shown)'
      BY <1>0, <1>1, <2>1, Executed
    <3>2. worker = "execute" => seen # Unset
      BY <1>1 DEF View, Batch
    <3>3. Places' /\ Words' /\ Flags'
      BY <1>0, <1>3, <3>1, <3>2, TypesPreserved
    <3> QED BY <3>1, <3>3 DEF IInv, Counts
  <2>2. CASE ~ExecutePacket
    <3>1. /\ GuestPlaced'
          /\ \E old, new, n, u, sh \in Counts : View(old, new, n, u, sh)'
      <4>1. CASE InitializeRingBuffer \/ TestSleeping \/ NotifyWorker
        <5>1. GuestPlaced' /\ View(back, read, at, until, shown)'
          BY <1>0, <1>1, <4>1, QuietGuest
        <5> QED BY <5>1
      <4>2. CASE WritePacket
        <5>1. GuestPlaced' /\ View(back, read, at, until, shown)'
          BY <1>0, <1>1, <4>2, Written
        <5> QED BY <5>1
      <4>3. CASE UpdateWritePointer \/ StoreMirror \/ DirectStore
        BY <1>0, <1>1, <4>3, Published
      <4>4. CASE \/ LoadWritePointer \/ ReadMirror \/ Adopt \/ Yield \/ PrepareToSleep
                 \/ StayAwake \/ FallAsleep \/ Notified \/ Timeout \/ Wake
        <5>1. GuestPlaced' /\ \E new \in Counts : View(back, read, at, new, shown)'
          BY <1>0, <1>1, <4>4, Found
        <5> QED BY <5>1
      <4>5. CASE StartBatch \/ EndBatch \/ WriteBack
        <5>1. GuestPlaced' /\ \E old, new \in Counts : View(old, new, at, until, shown)'
          BY <1>0, <1>1, <4>5, Bounded
        <5> QED BY <5>1
      <4> QED BY <1>3, <2>2, <4>1, <4>2, <4>3, <4>4, <4>5 DEF Next, Guest, Worker
    <3>2. UNCHANGED executed /\ (pos' = pos \/ pos' = rptr)
      BY <1>3, <2>2 DEF Next, Guest, Worker, guestVars, workerVars, wakeVars,
         InitializeRingBuffer, WritePacket, UpdateWritePointer, TestSleeping, NotifyWorker, StoreMirror,
         DirectStore, LoadWritePointer, ReadMirror, Adopt, Yield, PrepareToSleep, StayAwake, FallAsleep,
         Notified, Timeout, Wake, StartBatch, EndBatch, WriteBack
    <3>3. Outcomes' /\ pos' \in Slot
      BY <1>0, <3>2 DEF Outcomes, Words
    <3>4. worker = "execute" => seen # Unset
      BY <1>1 DEF View, Batch
    <3>5. Places' /\ Words' /\ Flags'
      BY <1>0, <1>3, <3>3, <3>4, TypesPreserved
    <3> QED BY <3>1, <3>3, <3>5 DEF IInv, Counts
  <2> QED BY <2>1, <2>2
<1> QED BY <1>2, <1>3

\* Packets in order are an invariant of the two write pointers together with
\* where each packet lies and which part of the ring the batch covers.
THEOREM Invariance == Spec => []IInv
BY Initially, Inductive, PTL DEF Spec

\* The ring's variables keep their types; a slot index stays inside the ring.
THEOREM TypeCorrect == Spec => []TypeOK
<1>1. IInv => TypeOK
  <2>1. IInv => /\ ring \in [Slot -> 0 .. Total]
                /\ wptr \in Slot \cup {Unset} /\ mirror \in Slot
                /\ rptr \in Slot /\ writeback \in Slot
                /\ guest \in {"start", "idle", "testSleeping", "notify", "storeMirror"}
                /\ tail \in Slot /\ written \in 0 .. Total /\ submitted \in 0 .. Total
                /\ worker \in {"load", "mirror", "adopt", "decide", "predicate", "asleep",
                               "wake", "execute", "writeback"}
                /\ seen \in Slot \cup {Unset} /\ pos \in Slot
                /\ executed \in Seq(1 .. Total)
    BY DEF IInv, Places, Words, Outcomes
  <2> QED BY <2>1, Zenon DEF IInv, Flags, TypeOK
<1> QED BY <1>1, Invariance, PTL

\* Of the packets published the first so many are executed, each in its turn.
ExecutedInOrder ==
    /\ Len(executed) <= submitted
    /\ \A i \in 1 .. Len(executed) : executed[i] = i

\* Any size of the ring, any number of packets and of stores past the hook:
\* ExecutePrimaryBuffer runs what was published, once and in order.
THEOREM Order == Spec => []ExecutedInOrder
<1>1. IInv => ExecutedInOrder
  <2> SUFFICES ASSUME IInv PROVE ExecutedInOrder
    OBVIOUS
  <2>1. PICK back \in Counts, read \in Counts, at \in Counts, until \in Counts, shown \in Counts :
           View(back, read, at, until, shown)
    BY DEF IInv, Counts
  <2>2. at <= submitted
    <3>1. read <= submitted /\ shown <= submitted /\ submitted \in Nat
      BY <2>1, PacketsAssumption DEF View, Layout, Counts, IInv, Words
    <3>2. at = read \/ (at <= until /\ until <= shown)
      BY <2>1 DEF View, Batch
    <3> QED BY <3>1, <3>2 DEF Counts
  <2> QED BY <2>1, <2>2 DEF View, Account, ExecutedInOrder, Counts
<1> QED BY <1>1, Invariance, PTL

------------------------------------------------------------------------------
(* The ring as a queue *)

\* A fresh ring is an empty queue.
LEMMA InitRefines == Init => Stream!Init
BY DEF Init, Stream!Init

\* A packet the worker executes is the next one of the queue.
LEMMA ExecuteRefines ==
  ASSUME IInv, ExecutePacket
  PROVE  Stream!Execute
<1> USE PacketsAssumption DEF Counts
<1>0. Places /\ Words /\ Outcomes /\ Flags /\ GuestPlaced
  BY DEF IInv
<1>1. PICK back \in Counts, read \in Counts, at \in Counts, until \in Counts, shown \in Counts :
         View(back, read, at, until, shown)
  BY DEF IInv
<1>2. /\ worker = "execute" /\ pos # seen /\ executed' = Append(executed, ring[pos])
      /\ UNCHANGED submitted
  BY DEF ExecutePacket, guestVars
<1>3. /\ at < until /\ until <= submitted /\ At(at, pos)
      /\ \A a \in at .. until - 1, p \in Slot : At(a, p) => ring[p] = a + 1
  BY <1>0, <1>1, <1>2, InSlot
<1>4. ring[pos] = at + 1
  BY <1>3 DEF At
<1>5. Len(executed) = at
  BY <1>1 DEF View, Account
<1>6. submitted \in Nat
  BY <1>0 DEF Words
<1> QED BY <1>2, <1>3, <1>4, <1>5, <1>6 DEF Stream!Execute

\* Two steps of the guest publish; nothing else is seen of the guest or worker.
LEMMA OthersRefine ==
  ASSUME IInv, Next, ~ExecutePacket
  PROVE  Stream!Publish \/ UNCHANGED <<submitted, executed>>
<1>1. UNCHANGED executed
  BY DEF Next, Guest, Worker, guestVars, workerVars, wakeVars,
     InitializeRingBuffer, WritePacket, UpdateWritePointer, TestSleeping, NotifyWorker, StoreMirror,
     DirectStore, LoadWritePointer, ReadMirror, Adopt, Yield, PrepareToSleep, StayAwake, FallAsleep,
     Notified, Timeout, Wake, StartBatch, EndBatch, WriteBack
<1>3. CASE UpdateWritePointer \/ DirectStore
  <2>1. submitted' = written /\ written > submitted
    BY <1>3 DEF UpdateWritePointer, DirectStore
  <2>2. submitted' \in submitted + 1 .. Total
    BY <2>1, PacketsAssumption DEF IInv, Words
  <2> QED BY <1>1, <2>2 DEF Stream!Publish
<1>4. CASE ~(UpdateWritePointer \/ DirectStore)
  <2>1. UNCHANGED submitted
    BY <1>4 DEF Next, Guest, Worker, guestVars, workerVars, wakeVars,
       InitializeRingBuffer, WritePacket, TestSleeping, NotifyWorker, StoreMirror,
       LoadWritePointer, ReadMirror, Adopt, Yield, PrepareToSleep, StayAwake, FallAsleep,
       Notified, Timeout, Wake, StartBatch, ExecutePacket, EndBatch, WriteBack
  <2> QED BY <1>1, <2>1
<1> QED BY <1>3, <1>4

\* Whatever the size of the ring and however the two write pointers cross with
\* the worker's loads: ring, pointers and worker implement the queue.
THEOREM Refinement == Spec => ImplementsStream
<1>1. IInv /\ [Next]_vars => [Stream!Next]_<<submitted, executed>>
  <2> SUFFICES ASSUME IInv, [Next]_vars
               PROVE  [Stream!Next]_<<submitted, executed>>
    OBVIOUS
  <2>1. CASE UNCHANGED vars
    BY <2>1 DEF vars, guestVars
  <2>2. CASE ExecutePacket
    BY <2>2, ExecuteRefines DEF Stream!Next
  <2>3. CASE Next /\ ~ExecutePacket
    BY <2>3, OthersRefine DEF Stream!Next
  <2> QED BY <2>1, <2>2, <2>3
<1> QED BY <1>1, InitRefines, Invariance, PTL DEF ImplementsStream, Stream!Spec, Spec
==============================================================================
