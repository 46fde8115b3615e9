------------------------ MODULE CriticalSectionProofs ------------------------
(* Two ways the guest keeps others out of what it owns, and what that is worth *)
(* for any parameters.  The critical section: mutual exclusion, the exactness *)
(* of the recursion word, no stranded sleepers and the implementation of the  *)
(* abstract lock.  The lock of an XMA context: the decoder is kept out, and   *)
(* the cursors, of which each side only knows its own, keep it off the blocks *)
(* that the guest has still to read.                                          *)
EXTENDS CriticalSection, XmaDecoder, TLAPS

\* The places at which a thread touches the plain recursion word or frees the section.
OwnerPlaces == {"incLoad", "incStore", "leaveLoad", "leaveStore", "storeOwner"}

\* A thread that is inside, or at a load or store of the recursion word, is the owner.
Exclusion ==
    \A t \in Threads :
        held[t] > 0 \/ pc[t] \in OwnerPlaces => owner = t

\* The owner word, the recursion word and the guest's own count agree: one
\* release that has begun and not yet been stored is still in the word.
CountsAgree ==
    /\ owner = NoThread => recursion = 0
    /\ \A t \in Threads : owner = t =>
          recursion = IF pc[t] \in {"leaveLoad", "leaveStore"}
                      THEN held[t] + 1 ELSE held[t]

\* What a thread has loaded is still what it will store over: nobody else wrote
\* the recursion word in between.
LoadsCurrent ==
    \A t \in Threads :
        /\ pc[t] = "incStore"   => reg[t] = recursion
        /\ pc[t] = "leaveStore" => reg[t] = recursion - 1
        /\ pc[t] = "storeOwner" => recursion = 0

\* An owner is never between a failed compare-exchange and its retry, nor in a
\* notification, and outside the paths that change the words it holds something.
OwnerPlaced ==
    \A t \in Threads : owner = t =>
        /\ pc[t] \notin {"wait", "notify"}
        /\ pc[t] \in {"idle", "cas", "try"} => held[t] > 0

SleepersWait ==
    /\ \A t \in waiters : pc[t] = "wait"
    /\ \A t \in Threads : pc[t] = "wait" => expected[t] # NoThread

IInv ==
    /\ TypeOK
    /\ Exclusion
    /\ CountsAgree
    /\ LoadsCurrent
    /\ OwnerPlaced
    /\ SleepersWait
    /\ NoStrandedSleeper

\* A freshly initialised section satisfies the invariant.
LEMMA InitEstablishes == Init => IInv
  BY ThreadsAssumption, BoundsAssumption
  DEF Init, IInv, TypeOK, Places, Exclusion, OwnerPlaces, CountsAgree, LoadsCurrent,
      OwnerPlaced, SleepersWait, NoStrandedSleeper

\* The guest's calls keep the invariant; CallLeave only starts what Leave then does.
LEMMA CallsPreserve ==
  ASSUME IInv, NEW t \in Threads, CallEnter(t) \/ CallTryEnter(t) \/ CallLeave(t)
  PROVE  IInv'
<1> USE ThreadsAssumption DEF IInv, TypeOK, Places, Exclusion, OwnerPlaces, CountsAgree,
      LoadsCurrent, OwnerPlaced, SleepersWait, NoStrandedSleeper, Goto
<1>1. CASE CallEnter(t)
  BY <1>1 DEF CallEnter
<1>2. CASE CallTryEnter(t)
  BY <1>2 DEF CallTryEnter
<1>3. CASE CallLeave(t)
  BY <1>3 DEF CallLeave
<1> QED BY <1>1, <1>2, <1>3

\* Enter and TryEnter keep the invariant.
LEMMA EnterPreserves ==
  ASSUME IInv, NEW t \in Threads,
         EnterTakes(t) \/ EnterFails(t) \/ TryTakes(t) \/ TryFails(t)
         \/ IncrementLoad(t) \/ IncrementStore(t)
  PROVE  IInv'
<1> USE ThreadsAssumption DEF IInv, TypeOK, Places, Exclusion, OwnerPlaces, CountsAgree,
      LoadsCurrent, OwnerPlaced, SleepersWait, NoStrandedSleeper, Goto, CanTake
<1>1. CASE EnterTakes(t)
  BY <1>1 DEF EnterTakes
<1>2. CASE EnterFails(t)
  BY <1>2 DEF EnterFails
<1>3. CASE TryTakes(t)
  BY <1>3 DEF TryTakes
<1>4. CASE TryFails(t)
  BY <1>4 DEF TryFails
<1>5. CASE IncrementLoad(t)
  BY <1>5 DEF IncrementLoad
<1>6. CASE IncrementStore(t)
  BY <1>6 DEF IncrementStore
<1> QED BY <1>1, <1>2, <1>3, <1>4, <1>5, <1>6

\* Falling asleep and waking, spuriously or not, keep the invariant.
LEMMA WaitPreserves ==
  ASSUME IInv, NEW t \in Threads, Sleep(t) \/ WaitReturns(t) \/ SpuriousWake(t)
  PROVE  IInv'
<1> USE ThreadsAssumption DEF IInv, TypeOK, Places, Exclusion, OwnerPlaces, CountsAgree,
      LoadsCurrent, OwnerPlaced, SleepersWait, NoStrandedSleeper, Goto
<1>1. CASE Sleep(t)
  BY <1>1 DEF Sleep
<1>2. CASE WaitReturns(t)
  BY <1>2 DEF WaitReturns
<1>3. CASE SpuriousWake(t)
  BY <1>3 DEF SpuriousWake
<1> QED BY <1>1, <1>2, <1>3

\* Leave keeps the invariant; its store of the owner hands the duty to wake to its notification.
LEMMA LeavePreserves ==
  ASSUME IInv, NEW t \in Threads,
         LeaveLoad(t) \/ LeaveStore(t) \/ StoreOwner(t) \/ NotifyOne(t)
  PROVE  IInv'
<1> USE ThreadsAssumption DEF IInv, TypeOK, Places, Exclusion, OwnerPlaces, CountsAgree,
      LoadsCurrent, OwnerPlaced, SleepersWait, NoStrandedSleeper, Goto
<1>1. CASE LeaveLoad(t)
  BY <1>1 DEF LeaveLoad
<1>2. CASE LeaveStore(t)
  BY <1>2 DEF LeaveStore
<1>3. CASE StoreOwner(t)
  BY <1>3 DEF StoreOwner
<1>4. CASE NotifyOne(t)
  BY <1>4 DEF NotifyOne
<1> QED BY <1>1, <1>2, <1>3, <1>4

\* The inductive invariant holds in every reachable state.
THEOREM Invariance == Spec => []IInv
<1>1. IInv /\ [Next]_vars => IInv'
  <2> SUFFICES ASSUME IInv, [Next]_vars PROVE IInv'
    OBVIOUS
  <2>1. CASE UNCHANGED vars
    BY <2>1 DEF vars, IInv, TypeOK, Exclusion, CountsAgree, LoadsCurrent, OwnerPlaced,
                SleepersWait, NoStrandedSleeper
  <2>2. CASE Next
    BY <2>1, <2>2, CallsPreserve, EnterPreserves, WaitPreserves, LeavePreserves
    DEF Next, Step, Finished
  <2> QED BY <2>1, <2>2
<1> QED BY InitEstablishes, <1>1, PTL DEF Spec

------------------------------------------------------------------------------

\* In every reachable state the words and the bookkeeping have their types.
THEOREM TypeCorrect == Spec => []TypeOK
<1>1. IInv => TypeOK
  BY DEF IInv
<1> QED BY Invariance, <1>1, PTL

\* No interleaving lets two threads inside a section, or a thread other than the
\* owner at the recursion word.
THEOREM MutualExclusion == Spec => []Exclusion
<1>1. IInv => Exclusion
  BY DEF IInv
<1> QED BY Invariance, <1>1, PTL

\* A thread inside a section owns it, and reads from the recursion word how many
\* Leaves it owes.
THEOREM RecursionExact == Spec => []SectionExact
<1>1. IInv => SectionExact
  BY DEF IInv, TypeOK, Exclusion, CountsAgree, SectionExact
<1> QED BY Invariance, <1>1, PTL

\* A sleeper behind a free section is never forgotten.
THEOREM NobodyStranded == Spec => []NoStrandedSleeper
<1>1. IInv => NoStrandedSleeper
  BY DEF IInv
<1> QED BY Invariance, <1>1, PTL

------------------------------------------------------------------------------
(* The two words implement the abstract recursive lock. *)

\* Nobody has a claim at first.
LEMMA InitRefines == Init => Lock!Init
  BY ThreadsAssumption DEF Init, Lock!Init, Claims

\* An acquisition takes effect at the compare-exchange.
LEMMA AcquireRefines ==
  ASSUME IInv, NEW t \in Threads, EnterTakes(t) \/ TryTakes(t)
  PROVE  Lock!Acquire(t)
<1> DEFINE D == [u \in Threads |-> Claims(u)]
<1> USE ThreadsAssumption
<1>1. /\ pc[t] \in {"cas", "try"} /\ owner \in {NoThread, t}
      /\ owner' = t /\ pc' = [pc EXCEPT ![t] = "incLoad"] /\ recursion' = recursion
  BY DEF EnterTakes, TryTakes, CanTake, Goto
<1>2. \A u \in Threads \ {t} : Claims(u) = 0 /\ Claims(u)' = 0
  BY <1>1 DEF Claims
<1>3. Claims(t)' = Claims(t) + 1
  BY <1>1 DEF Claims, IInv, TypeOK, CountsAgree
<1>4. D' = [D EXCEPT ![t] = @ + 1]
  BY <1>2, <1>3
<1>5. \A u \in Threads \ {t} : D[u] = 0
  BY <1>2
<1> QED BY <1>4, <1>5 DEF Lock!Acquire

\* A release takes effect where the last or a nested claim is given up.
LEMMA ReleaseRefines ==
  ASSUME IInv, NEW t \in Threads, StoreOwner(t) \/ (LeaveStore(t) /\ reg[t] # 0)
  PROVE  Lock!Release(t)
<1> DEFINE D == [u \in Threads |-> Claims(u)]
<1> USE ThreadsAssumption
<1>1. owner = t
  BY DEF IInv, Exclusion, OwnerPlaces, StoreOwner, LeaveStore
<1>2. \A u \in Threads \ {t} : Claims(u) = 0 /\ Claims(u)' = 0
  BY <1>1 DEF Claims, StoreOwner, LeaveStore
<1>3. Claims(t) > 0 /\ Claims(t)' = Claims(t) - 1
  BY <1>1 DEF Claims, StoreOwner, LeaveStore, Goto, IInv, TypeOK, CountsAgree, LoadsCurrent
<1>4. D' = [D EXCEPT ![t] = @ - 1]
  BY <1>2, <1>3
<1>5. D[t] > 0
  BY <1>3
<1> QED BY <1>4, <1>5 DEF Lock!Release

\* A call, a failed attempt, a wait, a notification, and the halves of an update
\* that are not its effect, leave every claim alone.
LEMMA OthersStutter ==
  ASSUME IInv, NEW t \in Threads,
         \/ CallEnter(t) \/ CallTryEnter(t) \/ CallLeave(t)
         \/ EnterFails(t) \/ TryFails(t) \/ IncrementLoad(t) \/ IncrementStore(t)
         \/ Sleep(t) \/ WaitReturns(t) \/ SpuriousWake(t)
         \/ LeaveLoad(t) \/ (LeaveStore(t) /\ reg[t] = 0) \/ NotifyOne(t)
  PROVE  UNCHANGED [u \in Threads |-> Claims(u)]
<1> SUFFICES ASSUME NEW u \in Threads PROVE Claims(u)' = Claims(u)
  OBVIOUS
<1> USE ThreadsAssumption
    DEF IInv, TypeOK, Exclusion, OwnerPlaces, CountsAgree, LoadsCurrent, OwnerPlaced, Claims, Goto
<1>1. CASE CallEnter(t) \/ CallTryEnter(t) \/ CallLeave(t)
  BY <1>1 DEF CallEnter, CallTryEnter, CallLeave
<1>2. CASE EnterFails(t) \/ TryFails(t)
  BY <1>2 DEF EnterFails, TryFails, CanTake
<1>3. CASE IncrementLoad(t) \/ IncrementStore(t)
  BY <1>3 DEF IncrementLoad, IncrementStore
<1>4. CASE Sleep(t) \/ WaitReturns(t) \/ SpuriousWake(t) \/ NotifyOne(t)
  BY <1>4 DEF Sleep, WaitReturns, SpuriousWake, NotifyOne
<1>5. CASE LeaveLoad(t) \/ (LeaveStore(t) /\ reg[t] = 0)
  BY <1>5 DEF LeaveLoad, LeaveStore
<1> QED BY <1>1, <1>2, <1>3, <1>4, <1>5

\* Every step of the code is a step of the abstract lock or leaves it as it is.
THEOREM Refinement == Spec => ImplementsLock
<1>1. IInv /\ [Next]_vars => [Lock!Next]_[t \in Threads |-> Claims(t)]
  <2> SUFFICES ASSUME IInv, [Next]_vars PROVE [Lock!Next]_[t \in Threads |-> Claims(t)]
    OBVIOUS
  <2>1. CASE UNCHANGED vars
    BY <2>1 DEF vars, Claims
  <2>2. CASE Next
    <3>1. CASE Finished
      BY <2>1, <3>1 DEF Finished
    <3>2. CASE \E t \in Threads :
                  Step(t) \/ CallEnter(t) \/ CallTryEnter(t) \/ SpuriousWake(t)
      <4>1. PICK t \in Threads :
                  Step(t) \/ CallEnter(t) \/ CallTryEnter(t) \/ SpuriousWake(t)
        BY <3>2
      <4>2. CASE EnterTakes(t) \/ TryTakes(t)
        BY <4>2, AcquireRefines DEF Lock!Next
      <4>3. CASE StoreOwner(t) \/ (LeaveStore(t) /\ reg[t] # 0)
        BY <4>3, ReleaseRefines DEF Lock!Next
      <4> QED BY <4>1, <4>2, <4>3, OthersStutter DEF Step
    <3> QED BY <2>2, <3>1, <3>2 DEF Next
  <2> QED BY <2>1, <2>2
<1> QED BY Invariance, InitRefines, <1>1, PTL DEF Spec, ImplementsLock, Lock!Spec

------------------------------------------------------------------------------
(* An XMA context: the guest's lock keeps the decoder out though no word is    *)
(* exchanged, and the decoder, which goes by a copy of the guest's read cursor *)
(* that is older than the cursor, never overtakes it                           *)

\* A context the guest owns is not kicked either, so a decoder that has seen it
\* kicked and asks for the mutex finds nothing to do.
OwnershipInv == locked => ~enabled /\ MutexFree

\* A context that is not set up has no input, no output and nothing to read, and
\* the decoder is not in it.
Stopped ==
    /\ started => allocated
    /\ ~started =>
                /\ MutexFree /\ ~AnyValid(ctx) /\ ~ctx.outputValid
                /\ unread = 0 /\ ctx.read = ctx.write

\* A valid buffer is one the voice has.
Loaded(c) == \A b \in Buffer : c.valid[b] => c.ptr[b] \in DOMAIN Stream.buffers

\* The decoder works on buffers of the guest's voice, and in ProcessPacket on one
\* that is valid: after a copy the cursor is behind a packet of that buffer.
Buffers ==
    /\ Loaded(ctx)
    /\ ~MutexFree => Loaded(data) /\ data.ptr = ctx.ptr
    /\ worker \in {"fetch", "check"} => data.valid[data.current]
    /\ worker = "check" => data.offset > 0 /\ ReadIndex < PacketCount

\* Cursor b is n blocks ahead of a; a full ring and an empty one have it where a is.
Ahead(a, n, b) == b \in {a + n, a + n - RingBlocks}

\* Between the copy of the context and the end of Work the decoder counts down
\* the blocks that were free.
Filling == {"process", "loop", "fetch", "check", "consume", "finish"}

\* The blocks of the ring: those the guest has still to read, those written in this
\* round, and those free in the copy, which lie in this order from the guest's
\* cursor to the copy of it.  They are the whole ring only if the guest has read
\* nothing since the copy, and a valid output never is a full one.
RingAccount ==
    /\ MutexFree \/ worker \in {"store1", "store2", "store4"} =>
          Ahead(ctx.read, unread, ctx.write)
    /\ MutexFree \/ worker \in {"store2", "store4"} =>
          (ctx.outputValid => unread < RingBlocks)
    /\ worker = "store1" => (data.outputValid => unread < RingBlocks)
    /\ worker = "store0" =>
          /\ data.write = ringWrite /\ unread + written <= RingBlocks
          /\ Ahead(ctx.read, unread + written, ringWrite)
          /\ data.outputValid => unread + written < RingBlocks
    /\ worker \in Filling =>
          /\ unread + written + free <= RingBlocks
          /\ unread + written + free = RingBlocks => ctx.read = data.read
          /\ Ahead(ctx.read, unread + written, ringWrite)
          /\ Ahead(ringWrite, free, data.read)

Cursor == 0 .. RingBlocks - 1

Context == [valid : [Buffer -> BOOLEAN], ptr : [Buffer -> Nat \ {0}], loopCount : Nat,
            write : Cursor, read : Cursor, outputValid : BOOLEAN,
            skip : Nat, offset : Nat, current : Buffer]

\* XmaTypeOK in the form the steps below use.
Typed ==
    /\ ring \in [Cursor -> Bit] /\ ctx \in Context /\ data \in Context
    /\ enabled \in BOOLEAN /\ allocated \in BOOLEAN /\ crossed \in BOOLEAN
    /\ started \in BOOLEAN /\ locked \in BOOLEAN
    /\ worker \in {"idle", "taken", "process", "loop", "fetch", "check", "consume", "finish",
                   "store0", "store1", "store2", "store4"}
    /\ free \in Nat /\ written \in Nat /\ skip \in Nat /\ frameBits \in Nat
    /\ pcm \in Nat /\ pcmOffset \in Nat /\ remaining \in Nat
    /\ submitted \in Nat /\ resets \in Nat
    /\ ringWrite \in Cursor /\ unread \in 0 .. RingBlocks
    /\ copied \in Seq(Bit) /\ Len(copied) <= frameBits
    /\ published \in Nat \cup {None} /\ voice \in DOMAIN Voices
    /\ heard \in Seq(Bit) /\ Len(heard) <= MaxHeard

\* The inductive invariant.
XmaInv == Typed /\ OwnershipInv /\ Stopped /\ Buffers /\ RingAccount

\* The constants are numbers.
LEMMA Constants ==
  /\ PacketBits \in Nat \ {0} /\ HeaderBits \in Nat \ {0} /\ LengthBits \in Nat \ {0}
  /\ Subframes \in Nat \ {0} /\ RingBlocks \in Nat \ {0} /\ HeaderBits < PacketBits
  /\ Forever \in Nat /\ MaxHeard \in Nat /\ Resets \in Nat
BY BitsAssumption, XmaBoundsAssumption

\* What the assumption on the voices says of the one that plays.
LEMMA VoiceOf ==
  ASSUME voice \in DOMAIN Voices
  PROVE  /\ Stream \in Voice /\ Len(Stream.starts) = Len(Stream.buffers)
         /\ 1 \in DOMAIN Stream.buffers /\ 1 \in DOMAIN Stream.starts
         /\ Stream.buffers \in Seq(Seq(Packet)) /\ Stream.starts \in Seq(Nat)
         /\ DOMAIN Stream.length \subseteq Nat
         /\ \A f \in DOMAIN Stream.length : Stream.length[f] \in Nat
         /\ Stream.channels \in Nat \ {0} /\ Stream.decode \in Nat /\ Stream.skip \in Nat
         /\ Stream.loopStart \in Nat /\ Stream.loopCount \in Nat
<1>1. Stream \in Voice /\ Len(Stream.starts) = Len(Stream.buffers)
  BY VoicesAssumption DEF Stream
<1>2. Stream.buffers \in Seq(Seq(Packet)) /\ Stream.buffers # <<>> /\ Stream.starts \in Seq(Nat)
  BY <1>1 DEF Voice
<1>3. Stream.length \in Seq(Nat) /\ Stream.channels \in Nat \ {0} /\ Stream.decode \in Nat /\ Stream.skip \in Nat
  BY <1>1 DEF Voice
<1>4. Stream.loopStart \in Nat /\ Stream.loopCount \in Nat
  BY <1>1 DEF Voice
<1>5. /\ 1 \in DOMAIN Stream.buffers /\ 1 \in DOMAIN Stream.starts
      /\ DOMAIN Stream.length \subseteq Nat
      /\ \A f \in DOMAIN Stream.length : Stream.length[f] \in Nat
  BY <1>1, <1>2, <1>3
<1> QED BY <1>1, <1>2, <1>3, <1>4, <1>5

\* The two forms of the type invariant.
LEMMA TypeParts == XmaTypeOK <=> Typed
<1>1. ASSUME ring \in [Cursor -> Bit] PROVE DOMAIN ring = Cursor /\ ContextType = Context
  BY <1>1 DEF ContextType, Context
<1>2. /\ {enabled, allocated, crossed, started, locked} \subseteq BOOLEAN
      <=> /\ enabled \in BOOLEAN /\ allocated \in BOOLEAN /\ crossed \in BOOLEAN
          /\ started \in BOOLEAN /\ locked \in BOOLEAN
  OBVIOUS
<1>3. {free, written, skip, frameBits, pcm, pcmOffset, remaining, submitted, resets} \subseteq Nat
      <=> /\ free \in Nat /\ written \in Nat /\ skip \in Nat /\ frameBits \in Nat
          /\ pcm \in Nat /\ pcmOffset \in Nat /\ remaining \in Nat
          /\ submitted \in Nat /\ resets \in Nat
  OBVIOUS
<1> HIDE DEF Context, ContextType
<1>4. XmaTypeOK => Typed
  BY <1>1, <1>2, <1>3 DEF XmaTypeOK, Typed, Cursor, Bit
<1>5. Typed => XmaTypeOK
  BY <1>1, <1>2, <1>3 DEF XmaTypeOK, Typed, Cursor, Bit
<1> QED BY <1>4, <1>5

\* A context of zeros is one.
LEMMA ZeroTyped == Zero \in Context
<1>1. 0 \in Cursor /\ 0 \in Buffer
  BY Constants DEF Cursor, Buffer
<1>2. [b \in Buffer |-> FALSE] \in [Buffer -> BOOLEAN] /\ [b \in Buffer |-> 1] \in [Buffer -> Nat \ {0}]
  OBVIOUS
<1> QED BY <1>1, <1>2 DEF Zero, Context

\* The initial state has its types.
LEMMA TypeInit == XmaInit => Typed
<1> SUFFICES ASSUME XmaInit PROVE Typed
  OBVIOUS
<1>1. ring \in [Cursor -> Bit] /\ 0 \in Cursor
  BY Constants DEF XmaInit, Cursor, Bit, Padding
<1>2. voice \in DOMAIN Voices
  BY VoicesAssumption DEF XmaInit
<1>3. Len(copied) <= frameBits /\ Len(heard) <= MaxHeard /\ copied \in Seq(Bit) /\ heard \in Seq(Bit)
  BY Constants DEF XmaInit
<1> QED BY <1>1, <1>2, <1>3, ZeroTyped, Constants DEF XmaInit, Typed

\* The initial state satisfies the invariant.
LEMMA InvInit == XmaInit => XmaInv
<1> SUFFICES ASSUME XmaInit PROVE XmaInv
  OBVIOUS
<1>1. OwnershipInv /\ Stopped
  BY DEF XmaInit, OwnershipInv, Stopped, MutexFree, AnyValid, Zero
<1>2. Buffers
  BY DEF XmaInit, Buffers, Loaded, MutexFree, Zero
<1>3. RingAccount
  BY Constants DEF XmaInit, RingAccount, MutexFree, Ahead, Filling, Zero
<1> QED BY <1>1, <1>2, <1>3, TypeInit DEF XmaInv

\* The smaller of two numbers.
LEMMA MinOfTwo ==
  ASSUME NEW a \in Int, NEW b \in Int
  PROVE  Min({a, b}) \in {a, b} /\ Min({a, b}) <= a /\ Min({a, b}) <= b
BY DEF Min

\* The smallest of three numbers.
LEMMA MinOfThree ==
  ASSUME NEW a \in Int, NEW b \in Int, NEW c \in Int
  PROVE  /\ Min({a, b, c}) \in {a, b, c}
         /\ Min({a, b, c}) <= a /\ Min({a, b, c}) <= b /\ Min({a, b, c}) <= c
BY DEF Min

\* The larger of two numbers.
LEMMA MaxOfTwo ==
  ASSUME NEW a \in Int, NEW b \in Int
  PROVE  Max({a, b}) \in {a, b}
BY DEF Max

\* Division and remainder of numbers from 0 on.
LEMMA Quotient ==
  ASSUME NEW d \in Nat \ {0}, NEW a \in Nat
  PROVE  a \div d \in Nat /\ a % d \in 0 .. d - 1
OBVIOUS

\* The quotient of q * d + r with a small remainder.
LEMMA QuotientOf ==
  ASSUME NEW d \in Nat \ {0}, NEW q \in Nat, NEW r \in 0 .. d - 1
  PROVE  (q * d + r) \div d = q /\ q * d + r \in Nat
OBVIOUS

\* At most a \div d portions of d fit into a.
LEMMA Portion ==
  ASSUME NEW d \in Nat \ {0}, NEW n \in Nat, NEW a \in Nat, n <= a \div d
  PROVE  n * d \in Nat /\ n * d <= a
OBVIOUS

\* A cursor is at most one turn out of the ring.
LEMMA Wrap ==
  ASSUME NEW n \in Nat \ {0}, NEW a \in Int, -n < a, a < 2 * n
  PROVE  a % n = IF a < 0 THEN a + n ELSE IF a < n THEN a ELSE a - n
OBVIOUS

\* A context with another cursor, skip count or loop count.
LEMMA WithOffset ==
  ASSUME NEW c \in Context, NEW n \in Nat, NEW s \in Nat
  PROVE  /\ [c EXCEPT !.offset = n] \in Context
         /\ [c EXCEPT !.skip = s, !.offset = n] \in Context
         /\ [c EXCEPT !.offset = n, !.loopCount = s] \in Context
BY DEF Context

\* SwapInputBuffer's field.
LEMMA WithCurrent ==
  ASSUME NEW c \in Context, NEW b \in Buffer
  PROVE  [c EXCEPT !.current = b] \in Context
BY DEF Context

\* A context whose current buffer is used up.
LEMMA WithRetired ==
  ASSUME NEW c \in Context
  PROVE  [c EXCEPT !.valid[c.current] = FALSE, !.current = 1 - @, !.offset = 0] \in Context
<1>1. [c.valid EXCEPT ![c.current] = FALSE] \in [Buffer -> BOOLEAN] /\ 1 - c.current \in Buffer
  BY DEF Context, Buffer
<1> QED BY <1>1 DEF Context

\* A context with Finish's fields.
LEMMA WithWrite ==
  ASSUME NEW c \in Context, NEW w \in Cursor, NEW v \in BOOLEAN
  PROVE  [c EXCEPT !.write = w, !.outputValid = v] \in Context
BY DEF Context

\* The words StoreDecoded stores.
LEMMA WithWords ==
  ASSUME NEW c \in Context, NEW d \in Context
  PROVE  /\ [c EXCEPT !.valid = d.valid, !.loopCount = d.loopCount, !.write = d.write] \in Context
         /\ [c EXCEPT !.outputValid = d.outputValid, !.skip = d.skip] \in Context
BY DEF Context

\* A loaded buffer is a sequence of packets.
LEMMA PacketsTyped ==
  ASSUME Typed, Loaded(data), data.valid[data.current]
  PROVE  /\ Packets(data.current) \in Seq(Packet) /\ PacketCount \in Nat
         /\ PacketIndex \in Nat
         /\ PacketIndex < PacketCount => CurrentPacket \in Packet
         /\ data.offset > 0 /\ ReadIndex < PacketCount => ReadIndex \in Nat /\ ReadPacket \in Packet
<1>1. data.current \in Buffer /\ data.ptr[data.current] \in DOMAIN Stream.buffers /\ data.offset \in Nat
  BY DEF Typed, Context, Loaded
<1>2. Stream.buffers \in Seq(Seq(Packet))
  BY VoiceOf DEF Typed
<1>3. Packets(data.current) \in Seq(Packet)
  BY <1>1, <1>2 DEF Packets
<1>4. PacketIndex \in Nat
  BY <1>1, Constants, Quotient DEF PacketIndex
<1>5. ASSUME data.offset > 0 PROVE ReadIndex \in Nat
  <2>1. data.offset - 1 \in Nat
    BY <1>1, <1>5
  <2> QED BY <2>1, Constants, Quotient DEF ReadIndex
<1> QED BY <1>3, <1>4, <1>5 DEF PacketCount, CurrentPacket, ReadPacket

\* What Consume copies is decoded and fits.
LEMMA Copies ==
  ASSUME Typed
  PROVE  LET n == Min({remaining, Max({1, Stream.decode}), free \div Stream.channels})
         IN  /\ n \in Nat /\ n <= remaining
             /\ n * Stream.channels \in Nat /\ n * Stream.channels <= free
<1> DEFINE m == Max({1, Stream.decode})
           q == free \div Stream.channels
           n == Min({remaining, m, q})
<1>1. Stream.channels \in Nat \ {0} /\ Stream.decode \in Nat /\ free \in Nat /\ remaining \in Nat
  BY VoiceOf DEF Typed
<1>2. m \in Nat /\ q \in Nat
  <2>1. q \in Nat
    BY <1>1, Quotient
  <2>2. 1 \in Int /\ Stream.decode \in Int
    BY <1>1
  <2>3. m \in {1, Stream.decode}
    BY <2>2, MaxOfTwo, Zenon
  <2> HIDE DEF m
  <2> QED BY <1>1, <2>1, <2>3
<1> HIDE DEF m
<1>3. n \in Nat /\ n <= remaining /\ n <= q
  <2> HIDE DEF q
  <2>1. remaining \in Int /\ m \in Int /\ q \in Int
    BY <1>1, <1>2
  <2>2. n \in {remaining, m, q} /\ n <= remaining /\ n <= m /\ n <= q
    BY <2>1, MinOfThree, Zenon
  <2> HIDE DEF n
  <2> QED BY <1>1, <1>2, <2>2
<1> HIDE DEF n
<1>4. n * Stream.channels \in Nat /\ n * Stream.channels <= free
  BY <1>1, <1>3, Portion
<1> QED BY <1>3, <1>4 DEF n, m

\* CopyBits stays in the packet.
LEMMA Copied ==
  ASSUME Typed, Buffers, CopyBits
  PROVE  /\ CurrentPacket \in Packet /\ PacketIndex \in Nat
         /\ BitOffset \in HeaderBits .. PacketBits - 1
         /\ \E n \in Nat :
               /\ n <= PacketBits - BitOffset
               /\ data' = [data EXCEPT !.offset = PacketIndex * PacketBits + BitOffset + n]
               /\ data' \in Context
         /\ copied' \in Seq(Bit) /\ frameBits' \in Nat /\ Len(copied') <= frameBits'
<1>0. data.valid[data.current] /\ Loaded(data) /\ PacketIndex < PacketCount
  BY DEF Buffers, CopyBits, MutexFree
<1>1. CurrentPacket \in Packet /\ PacketIndex \in Nat
  BY <1>0, PacketsTyped
<1>2. BitOffset \in HeaderBits .. PacketBits - 1
  <2>1. data.offset % PacketBits \in 0 .. PacketBits - 1 /\ CurrentPacket.first \in Nat
    BY <1>1, Constants, Quotient DEF Typed, Context, Packet
  <2> QED BY <2>1, Constants DEF BitOffset, CopyBits
<1> DEFINE wanted == IF copied = <<>> THEN LengthBits ELSE frameBits
           n == Min({wanted - Len(copied), PacketBits - BitOffset})
           more == [k \in 1 .. n |-> CurrentPacket.bits[BitOffset - HeaderBits + k]]
<1>3. wanted \in Nat /\ Len(copied) \in Nat /\ Len(copied) <= wanted /\ copied \in Seq(Bit)
  BY Constants DEF Typed
<1>4. n \in Nat /\ n <= wanted - Len(copied) /\ n <= PacketBits - BitOffset
  <2>1. wanted - Len(copied) \in Nat /\ PacketBits - BitOffset \in Nat
    BY <1>2, <1>3, Constants
  <2>2. wanted - Len(copied) \in Int /\ PacketBits - BitOffset \in Int
    BY <2>1
  <2>3. /\ n \in {wanted - Len(copied), PacketBits - BitOffset}
        /\ n <= wanted - Len(copied) /\ n <= PacketBits - BitOffset
    BY <2>2, MinOfTwo, Zenon
  <2> HIDE DEF n
  <2> QED BY <2>1, <2>3
<1>5. /\ frameBits' = wanted /\ copied' = copied \o more
      /\ data' = [data EXCEPT !.offset = PacketIndex * PacketBits + BitOffset + n]
  BY DEF CopyBits
<1> HIDE DEF wanted, n
<1>6. more \in Seq(Bit) /\ Len(more) = n
  BY <1>1, <1>2, <1>4, Constants DEF Packet
<1>7. copied' \in Seq(Bit) /\ Len(copied') <= frameBits'
  BY <1>3, <1>4, <1>5, <1>6
<1>8. PacketIndex * PacketBits + BitOffset + n \in Nat
  BY <1>1, <1>2, <1>4, Constants
<1>9. data' \in Context
  BY <1>5, <1>8, WithOffset DEF Typed
<1> QED BY <1>1, <1>2, <1>3, <1>4, <1>5, <1>7, <1>9

\* Every step of the decoder keeps the types.
LEMMA WorkerTypes ==
  ASSUME XmaInv, Worker
  PROVE  Typed'
<1> USE DEF WorkerAt
<1>0. Typed
  BY DEF XmaInv
<1>1. CASE Take
  BY <1>0, <1>1 DEF Take, Typed, local, private, guest, assembly, output
<1>2. CASE Begin
  <2>1. WriteCount(ctx) \in Nat
    <3>1. RingBlocks \in Nat \ {0} /\ ctx.read \in Cursor /\ ctx.write \in Cursor
      BY <1>0, Constants DEF Typed, Context
    <3>2. (ctx.read - ctx.write) % RingBlocks \in Nat
      BY <3>1, Wrap DEF Cursor
    <3> QED BY <3>1, <3>2 DEF WriteCount
  <2>2. data' \in Context /\ ctx.write \in Cursor
    BY <1>0, <1>2 DEF Begin, Typed, Context
  <2>3. skip' \in Nat /\ free' \in Nat /\ written' \in Nat /\ ringWrite' \in Cursor
    BY <1>0, <1>2, <2>1, <2>2 DEF Begin, Typed
  <2>4. worker' \in {"idle", "process"}
    BY <1>2 DEF Begin
  <2> QED BY <1>0, <1>2, <2>2, <2>3, <2>4 DEF Begin, Typed, output, guest
<1>3. CASE Process
  BY <1>0, <1>3 DEF Process, Inside, Typed, assembly, output, guest
<1>4. CASE CheckLoop
  <2>1. data' \in Context /\ skip' \in Nat
    <3>1. Stream.loopStart \in Nat
      BY <1>0, VoiceOf DEF Typed
    <3>2. data.loopCount \in Nat /\ data \in Context /\ skip \in Nat
      BY <1>0 DEF Typed, Context
    <3>3. CASE copied = <<>> /\ RestartsLoop /\ data.valid[data.current]
      <4> DEFINE n == IF data.loopCount = Forever THEN data.loopCount ELSE data.loopCount - 1
      <4>1. n \in Nat
        BY <3>2, <3>3 DEF RestartsLoop
      <4>2. data' = [data EXCEPT !.offset = Stream.loopStart, !.loopCount = n] /\ skip' = 0
        BY <1>4, <3>2, <3>3 DEF CheckLoop
      <4> HIDE DEF n
      <4> QED BY <3>1, <3>2, <4>1, <4>2, WithOffset
    <3>4. CASE ~(copied = <<>> /\ RestartsLoop /\ data.valid[data.current])
      BY <1>4, <3>2, <3>4 DEF CheckLoop
    <3> QED BY <3>3, <3>4
  <2> QED BY <1>0, <1>4, <2>1 DEF CheckLoop, Inside, Typed, output, guest
<1>5. CASE RetireBuffer
  <2>0. data.valid[data.current] /\ Loaded(data)
    BY <1>5 DEF XmaInv, Buffers, RetireBuffer, MutexFree
  <2>1. skip' \in Nat
    BY <1>0, <1>5, <2>0, PacketsTyped DEF RetireBuffer, Typed
  <2>2. data' \in Context
    BY <1>0, <1>5, WithRetired DEF RetireBuffer, Typed
  <2> QED BY <1>0, <1>5, <2>1, <2>2 DEF RetireBuffer, Inside, Typed, output, guest
<1>6. CASE SkipPackets
  <2>0. data.valid[data.current] /\ Loaded(data)
    BY <1>6 DEF XmaInv, Buffers, SkipPackets, MutexFree
  <2> DEFINE n == Min({skip, PacketCount - PacketIndex})
  <2>1. n \in Nat /\ n <= skip /\ PacketIndex \in Nat
    <3>1. PacketIndex \in Nat /\ PacketCount \in Nat /\ PacketIndex < PacketCount /\ skip \in Nat
      BY <1>0, <1>6, <2>0, PacketsTyped DEF SkipPackets, Typed
    <3> QED BY <3>1, MinOfTwo
  <2>2. skip' = skip - n /\ data' = [data EXCEPT !.offset = (PacketIndex + n) * PacketBits]
    BY <1>6 DEF SkipPackets
  <2>3. (PacketIndex + n) * PacketBits \in Nat
    BY <2>1, Constants
  <2> HIDE DEF n
  <2>4. skip' \in Nat /\ data' \in Context
    <3>1. skip \in Nat /\ data \in Context
      BY <1>0 DEF Typed
    <3>2. data' \in Context
      BY <2>2, <2>3, <3>1, WithOffset
    <3> QED BY <2>1, <2>2, <3>1, <3>2
  <2> QED BY <1>0, <1>6, <2>4 DEF SkipPackets, Inside, Typed, output, guest
<1>7. CASE PassPacket
  <2>0. data.valid[data.current] /\ Loaded(data) /\ PacketIndex < PacketCount
    BY <1>7 DEF XmaInv, Buffers, PassPacket, MutexFree
  <2>1. (PacketIndex + 1) * PacketBits \in Nat /\ CurrentPacket.skip \in Nat
    BY <1>0, <2>0, PacketsTyped, Constants DEF Packet
  <2>2. skip' \in Nat /\ data' \in Context
    BY <1>0, <1>7, <2>1, WithOffset DEF PassPacket, MoveOn, Typed
  <2> QED BY <1>0, <1>7, <2>2 DEF PassPacket, Inside, Typed, output, guest
<1>8. CASE CopyBits
  <2>1. data' \in Context /\ copied' \in Seq(Bit) /\ frameBits' \in Nat /\ Len(copied') <= frameBits'
    BY <1>0, <1>8, Copied DEF XmaInv
  <2>2. crossed' \in BOOLEAN
    BY <1>0, <1>8 DEF CopyBits, Typed
  <2> QED BY <1>0, <1>8, <2>1, <2>2 DEF CopyBits, Inside, Typed, output, guest
<1>9. ASSUME worker = "check"
      PROVE  (ReadIndex + 1) * PacketBits \in Nat /\ ReadPacket.skip \in Nat
  <2>1. ReadPacket \in Packet /\ ReadIndex \in Nat
    BY <1>0, <1>9, PacketsTyped DEF XmaInv, Buffers, MutexFree
  <2> QED BY <2>1, Constants DEF Packet
<1>10. CASE ParseLength
  <2>1. PICK n \in LengthField(copied) :
          IF n <= LengthBits
          THEN /\ copied' = <<>> /\ frameBits' = 0
               /\ MoveOnFromRead
               /\ WorkerAt("loop") /\ UNCHANGED crossed
          ELSE /\ frameBits' = n
               /\ crossed' = (crossed \/ AtPacketEnd)
               /\ IF AtPacketEnd THEN MoveOnFromRead ELSE UNCHANGED <<data, skip>>
               /\ WorkerAt("loop") /\ UNCHANGED copied
    BY <1>10 DEF ParseLength
  <2>2. n \in Nat
    <3>1. \A f \in DOMAIN Stream.length : Stream.length[f] \in Nat
      BY <1>0, VoiceOf DEF Typed
    <3> QED BY <3>1 DEF LengthField
  <2>3. MoveOnFromRead \/ UNCHANGED <<data, skip>>
    BY <2>1
  <2>4. data' \in Context /\ skip' \in Nat
    BY <1>0, <1>9, <1>10, <2>3, WithOffset DEF ParseLength, MoveOnFromRead, Typed
  <2>5. copied' \in Seq(Bit) /\ frameBits' \in Nat /\ Len(copied') <= frameBits'
    <3>1. CASE n <= LengthBits
      BY <2>1, <3>1
    <3>2. CASE ~(n <= LengthBits)
      BY <1>0, <1>10, <2>1, <2>2, <3>2, Constants DEF ParseLength, Typed
    <3> QED BY <3>1, <3>2
  <2>6. crossed' \in BOOLEAN /\ worker' = "loop"
    <3>1. AtPacketEnd \in BOOLEAN
      BY DEF AtPacketEnd
    <3> QED BY <1>0, <2>1, <3>1 DEF Typed
  <2> QED BY <1>0, <1>10, <2>4, <2>5, <2>6 DEF ParseLength, Inside, Typed, output, guest
<1>11. CASE NeedsMoreBits
  <2>1. MoveOnFromRead \/ UNCHANGED <<data, skip>>
    BY <1>11 DEF NeedsMoreBits
  <2>2. data' \in Context /\ skip' \in Nat
    BY <1>0, <1>9, <1>11, <2>1, WithOffset DEF NeedsMoreBits, MoveOnFromRead, Typed
  <2> QED BY <1>0, <1>11, <2>2 DEF NeedsMoreBits, Inside, Typed, output, guest
<1>12. CASE FrameDone
  <2>1. PICK more \in MoreFlag(copied[frameBits]) :
          LET dropped == IF Decodable = {} THEN 0 ELSE Min({Subframes, data.skip})
              next == (~more /\ ~crossed) \/ AtPacketEnd
          IN  /\ data' = [data EXCEPT !.skip = @ - dropped,
                                      !.offset = IF next THEN (ReadIndex + 1) * PacketBits ELSE @]
              /\ skip' = IF next THEN ReadPacket.skip ELSE skip
              /\ IF Decodable = {} THEN UNCHANGED output
                 ELSE /\ pcm' = CHOOSE f \in Decodable : TRUE
                      /\ pcmOffset' = dropped * Stream.channels
                      /\ remaining' = Subframes - dropped
    BY <1>12 DEF FrameDone
  <2> DEFINE dropped == IF Decodable = {} THEN 0 ELSE Min({Subframes, data.skip})
             next == (~more /\ ~crossed) \/ AtPacketEnd
             offset == IF next THEN (ReadIndex + 1) * PacketBits ELSE data.offset
  <2>2. /\ dropped \in Nat /\ dropped <= Subframes /\ data.skip - dropped \in Nat
        /\ data.offset \in Nat /\ data \in Context
    <3>1. data.skip \in Nat /\ data.offset \in Nat /\ data \in Context
      BY <1>0 DEF Typed, Context
    <3>2. Min({Subframes, data.skip}) \in {Subframes, data.skip}
          /\ Min({Subframes, data.skip}) <= Subframes /\ Min({Subframes, data.skip}) <= data.skip
      <4>1. Subframes \in Int /\ data.skip \in Int
        BY <3>1, Constants
      <4> QED BY <4>1, MinOfTwo, Zenon
    <3> QED BY <3>1, <3>2, Constants
  <2>3. offset \in Nat
    BY <1>9, <1>12, <2>2 DEF FrameDone
  <2>4. /\ data' = [data EXCEPT !.skip = data.skip - dropped, !.offset = offset]
        /\ skip' \in {ReadPacket.skip, skip}
        /\ Decodable = {} => UNCHANGED output
        /\ Decodable # {} => /\ pcm' = CHOOSE f \in Decodable : TRUE
                             /\ pcmOffset' = dropped * Stream.channels
                             /\ remaining' = Subframes - dropped
    BY <2>1, <2>2
  <2> HIDE DEF dropped, offset, next
  <2>5. data' \in Context /\ skip' \in Nat
    <3>1. skip' \in Nat
      BY <1>0, <1>9, <1>12, <2>4 DEF FrameDone, Typed
    <3> QED BY <2>2, <2>3, <2>4, <3>1, WithOffset
  <2>6. pcm' \in Nat /\ pcmOffset' \in Nat /\ remaining' \in Nat
    <3>1. CASE Decodable = {}
      BY <1>0, <2>4, <3>1 DEF output, Typed
    <3>2. CASE Decodable # {}
      <4>1. Stream.channels \in Nat /\ DOMAIN Stream.length \subseteq Nat
        BY <1>0, VoiceOf DEF Typed
      <4>2. (CHOOSE f \in Decodable : TRUE) \in DOMAIN Stream.length
        BY <3>2 DEF Decodable
      <4>3. dropped * Stream.channels \in Nat /\ Subframes - dropped \in Nat
        BY <2>2, <4>1, Constants
      <4> QED BY <2>4, <3>2, <4>1, <4>2, <4>3
    <3> QED BY <3>1, <3>2
  <2>7. copied' = <<>> /\ frameBits' = 0 /\ crossed' = FALSE /\ worker' = "consume"
    BY <1>12 DEF FrameDone
  <2>8. UNCHANGED <<ctx, enabled, allocated, ring, free, written, ringWrite, published, guest, unread>>
    BY <1>12 DEF FrameDone, Inside
  <2>9. Len(copied') <= frameBits' /\ copied' \in Seq(Bit) /\ frameBits' \in Nat
    BY <2>7
  <2> QED BY <1>0, <2>5, <2>6, <2>7, <2>8, <2>9 DEF Typed, guest
<1>13. CASE Consume
  <2> DEFINE n == Min({remaining, Max({1, Stream.decode}), free \div Stream.channels})
             blocks == n * Stream.channels
  <2>1. /\ n \in Nat /\ n <= remaining /\ blocks \in Nat /\ blocks <= free
    BY <1>0, Copies
  <2>2. /\ ring' = [i \in DOMAIN ring |->
                      LET j == (i - ringWrite) % RingBlocks
                      IN  IF j < blocks THEN <<pcm, pcmOffset + j>> ELSE ring[i]]
        /\ ringWrite' = (ringWrite + blocks) % RingBlocks
        /\ pcmOffset' = pcmOffset + blocks /\ remaining' = remaining - n
        /\ free' = free - blocks /\ written' = written + blocks
        /\ worker' \in {"finish", "process"}
    BY <1>13 DEF Consume
  <2> HIDE DEF n, blocks
  <2>3. ring' \in [Cursor -> Bit]
    <3>1. DOMAIN ring = Cursor /\ RingBlocks \in Nat \ {0} /\ pcm \in Nat /\ pcmOffset \in Nat
      BY <1>0, Constants DEF Typed
    <3>2. ASSUME NEW i \in Cursor
          PROVE  (i - ringWrite) % RingBlocks \in Nat /\ ring[i] \in Bit
      <4>1. ringWrite \in Cursor /\ ring[i] \in Bit
        BY <1>0 DEF Typed
      <4> QED BY <3>1, <4>1, Wrap DEF Cursor
    <3> QED BY <2>2, <3>1, <3>2 DEF Bit
  <2>4. ringWrite' \in Cursor
    <3>1. ringWrite + blocks \in Nat /\ RingBlocks \in Nat \ {0}
      BY <1>0, <2>1, Constants DEF Typed, Cursor
    <3> QED BY <2>2, <3>1, Quotient DEF Cursor
  <2>5. pcmOffset' \in Nat /\ remaining' \in Nat /\ free' \in Nat /\ written' \in Nat
    BY <1>0, <2>1, <2>2 DEF Typed
  <2>6. UNCHANGED <<ctx, enabled, allocated, data, assembly, pcm, published, guest, unread>>
    BY <1>13 DEF Consume
  <2> QED BY <1>0, <2>2, <2>3, <2>4, <2>5, <2>6 DEF Typed, assembly, guest
<1>14. CASE Finish
  <2>1. ringWrite \in Cursor /\ data \in Context /\ (data.outputValid /\ data.read # ringWrite) \in BOOLEAN
    BY <1>0 DEF Typed
  <2>2. data' = [data EXCEPT !.write = ringWrite, !.outputValid = data.outputValid /\ data.read # ringWrite]
    BY <1>14, <2>1 DEF Finish, Context
  <2>3. data' \in Context
    BY <2>1, <2>2, WithWrite
  <2> QED BY <1>0, <1>14, <2>3 DEF Finish, Typed, private, assembly, output, guest
<1>15. CASE StoreWord0
  <2>1. ctx' \in Context
    BY <1>0, <1>15, WithWords DEF StoreWord0, Typed
  <2>2. unread' \in 0 .. RingBlocks
    <3>1. unread + written <= RingBlocks /\ unread' = unread + written
      BY <1>15 DEF XmaInv, RingAccount, StoreWord0
    <3>2. unread \in Nat /\ written \in Nat /\ RingBlocks \in Nat
      BY <1>0, Constants DEF Typed
    <3> QED BY <3>1, <3>2
  <2> QED BY <1>0, <1>15, <2>1, <2>2 DEF StoreWord0, Typed, local, private, assembly, output, guest
<1>16. CASE StoreWord1
  <2>1. ctx' \in Context
    BY <1>0, <1>16, WithWords DEF StoreWord1, Typed
  <2> QED BY <1>0, <1>16, <2>1 DEF StoreWord1, Typed, local, private, assembly, output, guest
<1>17. CASE StoreWord2
  <2>1. ctx' \in Context
    <3>1. ctx \in Context /\ data.offset \in Nat
      BY <1>0 DEF Typed, Context
    <3> QED BY <1>17, <3>1, WithOffset DEF StoreWord2
  <2> QED BY <1>0, <1>17, <2>1 DEF StoreWord2, Typed, local, private, assembly, output, guest
<1>18. CASE StoreWord4
  <2>1. ctx' \in Context /\ data.offset \in Nat
    <3>1. ctx \in Context /\ data.offset \in Nat /\ data.current \in Buffer
      BY <1>0 DEF Typed, Context
    <3> QED BY <1>18, <3>1, WithCurrent DEF StoreWord4
  <2> QED BY <1>0, <1>18, <2>1 DEF StoreWord4, Typed, local, assembly, output, guest
<1> QED BY <1>1, <1>2, <1>3, <1>4, <1>5, <1>6, <1>7, <1>8, <1>10, <1>11, <1>12, <1>13, <1>14,
           <1>15, <1>16, <1>17, <1>18 DEF Worker

\* A context with the guest's read cursor or its output given back.
LEMMA WithGuest ==
  ASSUME NEW c \in Context, NEW w \in Cursor
  PROVE  /\ [c EXCEPT !.read = w] \in Context
         /\ [c EXCEPT !.outputValid = TRUE] \in Context
BY DEF Context

\* A context after ClearContext.
LEMMA WithCleared ==
  ASSUME NEW c \in Context
  PROVE  [c EXCEPT !.valid = [b \in Buffer |-> FALSE], !.outputValid = FALSE,
                   !.read = 0, !.write = 0, !.offset = HeaderBits] \in Context
<1>1. [b \in Buffer |-> FALSE] \in [Buffer -> BOOLEAN] /\ 0 \in Cursor /\ HeaderBits \in Nat
  BY Constants DEF Cursor
<1> QED BY <1>1 DEF Context

\* A context with another buffer.
LEMMA WithSubmitted ==
  ASSUME NEW c \in Context, NEW b \in Buffer, NEW p \in Nat \ {0}, NEW n \in Nat
  PROVE  [c EXCEPT !.valid[b] = TRUE, !.ptr[b] = p, !.offset = n] \in Context
<1>1. [c.valid EXCEPT ![b] = TRUE] \in [Buffer -> BOOLEAN] /\ [c.ptr EXCEPT ![b] = p] \in [Buffer -> Nat \ {0}]
  BY DEF Context
<1> QED BY <1>1 DEF Context

\* Every step of the guest keeps the types.
LEMMA GuestTypes ==
  ASSUME XmaInv, Guest
  PROVE  Typed'
<1>0. Typed
  BY DEF XmaInv
<1>1. CASE LockContext \/ KickContext
  BY <1>0, <1>1 DEF LockContext, KickContext, Typed, local, private, assembly, output
<1>2. ASSUME Reset
      PROVE  /\ skip' \in Nat /\ frameBits' \in Nat /\ pcm' \in Nat /\ pcmOffset' \in Nat
             /\ remaining' \in Nat /\ copied' \in Seq(Bit) /\ Len(copied') <= frameBits'
             /\ crossed' \in BOOLEAN /\ published' \in Nat \cup {None}
  <2>1. /\ skip' = 0 /\ copied' = <<>> /\ frameBits' = 0 /\ crossed' = FALSE
        /\ pcm' = 0 /\ pcmOffset' = 0 /\ remaining' = 0 /\ published' = None
    BY <1>2 DEF Reset
  <2>2. copied' \in Seq(Bit) /\ Len(copied') <= frameBits'
    BY <2>1
  <2> QED BY <2>1, <2>2
<1>3. CASE ClearContext
  <2>1. ctx' \in Context
    BY <1>0, <1>3, WithCleared DEF ClearContext, Typed
  <2>2. Reset /\ resets' \in Nat /\ started' = FALSE /\ unread' = 0 /\ heard' = <<>>
    BY <1>0, <1>3 DEF ClearContext, Typed
  <2>3. heard' \in Seq(Bit) /\ Len(heard') <= MaxHeard /\ unread' \in 0 .. RingBlocks
    BY <2>2, Constants
  <2> QED BY <1>0, <1>2, <1>3, <2>1, <2>2, <2>3 DEF ClearContext, Typed, local
<1>4. CASE ReleaseContext
  <2>1. ctx' \in Context
    BY <1>4, ZeroTyped DEF ReleaseContext
  <2>2. Reset /\ resets' \in Nat /\ started' = FALSE /\ locked' = TRUE /\ unread' = 0 /\ heard' = <<>>
    BY <1>0, <1>4 DEF ReleaseContext, Typed
  <2>3. heard' \in Seq(Bit) /\ Len(heard') <= MaxHeard /\ unread' \in 0 .. RingBlocks
    BY <2>2, Constants
  <2> QED BY <1>0, <1>2, <1>4, <2>1, <2>2, <2>3 DEF ReleaseContext, Typed, local
<1>5. CASE AllocateContext
  <2>1. ctx' \in Context /\ Reset
    BY <1>5, ZeroTyped DEF AllocateContext
  <2> QED BY <1>0, <1>2, <1>5, <2>1 DEF AllocateContext, Typed, local, guest
<1>6. CASE Start
  <2>1. voice' \in DOMAIN Voices /\ Stream' = Voices[voice']
    BY <1>6 DEF Start, Stream
  <2>2. /\ Voices[voice'] \in Voice /\ Voices[voice'].buffers # <<>>
        /\ Len(Voices[voice'].starts) = Len(Voices[voice'].buffers)
    <3>1. Voices[voice'] \in Voice /\ Len(Voices[voice'].starts) = Len(Voices[voice'].buffers)
      BY <2>1, VoicesAssumption
    <3>2. Voices[voice'].buffers # <<>>
      BY <3>1 DEF Voice
    <3> QED BY <3>1, <3>2
  <2>3. /\ Voices[voice'].loopCount \in Nat /\ Voices[voice'].skip \in Nat
        /\ Voices[voice'].starts \in Seq(Nat) /\ Voices[voice'].buffers \in Seq(Seq(Packet))
    BY <2>2 DEF Voice
  <2>4. Voices[voice'].starts[1] \in Nat
    BY <2>2, <2>3
  <2>5. Voices[voice'].starts[1] * PacketBits + HeaderBits \in Nat
    BY <2>4, Constants
  <2>6. ctx' \in Context
    <3>1. [Zero.valid EXCEPT ![0] = TRUE] \in [Buffer -> BOOLEAN]
      BY DEF Zero, Buffer
    <3> QED BY <1>6, <2>3, <2>5, <3>1, ZeroTyped DEF Start, Context
  <2> QED BY <1>0, <1>6, <2>1, <2>6 DEF Start, Typed, local, private, assembly, output
<1>7. CASE Submit
  <2>1. PICK offset \in {ctx.offset} \cup
             (IF AnyValid(ctx) THEN {} ELSE {Stream.starts[submitted + 1] * PacketBits + HeaderBits}) :
          ctx' = [ctx EXCEPT !.valid[Slot] = TRUE, !.ptr[Slot] = submitted + 1, !.offset = offset]
    BY <1>7 DEF Submit
  <2>2. submitted \in Nat /\ submitted + 1 \in Nat \ {0} /\ Slot \in Buffer /\ ctx \in Context
    BY <1>0 DEF Typed, Slot, Buffer
  <2>3. submitted + 1 \in DOMAIN Stream.starts
    <3>1. voice \in DOMAIN Voices
      BY <1>0 DEF Typed
    <3>2. /\ Stream.starts \in Seq(Nat) /\ Stream.buffers \in Seq(Seq(Packet))
          /\ Len(Stream.starts) = Len(Stream.buffers)
      BY <3>1, VoiceOf
    <3>3. submitted < Len(Stream.buffers)
      BY <1>7 DEF Submit, CanSubmit
    <3> QED BY <2>2, <3>2, <3>3
  <2>4. Stream.starts[submitted + 1] \in Nat
    <3>1. Stream.starts \in Seq(Nat)
      BY <1>0, VoiceOf DEF Typed
    <3> QED BY <2>3, <3>1
  <2>5. offset \in Nat
    <3>1. ctx.offset \in Nat
      BY <2>2 DEF Context
    <3>2. Stream.starts[submitted + 1] * PacketBits + HeaderBits \in Nat
      BY <2>4, Constants
    <3> QED BY <2>1, <3>1, <3>2
  <2>6. ctx' \in Context
    BY <2>1, <2>2, <2>5, WithSubmitted
  <2> QED BY <1>0, <1>7, <2>2, <2>6 DEF Submit, Typed, local, private, assembly, output
<1>8. CASE Revalidate
  <2>1. ctx' \in Context
    <3>1. ctx \in Context /\ ctx.read \in Cursor
      BY <1>0 DEF Typed, Context
    <3> QED BY <1>8, <3>1, WithGuest DEF Revalidate
  <2> QED BY <1>0, <1>8, <2>1 DEF Revalidate, Typed, local, private, assembly, output, guest
<1>9. CASE ReadBlock
  <2>1. ctx \in Context /\ ctx.read \in Cursor /\ ring[ctx.read] \in Bit
    BY <1>0 DEF Typed, Context
  <2>2. (ctx.read + 1) % RingBlocks \in Cursor
    BY <2>1, Constants, Quotient DEF Cursor
  <2>3. ctx' \in Context
    BY <1>9, <2>1, <2>2, WithGuest DEF ReadBlock
  <2>4. heard' \in Seq(Bit) /\ Len(heard') <= MaxHeard
    <3>1. heard \in Seq(Bit) /\ Len(heard) < MaxHeard /\ heard' = Append(heard, ring[ctx.read])
      BY <1>0, <1>9 DEF ReadBlock, Typed
    <3> QED BY <2>1, <3>1, Constants
  <2>5. unread' \in 0 .. RingBlocks
    <3>1. unread \in 0 .. RingBlocks /\ unread > 0 /\ unread' = unread - 1
      BY <1>0, <1>9 DEF ReadBlock, Typed
    <3> QED BY <3>1, Constants
  <2> QED BY <1>0, <1>9, <2>3, <2>4, <2>5 DEF ReadBlock, Typed, local, private, assembly, output
<1> QED BY <1>1, <1>3, <1>4, <1>5, <1>6, <1>7, <1>8, <1>9 DEF Guest

\* The guest sets a context up that it owns; clear and release put it back.
LEMMA StoppedPreserved ==
  ASSUME XmaInv, XmaNext
  PROVE  Stopped'
<1> USE DEF XmaInv, Stopped, MutexFree, WorkerAt, AnyValid, Typed, guest, local, OwnershipInv
<1>1. CASE Take
  BY <1>1 DEF Take
<1>2. CASE Begin
  BY <1>2 DEF Begin
<1>3. CASE Worker /\ ~Take /\ ~Begin
  <2>1. ~MutexFree /\ UNCHANGED <<started, allocated>>
    BY <1>3 DEF Worker, Process, CheckLoop, RetireBuffer, SkipPackets, PassPacket, CopyBits,
        ParseLength, NeedsMoreBits, FrameDone, Consume, Finish, StoreWord0, StoreWord1,
        StoreWord2, StoreWord4, Inside
  <2> QED BY <2>1
<1>4. CASE LockContext \/ KickContext
  BY <1>4 DEF LockContext, KickContext
<1>5. CASE ClearContext
  BY <1>5 DEF ClearContext, Context
<1>6. CASE ReleaseContext
  BY <1>6 DEF ReleaseContext, Zero
<1>7. CASE AllocateContext
  BY <1>7 DEF AllocateContext, Zero
<1>8. CASE Start \/ Submit \/ Revalidate \/ ReadBlock
  BY <1>8 DEF Start, Submit, CanSubmit, Revalidate, CanRevalidate, ReadBlock
<1> QED BY <1>1, <1>2, <1>3, <1>4, <1>5, <1>6, <1>7, <1>8 DEF XmaNext, Guest

\* Buffers enter the context through Submit and Start, and the copy from there;
\* CopyBits leaves the cursor behind the bits of the packet it read.
LEMMA BuffersPreserved ==
  ASSUME XmaInv, XmaNext, Typed'
  PROVE  Buffers'
<1> USE DEF WorkerAt
<1>0. Typed /\ Buffers
  BY DEF XmaInv
<1>1. CASE Take
  BY <1>0, <1>1 DEF Take, Buffers, MutexFree, Loaded, Stream, guest, local
<1>2. CASE Begin
  BY <1>0, <1>2 DEF Begin, Buffers, MutexFree, Loaded, Stream, guest
<1>3. CASE Process
  BY <1>0, <1>3 DEF Process, Inside, Buffers, MutexFree, Loaded, Stream, guest
<1>4. CASE CheckLoop
  <2>1. /\ worker = "loop" /\ worker' \in {"consume", "fetch"} /\ UNCHANGED <<ctx, voice>>
        /\ UNCHANGED <<data.valid, data.ptr, data.current>>
        /\ worker' = "fetch" => data.valid[data.current]
    BY <1>0, <1>4 DEF CheckLoop, Inside, guest, Typed, Context
  <2> QED BY <1>0, <2>1 DEF Buffers, MutexFree, Loaded, Stream
<1>5. CASE RetireBuffer
  <2>1. /\ worker = "fetch" /\ worker' = "loop" /\ UNCHANGED <<ctx, voice>>
        /\ data'.ptr = data.ptr /\ \A b \in Buffer : data'.valid[b] => data.valid[b]
    BY <1>0, <1>5 DEF RetireBuffer, Inside, guest, Typed, Context
  <2> QED BY <1>0, <2>1 DEF Buffers, MutexFree, Loaded, Stream
<1>6. CASE SkipPackets \/ PassPacket
  <2>1. /\ worker = "fetch" /\ worker' = "loop" /\ UNCHANGED <<ctx, voice>>
        /\ UNCHANGED <<data.valid, data.ptr>>
    BY <1>0, <1>6 DEF SkipPackets, PassPacket, MoveOn, Inside, guest, Typed, Context
  <2> QED BY <1>0, <2>1 DEF Buffers, MutexFree, Loaded, Stream
<1>7. CASE ParseLength \/ NeedsMoreBits \/ FrameDone
  <2>1. /\ worker = "check" /\ worker' \in {"loop", "consume"} /\ UNCHANGED <<ctx, voice>>
        /\ UNCHANGED <<data.valid, data.ptr>>
    BY <1>0, <1>7 DEF ParseLength, NeedsMoreBits, FrameDone, MoveOnFromRead, Inside, guest, Typed, Context
  <2> QED BY <1>0, <2>1 DEF Buffers, MutexFree, Loaded, Stream
<1>8. CASE Consume \/ Finish
  <2>1. /\ ~MutexFree /\ worker' \in {"finish", "process", "store0"} /\ UNCHANGED <<ctx, voice>>
        /\ UNCHANGED <<data.valid, data.ptr>>
    BY <1>0, <1>8 DEF Consume, Finish, guest, Typed, Context, MutexFree
  <2> QED BY <1>0, <2>1 DEF Buffers, MutexFree, Loaded, Stream
<1>9. CASE StoreWord0
  <2>1. /\ worker = "store0" /\ worker' = "store1" /\ UNCHANGED <<data, voice>>
        /\ ctx'.valid = data.valid /\ ctx'.ptr = ctx.ptr
    BY <1>0, <1>9 DEF StoreWord0, local, guest, Typed, Context
  <2> QED BY <1>0, <2>1 DEF Buffers, MutexFree, Loaded, Stream
<1>10. CASE StoreWord1 \/ StoreWord2 \/ StoreWord4
  <2>1. /\ ~MutexFree /\ worker' \in {"store2", "store4", "idle"} /\ UNCHANGED <<data, voice>>
        /\ ctx'.valid = ctx.valid /\ ctx'.ptr = ctx.ptr
    BY <1>0, <1>10 DEF StoreWord1, StoreWord2, StoreWord4, local, guest, Typed, Context, MutexFree
  <2> QED BY <1>0, <2>1 DEF Buffers, MutexFree, Loaded, Stream
<1>11. CASE CopyBits
  <2>1. /\ worker = "fetch" /\ worker' = "check" /\ UNCHANGED <<ctx, voice>>
        /\ UNCHANGED <<data.valid, data.ptr, data.current>>
    BY <1>0, <1>11 DEF CopyBits, Inside, guest, Typed, Context
  <2>2. data'.offset > 0 /\ ReadIndex' < PacketCount'
    <3>1. \E r \in 1 .. PacketBits : data'.offset = PacketIndex * PacketBits + r
      <4>1. PICK n \in Nat : /\ n <= PacketBits - BitOffset
                             /\ data' = [data EXCEPT !.offset = PacketIndex * PacketBits + BitOffset + n]
        BY <1>0, <1>11, Copied
      <4>3. BitOffset \in HeaderBits .. PacketBits - 1 /\ PacketIndex \in Nat
        BY <1>0, <1>11, Copied
      <4>4. data'.offset = PacketIndex * PacketBits + BitOffset + n
        BY <1>0, <4>1 DEF Typed, Context
      <4>2. PacketIndex * PacketBits \in Int /\ BitOffset + n \in 1 .. PacketBits
        BY <4>1, <4>3, Constants
      <4> QED BY <4>2, <4>3, <4>4
    <3>2. PICK r \in 1 .. PacketBits : data'.offset = PacketIndex * PacketBits + r
      BY <3>1
    <3>3. PacketIndex \in Nat /\ PacketIndex < PacketCount
      BY <1>0, <1>11, Constants, Quotient DEF CopyBits, PacketIndex, Typed, Context
    <3>4. PacketCount' = PacketCount
      BY <2>1 DEF PacketCount, Packets, Stream
    <3>5. PacketIndex * PacketBits + (r - 1) \in Nat /\ (PacketIndex * PacketBits + (r - 1)) \div PacketBits = PacketIndex
      BY <3>3, Constants, QuotientOf
    <3>6. data'.offset - 1 = PacketIndex * PacketBits + (r - 1)
      BY <3>2, <3>3, <3>5, Constants
    <3>7. data'.offset > 0
      BY <3>2, <3>3, Constants
    <3>8. ReadIndex' = (data'.offset - 1) \div PacketBits
      BY DEF ReadIndex
    <3>9. ReadIndex' = PacketIndex
      BY <3>5, <3>6, <3>8, Zenon
    <3> QED BY <3>3, <3>4, <3>7, <3>9
  <2> QED BY <1>0, <2>1, <2>2 DEF Buffers, MutexFree, Loaded, Stream
<1>12. CASE LockContext \/ KickContext
  BY <1>0, <1>12 DEF LockContext, KickContext, Buffers, MutexFree, Loaded, Stream, local
<1>13. CASE ClearContext \/ ReleaseContext \/ AllocateContext
  <2>1. /\ MutexFree /\ UNCHANGED <<worker, data, voice>> /\ \A b \in Buffer : ~ctx'.valid[b]
    <3>1. CASE ClearContext
      BY <1>0, <3>1 DEF ClearContext, local, guest, Typed, Context
    <3>2. CASE ReleaseContext
      BY <3>2 DEF ReleaseContext, local, Zero
    <3>3. CASE AllocateContext
      BY <3>3 DEF AllocateContext, local, guest, Zero
    <3> QED BY <1>13, <3>1, <3>2, <3>3
  <2> QED BY <1>0, <2>1 DEF Buffers, MutexFree, Loaded, Stream
<1>14. CASE Start
  <2>1. /\ MutexFree /\ UNCHANGED worker /\ voice' \in DOMAIN Voices /\ ctx'.ptr = [b \in Buffer |-> 1]
    BY <1>14 DEF Start, Zero, XmaInv, OwnershipInv
  <2>2. 1 \in DOMAIN Stream'.buffers
    <3>1. Voices[voice'] \in Voice
      BY <2>1, VoicesAssumption
    <3>2. Voices[voice'].buffers \in Seq(Seq(Packet)) /\ Voices[voice'].buffers # <<>>
      BY <3>1 DEF Voice
    <3> QED BY <3>2 DEF Stream
  <2> QED BY <1>0, <2>1, <2>2 DEF Buffers, MutexFree, Loaded
<1>15. CASE Submit
  <2>1. /\ MutexFree /\ UNCHANGED <<worker, voice>> /\ submitted \in Nat /\ submitted < Len(Stream.buffers)
    BY <1>0, <1>15 DEF Submit, CanSubmit, Typed, XmaInv, OwnershipInv
  <2>2. PICK offset : ctx' = [ctx EXCEPT !.valid[Slot] = TRUE, !.ptr[Slot] = submitted + 1, !.offset = offset]
    BY <1>15 DEF Submit
  <2>3. submitted + 1 \in DOMAIN Stream.buffers
    <3>1. Stream.buffers \in Seq(Seq(Packet))
      BY <1>0, VoiceOf DEF Typed
    <3> QED BY <2>1, <3>1
  <2>4. ASSUME NEW b \in Buffer, ctx'.valid[b] PROVE ctx'.ptr[b] \in DOMAIN Stream.buffers
    BY <1>0, <2>2, <2>3, <2>4 DEF Buffers, Loaded, Typed, Context
  <2> QED BY <1>0, <2>1, <2>4 DEF Buffers, MutexFree, Loaded, Stream
<1>16. CASE Revalidate \/ ReadBlock
  <2>1. /\ UNCHANGED <<worker, data, voice>> /\ ctx'.valid = ctx.valid /\ ctx'.ptr = ctx.ptr
    BY <1>0, <1>16 DEF Revalidate, ReadBlock, local, guest, Typed, Context
  <2> QED BY <1>0, <2>1 DEF Buffers, MutexFree, Loaded, Stream, PacketCount, Packets, ReadIndex
<1> QED BY <1>1, <1>2, <1>3, <1>4, <1>5, <1>6, <1>7, <1>8, <1>9, <1>10, <1>11, <1>12, <1>13,
           <1>14, <1>15, <1>16 DEF XmaNext, Worker, Guest

\* Consume turns free blocks into written ones, StoreWord0 these into unread ones,
\* ReadBlock unread ones into free ones that the copy does not know of.
LEMMA RingPreserved ==
  ASSUME XmaInv, XmaNext, Typed'
  PROVE  RingAccount'
<1> USE DEF WorkerAt, MutexFree, Filling
<1>0. Typed /\ RingAccount /\ Stopped /\ OwnershipInv
  BY DEF XmaInv
<1>1. /\ RingBlocks \in Nat \ {0}
      /\ ctx.read \in Cursor /\ ctx.write \in Cursor /\ data.read \in Cursor /\ ringWrite \in Cursor
      /\ unread \in 0 .. RingBlocks /\ free \in Nat /\ written \in Nat
      /\ ctx.outputValid \in BOOLEAN /\ data.outputValid \in BOOLEAN
  BY <1>0, Constants DEF Typed, Context
<1>2. CASE Take
  BY <1>0, <1>2 DEF Take, RingAccount, local
<1>3. CASE Begin
  <2>1. worker = "taken" /\ UNCHANGED <<ctx, unread>>
    BY <1>3 DEF Begin
  <2>2. CASE worker' = "idle"
    BY <1>0, <2>1, <2>2 DEF RingAccount
  <2>3. CASE worker' = "process"
    <3>1. /\ data' = ctx /\ ctx.outputValid
          /\ free' = WriteCount(ctx) /\ written' = 0 /\ ringWrite' = ctx.write
      BY <1>3, <2>3 DEF Begin
    <3>2. Ahead(ctx.read, unread, ctx.write) /\ unread < RingBlocks
      BY <1>0, <2>1, <3>1 DEF RingAccount
    <3>3. ctx.read # ctx.write =>
            free' = IF ctx.read < ctx.write THEN ctx.read - ctx.write + RingBlocks ELSE ctx.read - ctx.write
      <4>1. /\ ctx.read - ctx.write \in Int
            /\ -RingBlocks < ctx.read - ctx.write /\ ctx.read - ctx.write < RingBlocks
        BY <1>1 DEF Cursor
      <4>2. -RingBlocks < ctx.read - ctx.write /\ ctx.read - ctx.write < 2 * RingBlocks
        BY <1>1, <4>1
      <4>3. (ctx.read - ctx.write) % RingBlocks =
               IF ctx.read - ctx.write < 0 THEN ctx.read - ctx.write + RingBlocks
               ELSE IF ctx.read - ctx.write < RingBlocks THEN ctx.read - ctx.write
               ELSE ctx.read - ctx.write - RingBlocks
        BY <1>1, <4>1, <4>2, Wrap
      <4> DEFINE m == (ctx.read - ctx.write) % RingBlocks
      <4>4. ctx.read # ctx.write => free' = m
        BY <3>1 DEF WriteCount
      <4> HIDE DEF m
      <4>5. m = IF ctx.read < ctx.write THEN ctx.read - ctx.write + RingBlocks ELSE ctx.read - ctx.write
        BY <1>1, <4>1, <4>3 DEF m, Cursor
      <4> QED BY <4>4, <4>5
    <3>4. ctx.read = ctx.write => free' = RingBlocks
      BY <3>1 DEF WriteCount
    <3>5. unread + free' <= RingBlocks /\ Ahead(ctx.write, free', ctx.read)
      BY <1>1, <3>2, <3>3, <3>4 DEF Ahead, Cursor
    <3>6. /\ unread' + written' + free' <= RingBlocks
          /\ Ahead(ctx'.read, unread' + written', ringWrite') /\ Ahead(ringWrite', free', data'.read)
      BY <1>1, <2>1, <3>1, <3>2, <3>5
    <3> QED BY <2>1, <2>3, <3>1, <3>6 DEF RingAccount
  <2>4. worker' \in {"idle", "process"}
    BY <1>3 DEF Begin
  <2> QED BY <2>2, <2>3, <2>4
<1>4. CASE Process \/ CheckLoop \/ RetireBuffer \/ SkipPackets \/ PassPacket
  <2>1. /\ worker \in {"process", "loop", "fetch"} /\ worker' \in {"consume", "loop", "fetch"}
        /\ UNCHANGED <<ctx, unread, free, written, ringWrite>> /\ data'.read = data.read
    BY <1>0, <1>4 DEF Process, CheckLoop, RetireBuffer, SkipPackets, PassPacket, MoveOn, Inside, Typed, Context
  <2> QED BY <1>0, <2>1 DEF RingAccount
<1>5. CASE CopyBits \/ ParseLength \/ NeedsMoreBits \/ FrameDone
  <2>1. /\ worker \in {"fetch", "check"} /\ worker' \in {"check", "consume", "loop"}
        /\ UNCHANGED <<ctx, unread, free, written, ringWrite>> /\ data'.read = data.read
    BY <1>0, <1>5 DEF CopyBits, ParseLength, NeedsMoreBits, FrameDone, MoveOnFromRead, Inside, Typed, Context
  <2> QED BY <1>0, <2>1 DEF RingAccount
<1>6. CASE Consume
  <2> DEFINE n == Min({remaining, Max({1, Stream.decode}), free \div Stream.channels})
             blocks == n * Stream.channels
  <2>1. blocks \in Nat /\ blocks <= free
    BY <1>0, Copies
  <2>2. /\ ringWrite' = (ringWrite + blocks) % RingBlocks
        /\ free' = free - blocks /\ written' = written + blocks
        /\ worker = "consume" /\ worker' \in {"finish", "process"}
        /\ UNCHANGED <<ctx, data, unread>>
    BY <1>6 DEF Consume
  <2> HIDE DEF n, blocks
  <2>3. /\ unread + written + free <= RingBlocks
        /\ unread + written + free = RingBlocks => ctx.read = data.read
        /\ Ahead(ctx.read, unread + written, ringWrite) /\ Ahead(ringWrite, free, data.read)
    BY <1>0, <2>2 DEF RingAccount
  <2>4. ringWrite' = IF ringWrite + blocks < RingBlocks THEN ringWrite + blocks
                     ELSE (ringWrite + blocks) - RingBlocks
    <3>1. /\ ringWrite + blocks \in Int /\ -RingBlocks < ringWrite + blocks
          /\ ringWrite + blocks < 2 * RingBlocks /\ ringWrite + blocks >= 0
      BY <1>1, <2>1, <2>3 DEF Cursor
    <3>2. (ringWrite + blocks) % RingBlocks =
             IF ringWrite + blocks < 0 THEN ringWrite + blocks + RingBlocks
             ELSE IF ringWrite + blocks < RingBlocks THEN ringWrite + blocks
             ELSE (ringWrite + blocks) - RingBlocks
      <4> DEFINE a == ringWrite + blocks
      <4>1. a \in Int /\ -RingBlocks < a /\ a < 2 * RingBlocks
        BY <3>1
      <4> HIDE DEF a
      <4>2. a % RingBlocks = IF a < 0 THEN a + RingBlocks ELSE IF a < RingBlocks THEN a ELSE a - RingBlocks
        BY <1>1, <4>1, Wrap
      <4> QED BY <4>2 DEF a
    <3> QED BY <2>2, <3>1, <3>2
  <2>5. unread + written' + free' = unread + written + free
    BY <1>1, <2>1, <2>2
  <2>6. Ahead(ctx.read, unread + written', ringWrite') /\ Ahead(ringWrite', free', data.read)
    BY <1>1, <2>1, <2>2, <2>3, <2>4 DEF Ahead, Cursor
  <2> QED BY <2>2, <2>3, <2>5, <2>6 DEF RingAccount
<1>7. CASE Finish
  <2>1. /\ worker = "finish" /\ worker' = "store0"
        /\ UNCHANGED <<ctx, unread, free, written, ringWrite>>
        /\ data'.write = ringWrite /\ (data'.outputValid => data.read # ringWrite)
    BY <1>0, <1>7 DEF Finish, Typed, Context
  <2>2. /\ unread + written + free <= RingBlocks
        /\ unread + written + free = RingBlocks => ctx.read = data.read
        /\ Ahead(ctx.read, unread + written, ringWrite)
    BY <1>0, <2>1 DEF RingAccount
  <2>3. unread + written <= RingBlocks /\ (data'.outputValid => unread + written < RingBlocks)
    <3>1. unread + written \in Nat /\ unread + written <= RingBlocks
      BY <1>1, <2>2
    <3>2. ASSUME unread + written = RingBlocks PROVE data.read = ringWrite
      <4>1. unread + written + free = RingBlocks
        BY <1>1, <2>2, <3>2
      <4>2. ringWrite = ctx.read + RingBlocks \/ ringWrite = ctx.read + RingBlocks - RingBlocks
        BY <2>2, <3>2 DEF Ahead
      <4>3. ringWrite = ctx.read
        BY <1>1, <4>2 DEF Cursor
      <4> QED BY <2>2, <4>1, <4>3
    <3>3. unread + written = RingBlocks \/ unread + written < RingBlocks
      BY <1>1, <3>1
    <3> QED BY <2>1, <3>1, <3>2, <3>3
  <2> QED BY <2>1, <2>2, <2>3 DEF RingAccount
<1>8. CASE StoreWord0
  <2>1. /\ worker = "store0" /\ worker' = "store1" /\ UNCHANGED data
        /\ unread' = unread + written /\ ctx'.write = data.write /\ ctx'.read = ctx.read
    BY <1>0, <1>8 DEF StoreWord0, local, Typed, Context
  <2> QED BY <1>0, <2>1 DEF RingAccount
<1>9. CASE StoreWord1 \/ StoreWord2 \/ StoreWord4
  <2>1. /\ worker \in {"store1", "store2", "store4"} /\ UNCHANGED <<data, unread>>
        /\ worker' = CASE worker = "store1" -> "store2" [] worker = "store2" -> "store4" [] OTHER -> "idle"
        /\ ctx'.write = ctx.write /\ ctx'.read = ctx.read
        /\ ctx'.outputValid = IF worker = "store1" THEN data.outputValid ELSE ctx.outputValid
    BY <1>0, <1>9 DEF StoreWord1, StoreWord2, StoreWord4, local, Typed, Context
  <2> QED BY <1>0, <2>1 DEF RingAccount
<1>10. CASE LockContext \/ KickContext
  BY <1>0, <1>10 DEF LockContext, KickContext, RingAccount, local
<1>11. CASE ClearContext \/ ReleaseContext \/ AllocateContext
  <2>1. /\ worker' \in {"idle", "taken"} /\ unread' = 0
        /\ ctx'.read = 0 /\ ctx'.write = 0 /\ ~ctx'.outputValid
    <3>1. CASE ClearContext
      BY <1>0, <3>1 DEF ClearContext, Typed, Context
    <3>2. CASE ReleaseContext
      BY <3>2 DEF ReleaseContext, Zero
    <3>3. CASE AllocateContext
      BY <1>0, <3>3 DEF AllocateContext, Zero, Stopped
    <3> QED BY <1>11, <3>1, <3>2, <3>3
  <2>2. Ahead(0, 0, 0)
    BY DEF Ahead
  <2> QED BY <2>1, <2>2 DEF RingAccount
<1>12. CASE Start
  <2>1. /\ worker' \in {"idle", "taken"} /\ unread' = 0 /\ ctx'.read = 0 /\ ctx'.write = 0
    BY <1>0, <1>12 DEF Start, Zero, Stopped
  <2>2. Ahead(0, 0, 0) /\ 0 < RingBlocks
    BY <1>1 DEF Ahead
  <2> QED BY <2>1, <2>2 DEF RingAccount
<1>13. CASE Submit \/ Revalidate
  <2>1. /\ MutexFree /\ UNCHANGED <<worker, unread>>
        /\ ctx'.read = ctx.read /\ ctx'.write = ctx.write
        /\ ctx'.outputValid => ctx.outputValid \/ unread < RingBlocks
    BY <1>0, <1>13 DEF Submit, Revalidate, CanRevalidate, OwnershipInv, Typed, Context
  <2> QED BY <1>0, <2>1 DEF RingAccount
<1>14. CASE ReadBlock
  <2>1. /\ UNCHANGED <<worker, data, free, written, ringWrite>> /\ unread' = unread - 1 /\ unread > 0
        /\ ctx'.read = (ctx.read + 1) % RingBlocks /\ ctx'.write = ctx.write
        /\ ctx'.outputValid = ctx.outputValid
    BY <1>0, <1>14 DEF ReadBlock, local, Typed, Context
  <2>2. ctx'.read = IF ctx.read + 1 < RingBlocks THEN ctx.read + 1 ELSE 0
    BY <1>1, <2>1, Wrap DEF Cursor
  <2>3. ASSUME NEW n \in Nat, NEW b \in Cursor, Ahead(ctx.read, unread + n, b), unread + n <= RingBlocks
        PROVE  Ahead(ctx'.read, unread' + n, b)
    <3>1. b \in Int /\ 0 <= b /\ b < RingBlocks /\ ctx.read \in Int /\ 0 <= ctx.read /\ ctx.read < RingBlocks
      BY <1>1 DEF Cursor
    <3>2. b = ctx.read + (unread + n) \/ b = ctx.read + (unread + n) - RingBlocks
      BY <2>3 DEF Ahead
    <3>3. b = ctx'.read + (unread' + n) \/ b = ctx'.read + (unread' + n) - RingBlocks
      <4>1. unread' + n = unread + n - 1 /\ unread + n \in Int
        BY <1>1, <2>1
      <4>2. CASE ctx.read + 1 < RingBlocks
        BY <1>1, <2>2, <3>1, <3>2, <4>1, <4>2
      <4>3. CASE ~(ctx.read + 1 < RingBlocks)
        <5>1. ctx'.read = 0 /\ ctx.read = RingBlocks - 1
          BY <1>1, <2>2, <3>1, <4>3
        <5> QED BY <1>1, <2>1, <3>1, <3>2, <4>1, <5>1
      <4> QED BY <4>2, <4>3
    <3> QED BY <3>3 DEF Ahead
  <2>4. Ahead(ctx.read, unread, ctx.write) => Ahead(ctx'.read, unread', ctx'.write)
    <3>1. unread + 0 = unread /\ unread' + 0 = unread' /\ unread <= RingBlocks
      BY <1>1, <2>1
    <3> QED BY <1>1, <2>1, <2>3, <3>1
  <2>5. CASE worker \in {"idle", "taken", "store1", "store2", "store4"}
    BY <1>0, <1>1, <2>1, <2>4, <2>5 DEF RingAccount
  <2>6. CASE worker = "store0"
    <3>1. unread + written <= RingBlocks /\ Ahead(ctx.read, unread + written, ringWrite)
          /\ data.write = ringWrite /\ (data.outputValid => unread + written < RingBlocks)
      BY <1>0, <2>6 DEF RingAccount
    <3>2. Ahead(ctx'.read, unread' + written, ringWrite)
      BY <1>1, <2>3, <3>1
    <3>3. unread' + written <= RingBlocks /\ unread' + written < RingBlocks
      BY <1>1, <2>1, <3>1
    <3> QED BY <2>1, <2>6, <3>1, <3>2, <3>3 DEF RingAccount
  <2>7. CASE worker \in Filling
    <3>1. /\ unread + written + free <= RingBlocks
          /\ Ahead(ctx.read, unread + written, ringWrite) /\ Ahead(ringWrite, free, data.read)
      BY <1>0, <2>7 DEF RingAccount
    <3>2. Ahead(ctx'.read, unread' + written, ringWrite)
      BY <1>1, <2>3, <3>1
    <3>3. unread' + written + free < RingBlocks
      BY <1>1, <2>1, <3>1
    <3> QED BY <1>1, <2>1, <2>7, <3>1, <3>2, <3>3 DEF RingAccount
  <2> QED BY <1>0, <2>5, <2>6, <2>7 DEF Typed
<1> QED BY <1>2, <1>3, <1>4, <1>5, <1>6, <1>7, <1>8, <1>9, <1>10, <1>11, <1>12, <1>13, <1>14
        DEF XmaNext, Worker, Guest
\* The worker comes out of the scan only for a context that is still kicked, and
\* no later step of its work touches the guest's lock.
LEMMA DecoderPreserves ==
  ASSUME OwnershipInv, Worker
  PROVE  OwnershipInv'
<1> USE DEF OwnershipInv, MutexFree, WorkerAt, guest, local, Inside
<1>1. CASE Take
  BY <1>1 DEF Take
<1>2. CASE Begin
  BY <1>2 DEF Begin
<1>3. CASE Process \/ CheckLoop \/ RetireBuffer \/ SkipPackets \/ PassPacket \/ CopyBits
  <2>1. worker \in {"process", "loop", "fetch"} /\ UNCHANGED locked
    BY <1>3 DEF Process, CheckLoop, RetireBuffer, SkipPackets, PassPacket,
                CopyBits
  <2> QED BY <2>1
<1>4. CASE ParseLength \/ NeedsMoreBits \/ FrameDone
  <2>1. worker = "check" /\ UNCHANGED locked
    BY <1>4 DEF ParseLength, NeedsMoreBits, FrameDone
  <2> QED BY <2>1
<1>5. CASE Consume \/ Finish \/ StoreWord0 \/ StoreWord1 \/ StoreWord2 \/ StoreWord4
  <2>1. worker \in {"consume", "finish", "store0", "store1", "store2", "store4"} /\ UNCHANGED locked
    BY <1>5 DEF Consume, Finish, StoreWord0, StoreWord1, StoreWord2,
                StoreWord4
  <2> QED BY <2>1
<1> QED BY <1>1, <1>2, <1>3, <1>4, <1>5 DEF Worker

\* A lock ends a pending kick, a kick gives the context up, and both wait for
\* the mutex; what needs no mutex touches neither.
LEMMA GuestPreserves ==
  ASSUME OwnershipInv, Guest
  PROVE  OwnershipInv'
<1> USE DEF OwnershipInv, MutexFree, guest, local
<1>1. CASE LockContext \/ KickContext
  BY <1>1 DEF LockContext, KickContext
<1>2. CASE ClearContext \/ ReleaseContext \/ AllocateContext
  BY <1>2 DEF ClearContext, ReleaseContext, AllocateContext
<1>3. CASE Start \/ Submit \/ Revalidate \/ ReadBlock
  BY <1>3 DEF Start, Submit, Revalidate, ReadBlock
<1> QED BY <1>1, <1>2, <1>3 DEF Guest


\* Consume writes into the free blocks of the copy, none of which is published
\* and unread; no other step writes into the ring.
LEMMA KeepsUnread ==
  ASSUME XmaInv, XmaNext
  PROVE  \A i \in 0 .. unread - 1 :
            LET at == (ctx.read + i) % RingBlocks IN ring'[at] = ring[at]
<1>0. Typed /\ RingAccount
  BY DEF XmaInv
<1>1. CASE Consume
  <2> DEFINE n == Min({remaining, Max({1, Stream.decode}), free \div Stream.channels})
             blocks == n * Stream.channels
  <2>1. blocks \in Nat /\ blocks <= free
    BY <1>0, Copies
  <2>2. ring' = [i \in DOMAIN ring |->
                   LET j == (i - ringWrite) % RingBlocks
                   IN  IF j < blocks THEN <<pcm, pcmOffset + j>> ELSE ring[i]]
    BY <1>1 DEF Consume
  <2> HIDE DEF n, blocks
  <2>3. /\ RingBlocks \in Nat \ {0} /\ DOMAIN ring = Cursor
        /\ ctx.read \in Cursor /\ ringWrite \in Cursor /\ unread \in 0 .. RingBlocks
        /\ free \in Nat /\ written \in Nat
    BY <1>0, Constants DEF Typed, Context
  <2>4. unread + written + free <= RingBlocks /\ Ahead(ctx.read, unread + written, ringWrite)
    BY <1>0, <1>1 DEF RingAccount, Consume, Filling
  <2>5. ASSUME NEW i \in 0 .. unread - 1
        PROVE  LET at == (ctx.read + i) % RingBlocks IN ring'[at] = ring[at]
    <3> DEFINE sum == ctx.read + i
               at == sum % RingBlocks
               back == at - ringWrite
               j == back % RingBlocks
    <3>1. sum \in Int /\ -RingBlocks < sum /\ 0 <= sum /\ sum < 2 * RingBlocks
      BY <2>3 DEF Cursor
    <3>2. at = IF sum < 0 THEN sum + RingBlocks ELSE IF sum < RingBlocks THEN sum ELSE sum - RingBlocks
      <4> HIDE DEF sum
      <4> QED BY <2>3, <3>1, Wrap
    <3>3. at = sum \/ at = sum - RingBlocks
      <4> HIDE DEF sum, at
      <4> QED BY <3>1, <3>2
    <3>4. at \in Cursor
      <4>1. sum \in Nat
        BY <3>1
      <4> HIDE DEF sum
      <4> QED BY <2>3, <4>1, Quotient DEF Cursor
    <3> HIDE DEF at
    <3>5. back \in Int /\ -RingBlocks < back /\ back < RingBlocks /\ back < 2 * RingBlocks
      BY <2>3, <3>4 DEF Cursor
    <3>6. j = IF back < 0 THEN back + RingBlocks ELSE IF back < RingBlocks THEN back ELSE back - RingBlocks
      <4> HIDE DEF back
      <4> QED BY <2>3, <3>5, Wrap
    <3>7. j = back \/ j = back + RingBlocks
      <4> HIDE DEF back, j
      <4> QED BY <3>5, <3>6
    <3>8. j \in Nat /\ j < RingBlocks
      <4> HIDE DEF back, j
      <4> QED BY <2>3, <3>5, <3>6
    <3> HIDE DEF j
    <3>9. ~(j < blocks)
      <4>1. ringWrite = ctx.read + (unread + written) \/ ringWrite = ctx.read + (unread + written) - RingBlocks
        BY <2>4 DEF Ahead
      <4>2. i \in Int /\ 0 <= i /\ i < unread
        BY <2>3
      <4> DEFINE gap == i - (unread + written)
      <4>3. \/ j = gap - RingBlocks \/ j = gap \/ j = gap + RingBlocks \/ j = gap + 2 * RingBlocks
        <5>1. back = at - ringWrite /\ sum = ctx.read + i /\ at \in Int
          BY <3>4 DEF Cursor
        <5>2. at = ctx.read + i \/ at = (ctx.read + i) - RingBlocks
          BY <3>3
        <5>3. j = at - ringWrite \/ j = (at - ringWrite) + RingBlocks
          BY <3>7, <5>1
        <5>4. ctx.read \in Int /\ unread + written \in Int /\ ringWrite \in Int /\ RingBlocks \in Int
          BY <2>3 DEF Cursor
        <5> DEFINE uw == unread + written
                   aw == at - ringWrite
        <5> HIDE DEF uw
        <5>5. ringWrite = ctx.read + uw \/ ringWrite = (ctx.read + uw) - RingBlocks
          BY <4>1, <5>4 DEF uw
        <5>6. aw = i - uw \/ aw = (i - uw) - RingBlocks \/ aw = (i - uw) + RingBlocks
          BY <4>2, <5>1, <5>2, <5>4, <5>5 DEF uw
        <5>7. i - uw \in Int /\ aw \in Int
          BY <4>2, <5>1, <5>4 DEF uw
        <5> HIDE DEF aw
        <5>8. j = aw \/ j = aw + RingBlocks
          BY <5>3 DEF aw
        <5> QED BY <5>4, <5>6, <5>7, <5>8 DEF uw
      <4>4. j = i - (unread + written) + RingBlocks
        BY <2>3, <2>4, <3>8, <4>2, <4>3
      <4> QED BY <2>1, <2>3, <2>4, <4>2, <4>4
    <3>10. ring'[at] = ring[at]
      BY <2>2, <2>3, <3>4, <3>9 DEF j, back
    <3> QED BY <3>10 DEF at
  <2> QED BY <2>5
<1>2. CASE ~Consume
  <2>1. UNCHANGED ring
    BY <1>2 DEF XmaNext, Worker, Guest, Take, Begin, Process, CheckLoop, RetireBuffer, SkipPackets,
        PassPacket, CopyBits, ParseLength, NeedsMoreBits, FrameDone, Finish, StoreWord0, StoreWord1,
        StoreWord2, StoreWord4, Inside, LockContext, KickContext, ClearContext, ReleaseContext,
        AllocateContext, Start, Submit, Revalidate, ReadBlock
  <2> QED BY <2>1
<1> QED BY <1>1, <1>2

\* The invariant is inductive.
LEMMA InvStep == XmaInv /\ [XmaNext]_xmaVars => XmaInv'
<1> SUFFICES ASSUME XmaInv, [XmaNext]_xmaVars PROVE XmaInv'
  OBVIOUS
<1>1. CASE XmaNext
  <2>1. Typed'
    BY <1>1, WorkerTypes, GuestTypes DEF XmaNext
  <2>2. Stopped' /\ Buffers' /\ RingAccount'
    BY <1>1, <2>1, StoppedPreserved, BuffersPreserved, RingPreserved
  <2>3. OwnershipInv'
    BY <1>1, DecoderPreserves, GuestPreserves DEF XmaInv, XmaNext
  <2> QED BY <2>1, <2>2, <2>3 DEF XmaInv
<1>2. CASE UNCHANGED xmaVars
  <2> USE <1>2 DEF xmaVars, local, private, assembly, output, guest
  <2>1. Typed'
    BY DEF XmaInv, Typed
  <2>2. OwnershipInv' /\ Stopped'
    BY DEF XmaInv, OwnershipInv, Stopped, MutexFree, AnyValid
  <2>3. Buffers'
    BY DEF XmaInv, Buffers, Loaded, MutexFree, Stream, ReadIndex, PacketCount, Packets
  <2>4. RingAccount'
    BY DEF XmaInv, RingAccount, MutexFree, Filling
  <2> QED BY <2>1, <2>2, <2>3, <2>4 DEF XmaInv
<1> QED BY <1>1, <1>2

\* The invariant holds in every reachable state.
THEOREM XmaInvariance == XmaSpec => []XmaInv
BY InvInit, InvStep, PTL DEF XmaSpec

\* The context, the copy, the assembly and the ring keep their types: above all no
\* packet index and no count of bits or blocks leaves its range.
THEOREM XmaTypeCorrect == XmaSpec => []XmaTypeOK
<1>1. XmaInv => XmaTypeOK
  BY TypeParts DEF XmaInv
<1> QED BY <1>1, XmaInvariance, PTL

\* Between a lock and the next kick the decoder is at no context's work
\* (WorkerMain, Work and WriteCommand over State::mutex).
THEOREM OwnershipTheorem == XmaSpec => []LockKeepsDecoderOut
<1>1. XmaInv => LockKeepsDecoderOut
  BY DEF XmaInv, OwnershipInv, LockKeepsDecoderOut
<1> QED BY <1>1, XmaInvariance, PTL

\* Work never overwrites a block that was published and not read, whatever the
\* voices, the ring, the decode count and the guest's reads during the decoding.
THEOREM UnreadKept == XmaSpec => UnreadBlocksKept
<1> DEFINE Kept == \A i \in 0 .. unread - 1 :
                      LET at == (ctx.read + i) % RingBlocks IN ring'[at] = ring[at]
<1>1. XmaInv /\ [XmaNext]_xmaVars => [Kept]_xmaVars
  BY KeepsUnread
<1> HIDE DEF Kept
<1>2. XmaSpec => [][Kept]_xmaVars
  BY <1>1, XmaInvariance, PTL DEF XmaSpec
<1> QED BY <1>2 DEF UnreadBlocksKept, Kept
==============================================================================
