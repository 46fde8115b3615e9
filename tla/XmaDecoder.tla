------------------------------- MODULE XmaDecoder -------------------------------
(* One XMA context of apu/xma.cpp: the guest submits input buffers, locks and  *)
(* kicks the context and reads PCM from its output ring; the worker assembles  *)
(* frames out of the packets, decodes them and fills the ring.                 *)
(*                                                                             *)
(* The worker copies the guest's context at the start of Work and stores four  *)
(* words of it at the end; commands wait for it on the mutex, the guest's read *)
(* cursor and its reads of the ring do not.  A bit of the input is named by    *)
(* its frame and its place in it, <<frame, k>>, and padding by <<0, 0>>; a     *)
(* block of PCM by its frame and its place in that.  What the decoder library  *)
(* makes of a frame, rates, pointers and diagnostics are left out.             *)
EXTENDS Integers, Sequences, FiniteSets, FiniteSetsExt

CONSTANTS
    PacketBits, HeaderBits, LengthBits,     \* kBitsPerPacket, kBitsPerPacketHeader, the 15 bits of a frame's length
    Subframes,      \* of a frame
    Forever,        \* the loop count that never decreases
    RingBlocks,     \* outputBlockCount
    Voices,         \* the streams the guest may play, in a sequence
    MaxHeard,       \* bound: blocks the guest reads of one
    Resets          \* bound: clears and releases

ASSUME BitsAssumption ==
    /\ {PacketBits, HeaderBits, LengthBits, Subframes, RingBlocks} \subseteq (Nat \ {0})
    /\ HeaderBits < PacketBits
ASSUME XmaBoundsAssumption == {Forever, MaxHeard, Resets} \subseteq Nat

(* A voice: its buffers, sequences of packets [first, skip, bits]; the packet  *)
(* of each buffer its stream starts in; length and more flag of every frame    *)
(* found in them, its own numbered 1 .. frames; the frames the library         *)
(* refuses; channels, subframeDecodeCount, skipCount and the loop.             *)
Bit == Nat \X Nat
Packet == [first : Nat, skip : Nat, bits : [1 .. PacketBits - HeaderBits -> Bit]]
Voice == [buffers : Seq(Seq(Packet)) \ {<<>>}, starts : Seq(Nat), frames : Nat,
          length : Seq(Nat), more : Seq(BOOLEAN), refused : SUBSET Nat,
          channels : Nat \ {0}, decode : Nat, skip : Nat,
          loopStart : Nat, loopEnd : Nat, loopCount : Nat]

ASSUME VoicesAssumption ==
    /\ Voices \in Seq(Voice) \ {<<>>}
    /\ \A v \in DOMAIN Voices : Len(Voices[v].starts) = Len(Voices[v].buffers)

Padding == <<0, 0>>
Buffer == {0, 1}

VARIABLES
    ctx,            \* the context in guest memory
    enabled, allocated,
    ring,           \* the output ring's blocks
    worker,             \* where the worker is; it holds the mutex but in "idle" and "taken"
    data, free, written, ringWrite,     \* Work's locals: the copy, freeBlocks, blocks written, ring.write
    skip, copied, frameBits, crossed,   \* packetsSkip, the compressed bits so far, frameBits, frameCrossedPacket
    pcm, pcmOffset, remaining,          \* the decoded frame, the next block and the subframes left
    published,      \* publishedInputOffset, or none
    voice, submitted, started, locked,  \* the guest's stream, buffers of it, set up, owned
    unread, heard,  \* blocks published and not read, as the guest counts them; those read
    resets

local == <<data, free, written, ringWrite>>
assembly == <<skip, copied, frameBits, crossed>>
output == <<pcm, pcmOffset, remaining>>
private == <<assembly, output, published>>
guest == <<voice, submitted, started, locked, heard, resets>>
xmaVars == <<ctx, enabled, allocated, ring, worker, local, private, guest, unread>>

None == -1
Zero == [valid |-> [b \in Buffer |-> FALSE], ptr |-> [b \in Buffer |-> 1], loopCount |-> 0,
         write |-> 0, read |-> 0, outputValid |-> FALSE, skip |-> 0, offset |-> 0, current |-> 0]

Reset ==
    /\ skip' = 0 /\ copied' = <<>> /\ frameBits' = 0 /\ crossed' = FALSE
    /\ pcm' = 0 /\ pcmOffset' = 0 /\ remaining' = 0
    /\ published' = None

XmaInit ==
    /\ ctx = Zero /\ enabled = FALSE /\ allocated = FALSE
    /\ ring = [i \in 0 .. RingBlocks - 1 |-> Padding]
    /\ worker = "idle" /\ data = Zero /\ free = 0 /\ written = 0 /\ ringWrite = 0
    /\ skip = 0 /\ copied = <<>> /\ frameBits = 0 /\ crossed = FALSE
    /\ pcm = 0 /\ pcmOffset = 0 /\ remaining = 0 /\ published = None
    /\ voice = 1 /\ submitted = 0 /\ started = FALSE /\ locked = TRUE
    /\ unread = 0 /\ heard = <<>> /\ resets = Resets

------------------------------------------------------------------------------
(* Reading the input *)

Stream == Voices[voice]
Packets(b) == Stream.buffers[data.ptr[b]]
PacketCount == Len(Packets(data.current))
PacketIndex == data.offset \div PacketBits
CurrentPacket == Packets(data.current)[PacketIndex + 1]
AnyValid(c) == \E b \in Buffer : c.valid[b]

Whole(f) == [k \in 1 .. Stream.length[f] |-> <<f, k - 1>>]

\* What ReadBits may find in the length field and in a frame's last bit: garbage
\* is anything.
LengthField(bits) ==
    LET own == {f \in DOMAIN Stream.length : bits = SubSeq(Whole(f), 1, LengthBits)}
    IN  IF own # {} THEN {Stream.length[f] : f \in own}
        ELSE IF \A k \in DOMAIN bits : bits[k] = Padding THEN {0}
        ELSE {0} \cup {Stream.length[f] : f \in DOMAIN Stream.length}

MoreFlag(bit) ==
    IF bit # Padding /\ bit[2] = Stream.length[bit[1]] - 1 THEN {Stream.more[bit[1]]} ELSE BOOLEAN

Decodable == {f \in DOMAIN Stream.length \ Stream.refused : copied = Whole(f)}

------------------------------------------------------------------------------
(* The worker *)

WorkerAt(place) == worker' = place

\* The scan, outside the mutex.
Take ==
    /\ worker = "idle" /\ enabled
    /\ WorkerAt("taken")
    /\ UNCHANGED <<ctx, enabled, allocated, ring, local, private, guest, unread>>

WriteCount(c) ==
    IF c.read = c.write THEN RingBlocks ELSE (c.read - c.write) % RingBlocks

\* fault: the scan's look at enabled is taken for good
BeginTrusting ==
    /\ worker = "taken"
    /\ enabled' = FALSE
    /\ data' = ctx
    /\ IF allocated /\ ctx.outputValid
       THEN /\ skip' = IF published \notin {None, ctx.offset} THEN 0 ELSE skip
            /\ free' = WriteCount(ctx) /\ written' = 0 /\ ringWrite' = ctx.write
            /\ WorkerAt(IF WriteCount(ctx) >= Stream.channels THEN "process" ELSE "idle")
       ELSE WorkerAt("idle") /\ UNCHANGED <<skip, free, written, ringWrite>>
    /\ UNCHANGED <<ctx, allocated, ring, copied, frameBits, crossed, output, published, guest, unread>>

\* Under the mutex: the kick is taken, the context copied, a skip that belongs
\* to another cursor dropped.
Begin ==
    /\ worker = "taken"
    /\ enabled' = FALSE
    /\ data' = ctx
    /\ IF enabled /\ allocated /\ ctx.outputValid
       THEN /\ skip' = IF published \notin {None, ctx.offset} THEN 0 ELSE skip
            /\ free' = WriteCount(ctx) /\ written' = 0 /\ ringWrite' = ctx.write
            /\ WorkerAt(IF WriteCount(ctx) >= Stream.channels THEN "process" ELSE "idle")
       ELSE WorkerAt("idle") /\ UNCHANGED <<skip, free, written, ringWrite>>
    /\ UNCHANGED <<ctx, allocated, ring, copied, frameBits, crossed, output, published, guest, unread>>

Inside == UNCHANGED <<ctx, enabled, allocated, ring, free, written, ringWrite, published, guest, unread>>

Process ==
    /\ worker = "process"
    /\ WorkerAt(IF remaining > 0 \/ ~AnyValid(data) THEN "consume" ELSE "loop")
    /\ Inside /\ UNCHANGED <<data, assembly, output>>

RestartsLoop ==
    /\ data.loopCount > 0 /\ Stream.loopStart < Stream.loopEnd
    /\ PacketIndex >= PacketCount \/ data.offset >= Stream.loopEnd

\* The top of ProcessPacket's loop, up to where the packet index is taken.
CheckLoop ==
    /\ worker = "loop"
    /\ IF ~data.valid[data.current] THEN WorkerAt("consume") /\ UNCHANGED <<data, skip>>
       ELSE /\ WorkerAt("fetch")
            /\ IF copied = <<>> /\ RestartsLoop
               THEN /\ data' = [data EXCEPT !.offset = Stream.loopStart,
                                            !.loopCount = IF @ = Forever THEN @ ELSE @ - 1]
                    /\ skip' = 0
               ELSE UNCHANGED <<data, skip>>
    /\ Inside /\ UNCHANGED <<copied, frameBits, crossed, output>>

\* fault: the retired buffer stays the current one
RetireKeepsBuffer ==
    /\ worker = "fetch" /\ PacketIndex >= PacketCount
    /\ skip' = skip + PacketIndex - PacketCount
    /\ data' = [data EXCEPT !.valid[data.current] = FALSE, !.offset = 0]
    /\ WorkerAt("loop")
    /\ Inside /\ UNCHANGED <<copied, frameBits, crossed, output>>

\* SwapInputBuffer, and the cursor set to 0 after it.
RetireBuffer ==
    /\ worker = "fetch" /\ PacketIndex >= PacketCount
    /\ skip' = skip + PacketIndex - PacketCount
    /\ data' = [data EXCEPT !.valid[data.current] = FALSE, !.current = 1 - @, !.offset = 0]
    /\ WorkerAt("loop")
    /\ Inside /\ UNCHANGED <<copied, frameBits, crossed, output>>

SkipPackets ==
    /\ worker = "fetch" /\ PacketIndex < PacketCount /\ skip > 0
    /\ LET n == Min({skip, PacketCount - PacketIndex})
       IN  /\ skip' = skip - n
           /\ data' = [data EXCEPT !.offset = (PacketIndex + n) * PacketBits]
    /\ WorkerAt("loop")
    /\ Inside /\ UNCHANGED <<copied, frameBits, crossed, output>>

\* nextPacket.
MoveOn == data' = [data EXCEPT !.offset = (PacketIndex + 1) * PacketBits] /\ skip' = CurrentPacket.skip

\* Where in the packet reading goes on: behind the header for the rest of a
\* frame, else at the first frame that starts in the packet.
BitOffset ==
    LET o == data.offset % PacketBits
    IN  IF o >= HeaderBits THEN o
        ELSE HeaderBits + (IF copied = <<>> THEN CurrentPacket.first ELSE 0)

PassPacket ==
    /\ worker = "fetch" /\ PacketIndex < PacketCount /\ skip = 0 /\ BitOffset >= PacketBits
    /\ MoveOn
    /\ WorkerAt("loop")
    /\ Inside /\ UNCHANGED <<copied, frameBits, crossed, output>>

CopyBits ==
    /\ worker = "fetch" /\ PacketIndex < PacketCount /\ skip = 0 /\ BitOffset < PacketBits
    /\ LET wanted == IF copied = <<>> THEN LengthBits ELSE frameBits
           n == Min({wanted - Len(copied), PacketBits - BitOffset})
       IN  /\ frameBits' = wanted
           /\ copied' = copied \o [k \in 1 .. n |-> CurrentPacket.bits[BitOffset - HeaderBits + k]]
           /\ data' = [data EXCEPT !.offset = PacketIndex * PacketBits + BitOffset + n]
    /\ crossed' = IF copied = <<>> THEN FALSE ELSE crossed
    /\ WorkerAt("check")
    /\ Inside /\ UNCHANGED <<skip, output>>

------------------------------------------------------------------------------
(* After a copy the cursor may stand at the end of the packet, so the packet   *)
(* just read is the one before it.                                             *)

ReadIndex == (data.offset - 1) \div PacketBits
ReadPacket == Packets(data.current)[ReadIndex + 1]
AtPacketEnd == data.offset = (ReadIndex + 1) * PacketBits
MoveOnFromRead ==
    /\ data' = [data EXCEPT !.offset = (ReadIndex + 1) * PacketBits]
    /\ skip' = ReadPacket.skip

ParseLength ==
    /\ worker = "check" /\ frameBits = LengthBits /\ Len(copied) = LengthBits
    /\ \E n \in LengthField(copied) :
          IF n <= LengthBits
          THEN /\ copied' = <<>> /\ frameBits' = 0
               /\ MoveOnFromRead
               /\ WorkerAt("loop") /\ UNCHANGED crossed
          ELSE /\ frameBits' = n
               /\ crossed' = (crossed \/ AtPacketEnd)
               /\ IF AtPacketEnd THEN MoveOnFromRead ELSE UNCHANGED <<data, skip>>
               /\ WorkerAt("loop") /\ UNCHANGED copied
    /\ Inside /\ UNCHANGED output

NeedsMoreBits ==
    /\ worker = "check" /\ Len(copied) < frameBits
    /\ IF AtPacketEnd THEN MoveOnFromRead /\ crossed' = TRUE ELSE UNCHANGED <<data, skip, crossed>>
    /\ WorkerAt("loop")
    /\ Inside /\ UNCHANGED <<copied, frameBits, output>>

\* A frame is complete: decoded, or refused and lost.
FrameDone ==
    /\ worker = "check" /\ Len(copied) = frameBits /\ frameBits > LengthBits
    /\ \E more \in MoreFlag(copied[frameBits]) :
          LET dropped == IF Decodable = {} THEN 0 ELSE Min({Subframes, data.skip})
              next == (~more /\ ~crossed) \/ AtPacketEnd
          IN  /\ data' = [data EXCEPT !.skip = @ - dropped,
                                      !.offset = IF next THEN (ReadIndex + 1) * PacketBits ELSE @]
              /\ skip' = IF next THEN ReadPacket.skip ELSE skip
              /\ IF Decodable = {} THEN UNCHANGED output
                 ELSE /\ pcm' = CHOOSE f \in Decodable : TRUE
                      /\ pcmOffset' = dropped * Stream.channels
                      /\ remaining' = Subframes - dropped
    /\ copied' = <<>> /\ frameBits' = 0 /\ crossed' = FALSE
    /\ WorkerAt("consume")
    /\ Inside

------------------------------------------------------------------------------
(* Output *)

\* fault: writes on past the guest's read cursor
ConsumeUnlimited ==
    /\ worker = "consume"
    /\ LET n == Min({remaining, Max({1, Stream.decode})})
           blocks == n * Stream.channels
       IN  /\ ring' = [i \in DOMAIN ring |->
                         LET j == (i - ringWrite) % RingBlocks
                         IN  IF j < blocks THEN <<pcm, pcmOffset + j>> ELSE ring[i]]
           /\ ringWrite' = (ringWrite + blocks) % RingBlocks
           /\ pcmOffset' = pcmOffset + blocks /\ remaining' = remaining - n
           /\ free' = free - blocks /\ written' = written + blocks
           /\ WorkerAt(IF (~AnyValid(data) /\ remaining = n) \/ free - blocks < Stream.channels
                   THEN "finish" ELSE "process")
    /\ UNCHANGED <<ctx, enabled, allocated, data, assembly, pcm, published, guest, unread>>

Consume ==
    /\ worker = "consume"
    /\ LET n == Min({remaining, Max({1, Stream.decode}), free \div Stream.channels})
           blocks == n * Stream.channels
       IN  /\ ring' = [i \in DOMAIN ring |->
                         LET j == (i - ringWrite) % RingBlocks
                         IN  IF j < blocks THEN <<pcm, pcmOffset + j>> ELSE ring[i]]
           /\ ringWrite' = (ringWrite + blocks) % RingBlocks
           /\ pcmOffset' = pcmOffset + blocks /\ remaining' = remaining - n
           /\ free' = free - blocks /\ written' = written + blocks
           /\ WorkerAt(IF (~AnyValid(data) /\ remaining = n) \/ free - blocks < Stream.channels
                   THEN "finish" ELSE "process")
    /\ UNCHANGED <<ctx, enabled, allocated, data, assembly, pcm, published, guest, unread>>

\* fault: a full ring is not told from an empty one
FinishStaysValid ==
    /\ worker = "finish"
    /\ data' = [data EXCEPT !.write = ringWrite]
    /\ WorkerAt("store0")
    /\ UNCHANGED <<ctx, enabled, allocated, ring, free, written, ringWrite, private, guest, unread>>

\* A ring whose cursors meet is handed back, be it full or empty.
Finish ==
    /\ worker = "finish"
    /\ data' = [data EXCEPT !.write = ringWrite,
                            !.outputValid = @ /\ data.read # ringWrite]
    /\ WorkerAt("store0")
    /\ UNCHANGED <<ctx, enabled, allocated, ring, free, written, ringWrite, private, guest, unread>>

\* StoreDecoded: the words the decoder updates, one at a time.
StoreWord0 ==
    /\ worker = "store0"
    /\ ctx' = [ctx EXCEPT !.valid = data.valid, !.loopCount = data.loopCount, !.write = data.write]
    /\ unread' = unread + written
    /\ WorkerAt("store1")
    /\ UNCHANGED <<enabled, allocated, ring, local, private, guest>>

StoreWord1 ==
    /\ worker = "store1"
    /\ ctx' = [ctx EXCEPT !.outputValid = data.outputValid, !.skip = data.skip]
    /\ WorkerAt("store2")
    /\ UNCHANGED <<enabled, allocated, ring, local, private, guest, unread>>

StoreWord2 ==
    /\ worker = "store2"
    /\ ctx' = [ctx EXCEPT !.offset = data.offset]
    /\ WorkerAt("store4")
    /\ UNCHANGED <<enabled, allocated, ring, local, private, guest, unread>>

\* fault: the whole copy is stored, the guest's cursor with it
StoreWord4AndCursor ==
    /\ worker = "store4"
    /\ ctx' = [ctx EXCEPT !.current = data.current, !.read = data.read]
    /\ published' = data.offset
    /\ WorkerAt("idle")
    /\ UNCHANGED <<enabled, allocated, ring, local, assembly, output, guest, unread>>

StoreWord4 ==
    /\ worker = "store4"
    /\ ctx' = [ctx EXCEPT !.current = data.current]
    /\ published' = data.offset
    /\ WorkerAt("idle")
    /\ UNCHANGED <<enabled, allocated, ring, local, assembly, output, guest, unread>>

Worker ==
    \/ Take \/ Begin \/ Process \/ CheckLoop \/ RetireBuffer \/ SkipPackets \/ PassPacket
    \/ CopyBits \/ ParseLength \/ NeedsMoreBits \/ FrameDone \/ Consume \/ Finish
    \/ StoreWord0 \/ StoreWord1 \/ StoreWord2 \/ StoreWord4

------------------------------------------------------------------------------
(* The guest: commands, under the mutex, and the accesses that need none *)

MutexFree == worker \in {"idle", "taken"}

Slot == submitted % 2
CanSubmit == started /\ submitted < Len(Stream.buffers) /\ ~ctx.valid[Slot]
CanRevalidate == started /\ ~ctx.outputValid /\ unread < RingBlocks

\* WriteCommand, a lock bit.  The guest locks a context to change it.
LockContext ==
    /\ MutexFree /\ allocated /\ ~locked
    /\ ~started \/ CanSubmit \/ CanRevalidate
    /\ enabled' = FALSE /\ locked' = TRUE
    /\ UNCHANGED <<ctx, allocated, ring, worker, local, private, voice, submitted, started, heard, resets, unread>>

\* WriteCommand, a kick bit; the guest kicks a playing context again and again.
KickContext ==
    /\ MutexFree /\ started
    /\ enabled' = TRUE /\ locked' = FALSE
    /\ UNCHANGED <<ctx, allocated, ring, worker, local, private, voice, submitted, started, heard, resets, unread>>

\* WriteCommand, a clear bit: ClearContext.  A kick before it stays pending.
ClearContext ==
    /\ MutexFree /\ started /\ resets > 0
    /\ ctx' = [ctx EXCEPT !.valid = [b \in Buffer |-> FALSE], !.outputValid = FALSE,
                          !.read = 0, !.write = 0, !.offset = HeaderBits]
    /\ Reset
    /\ started' = FALSE /\ heard' = <<>> /\ unread' = 0 /\ resets' = resets - 1
    /\ UNCHANGED <<enabled, allocated, ring, worker, local, voice, submitted, locked>>

ReleaseContext ==
    /\ MutexFree /\ allocated /\ resets > 0
    /\ allocated' = FALSE /\ enabled' = FALSE /\ ctx' = Zero
    /\ Reset
    /\ started' = FALSE /\ locked' = TRUE /\ heard' = <<>> /\ unread' = 0 /\ resets' = resets - 1
    /\ UNCHANGED <<ring, worker, local, voice, submitted>>

AllocateContext ==
    /\ MutexFree /\ ~allocated
    /\ allocated' = TRUE /\ enabled' = FALSE /\ ctx' = Zero
    /\ Reset
    /\ UNCHANGED <<ring, worker, local, guest, unread>>

\* The guest sets up a context it owns for a voice, with its first buffer.
Start ==
    /\ allocated /\ locked /\ ~started
    /\ voice' \in DOMAIN Voices
    /\ ctx' = [Zero EXCEPT !.valid[0] = TRUE, !.outputValid = TRUE,
                           !.loopCount = Voices[voice'].loopCount, !.skip = Voices[voice'].skip,
                           !.offset = Voices[voice'].starts[1] * PacketBits + HeaderBits]
    /\ submitted' = 1 /\ started' = TRUE
    /\ UNCHANGED <<enabled, allocated, ring, worker, local, private, locked, heard, resets, unread>>

\* The next buffer goes into the free slot; when none was left the guest may
\* also point the cursor at its stream's first packet in the new one.
Submit ==
    /\ locked /\ CanSubmit
    /\ \E offset \in {ctx.offset} \cup
             (IF AnyValid(ctx) THEN {} ELSE {Stream.starts[submitted + 1] * PacketBits + HeaderBits}) :
          ctx' = [ctx EXCEPT !.valid[Slot] = TRUE, !.ptr[Slot] = submitted + 1, !.offset = offset]
    /\ submitted' = submitted + 1
    /\ UNCHANGED <<enabled, allocated, ring, worker, local, private, voice, started, locked, heard, resets, unread>>

\* Hands a ring with room in it back to the decoder.
Revalidate ==
    /\ locked /\ CanRevalidate
    /\ ctx' = [ctx EXCEPT !.outputValid = TRUE]
    /\ UNCHANGED <<enabled, allocated, ring, worker, local, private, guest, unread>>

\* Reads a block and advances the cursor, whatever the decoder is doing.
ReadBlock ==
    /\ started /\ unread > 0 /\ Len(heard) < MaxHeard
    /\ heard' = Append(heard, ring[ctx.read])
    /\ ctx' = [ctx EXCEPT !.read = (@ + 1) % RingBlocks]
    /\ unread' = unread - 1
    /\ UNCHANGED <<enabled, allocated, ring, worker, local, private, voice, submitted, started, locked, resets>>

Guest ==
    \/ LockContext \/ KickContext \/ ClearContext \/ ReleaseContext \/ AllocateContext
    \/ Start \/ Submit \/ Revalidate \/ ReadBlock

XmaNext == Worker \/ Guest

XmaSpec == XmaInit /\ [][XmaNext]_xmaVars

\* The worker thread is scheduled; a guest that plays a voice feeds it, reads it
\* and kicks it.  A mutex that is free again and again is got.
XmaFairness ==
    /\ WF_xmaVars(Worker)
    /\ WF_xmaVars(AllocateContext) /\ WF_xmaVars(Start) /\ WF_xmaVars(ReadBlock)
    /\ SF_xmaVars(LockContext) /\ SF_xmaVars(KickContext) /\ SF_xmaVars(Submit) /\ SF_xmaVars(Revalidate)

XmaFairSpec == XmaSpec /\ XmaFairness

------------------------------------------------------------------------------
(* What the voice should sound like *)

FirstBit(v, f) ==
    CHOOSE o \in 0 .. Len(v.buffers[1]) * PacketBits - 1 :
        LET packet == v.buffers[1][o \div PacketBits + 1]
        IN  o % PacketBits >= HeaderBits /\ packet.bits[(o % PacketBits) - HeaderBits + 1] = <<f, 0>>

\* The frames in the order they are to be played: the loop's again as often as
\* it says, and then the rest.
PlayOrder(v) ==
    LET n == v.frames
        loops == IF v.loopStart >= v.loopEnd THEN 0
                 ELSE IF v.loopCount = Forever THEN MaxHeard ELSE v.loopCount
        begin == IF loops = 0 THEN 1 ELSE CHOOSE f \in 1 .. n : FirstBit(v, f) = v.loopStart
        end == IF loops = 0 THEN n ELSE Max({f \in 1 .. n : FirstBit(v, f) < v.loopEnd})
        body == end - begin + 1
    IN  [i \in 1 .. n + loops * body |->
            IF i <= end THEN i
            ELSE IF i <= end + loops * body THEN begin + ((i - end - 1) % body)
            ELSE i - loops * body]

\* The blocks the guest should read of each voice, as far as it reads.
Sound == [w \in DOMAIN Voices |->
    LET v == Voices[w]
        Playable(f) == f \notin v.refused
        good == SelectSeq(PlayOrder(v), Playable)
        perFrame == Subframes * v.channels
        dropped == v.skip * v.channels
        length == Max({0, Len(good) * perFrame - dropped})
    IN  [i \in 1 .. Min({MaxHeard, length}) |->
            LET at == i + dropped - 1
            IN  <<good[(at \div perFrame) + 1], at % perFrame>>]]

------------------------------------------------------------------------------
(* Properties *)

ContextType ==
    [valid : [Buffer -> BOOLEAN], ptr : [Buffer -> Nat \ {0}], loopCount : Nat,
     write : DOMAIN ring, read : DOMAIN ring, outputValid : BOOLEAN,
     skip : Nat, offset : Nat, current : Buffer]

\* The variables have their types.
XmaTypeOK ==
    /\ ring \in [0 .. RingBlocks - 1 -> Nat \X Nat]
    /\ ctx \in ContextType /\ data \in ContextType
    /\ {enabled, allocated, crossed, started, locked} \subseteq BOOLEAN
    /\ worker \in {"idle", "taken", "process", "loop", "fetch", "check", "consume", "finish",
               "store0", "store1", "store2", "store4"}
    /\ {free, written, skip, frameBits, pcm, pcmOffset, remaining, submitted, resets} \subseteq Nat
    /\ ringWrite \in DOMAIN ring /\ unread \in 0 .. RingBlocks
    /\ copied \in Seq(Nat \X Nat) /\ Len(copied) <= frameBits
    /\ published \in Nat \cup {None} /\ voice \in DOMAIN Voices
    /\ heard \in Seq(Nat \X Nat) /\ Len(heard) <= MaxHeard

\* What the guest reads is the voice from its beginning: every frame of its own
\* stream once, in order, the loop as often as asked, nothing of another stream,
\* nothing twice and nothing of the ring overwritten before it was read.
HeardIsTheVoice ==
    started => heard = SubSeq(Sound[voice], 1, Len(heard))

\* Between a lock and the next kick the decoder has no work under way: what the
\* guest changes in the context is neither read half-done nor overwritten.
LockKeepsDecoderOut == locked => MutexFree

\* No step changes a block that was published and that the guest has not read,
\* though it reads while the decoder writes and the decoder goes by a copy of the
\* read cursor, and a ring whose cursors meet may be full or empty.
UnreadBlocksKept ==
    [][\A i \in 0 .. unread - 1 :
          LET at == (ctx.read + i) % RingBlocks IN ring'[at] = ring[at]]_xmaVars

\* A voice that is not cleared or released again is played to its end.
EverythingHeard ==
    <>[](started /\ heard = Sound[voice])
==============================================================================
