------------------------------- MODULE GpuProofs -------------------------------
(* Two threads of gpu that wait to be woken: InterruptMain, whatever the CPUs, *)
(* the masks and the packets are, and the collection worker, whatever it is    *)
(* asked for and whatever is revoked.                                          *)
EXTENDS GpuInterrupts, SequenceTheorems, WellFoundedInduction, TLAPS

\* The minimum of a set of naturals exists, by well-foundedness: the loop over
\* the bits of a cpu mask starts at one.
LEMMA MinimumExists ==
  ASSUME NEW S \in SUBSET Nat, S # {}
  PROVE  \E c \in S : \A d \in S : c <= d
<1> DEFINE Less == {ss \in Nat \X Nat : ss[1] < ss[2]}
<1>1. IsWellFoundedOn(Less, Nat)
  BY NatLessThanWellFounded DEF OpToRel
<1> HIDE DEF Less
<1>2. PICK c \in S : \A d \in S : <<d, c>> \notin Less
  BY <1>1, WFMin
<1>3. \A d \in S : ~(d < c)
  BY <1>2 DEF Less
<1> QED BY <1>3

------------------------------------------------------------------------------
(* The inductive invariant *)

InHand == {"call", "spin", "finish"}

\* What is in hand is an interrupt, no longer the initial value.
CurrentIsTaken == isr \in InHand => current[1] \in 1 .. dispatched

\* Handled, in hand and pending are one increasing run of numbers.
Increasing ==
    /\ \A a, b \in 1 .. Len(handled) : a < b => handled[a][1] < handled[b][1]
    /\ \A a, b \in 1 .. Len(pending) : a < b => pending[a][1] < pending[b][1]
    /\ \A a \in 1 .. Len(handled), b \in 1 .. Len(pending) : handled[a][1] < pending[b][1]
    /\ isr \in InHand =>
           /\ \A a \in 1 .. Len(handled) : handled[a][1] < current[1]
           /\ \A b \in 1 .. Len(pending) : current[1] < pending[b][1]

\* Every number given out is handled, in hand, pending or ignored.
Accounted ==
    \A n \in 1 .. dispatched :
        \/ n \in ignored
        \/ \E a \in 1 .. Len(handled) : handled[a][1] = n
        \/ \E b \in 1 .. Len(pending) : pending[b][1] = n
        \/ isr \in InHand /\ current[1] = n

\* A signal that equals the value InterruptMain loaded is about to change when
\* something is pending.
SignalComes ==
    isr \in {"wait", "asleep"} /\ signal = loaded /\ pending # <<>> => worker = "signal"

IInv == TypeOK /\ CurrentIsTaken /\ Increasing /\ Accounted /\ SignalComes /\ NoSleepOnPending

------------------------------------------------------------------------------
(* Steps *)

\* Every action is one of these.
Quiet ==
    \/ SetInterruptCallback \/ BeginPacket \/ EndPacket \/ WaitRegMem
    \/ FindEmpty \/ Sleep \/ WaitReturns \/ Vblank

\* Steps that leave the two queues, the counters and what is in hand alone.
LEMMA QuietSteps ==
  ASSUME Quiet
  PROVE  /\ UNCHANGED <<pending, handled, ignored, current, dispatched>>
         /\ isr' \in InHand <=> isr \in InHand
BY DEF Quiet, SetInterruptCallback, BeginPacket, EndPacket, WaitRegMem, FindEmpty, Sleep,
       WaitReturns, Vblank, isrVars, workerVars, InHand

\* The types, in two parts: of the interrupts, which depend on how many have been
\* queued, and of the rest.
Interrupts(n) == (1 .. n) \X Cpus

QueueTypes(n, p, h, c, ig) ==
    /\ p \in Seq(Interrupts(n)) /\ h \in Seq(Interrupts(n))
    /\ c \in Interrupts(n) \cup {<<0, 0>>} /\ ig \subseteq 1 .. n

Queues == QueueTypes(dispatched, pending, handled, current, ignored)

Control ==
    /\ signal \in Nat
    /\ worker \in {"run", "push", "signal", "notify", "waitRegMem"}
    /\ mask \subseteq Cpus /\ packets \in 0 .. Packets /\ dispatched \in Nat
    /\ isr \in {"check", "wait", "asleep"} \cup InHand
    /\ loaded \in 0 .. signal

Flags == callback \in BOOLEAN /\ blanked \in BOOLEAN

LEMMA TypeParts == TypeOK <=> Queues /\ Control /\ Flags
BY DEF TypeOK, Queues, QueueTypes, Control, Flags, Interrupts, InHand

\* What the order of the numbers needs of the types.
LEMMA QueueFacts ==
  ASSUME Queues, Control
  PROVE  /\ Len(pending) \in Nat /\ Len(handled) \in Nat /\ dispatched \in Nat
         /\ DOMAIN pending = 1 .. Len(pending) /\ DOMAIN handled = 1 .. Len(handled)
         /\ \A a \in 1 .. Len(handled) : handled[a][1] \in 1 .. dispatched
         /\ \A b \in 1 .. Len(pending) : pending[b][1] \in 1 .. dispatched
<1>1. pending \in Seq(Interrupts(dispatched)) /\ handled \in Seq(Interrupts(dispatched))
  BY DEF Queues, QueueTypes
<1>2. /\ \A a \in 1 .. Len(handled) : handled[a] \in Interrupts(dispatched)
      /\ \A b \in 1 .. Len(pending) : pending[b] \in Interrupts(dispatched)
  BY <1>1, ElementOfSeq
<1>3. \A x \in Interrupts(dispatched) : x[1] \in 1 .. dispatched
  BY DEF Interrupts
<1> QED BY <1>1, <1>2, <1>3, LenProperties DEF Control

\* The variables keep their types.
LEMMA TypePreserved ==
  ASSUME Queues, Control, CurrentIsTaken, [Next]_vars
  PROVE  Queues' /\ Control'
<1> USE CpusAssumption, MasksAssumption, PacketsAssumption DEF workerVars, isrVars
<1>1. CASE Push
  <2>1. LowestCpu \in mask
    BY <1>1, MinimumExists DEF Push, LowestCpu, Control
  <2>2. Interrupts(dispatched) \subseteq Interrupts(dispatched + 1)
    BY DEF Interrupts, Control
  <2>3. pending \in Seq(Interrupts(dispatched + 1)) /\ handled \in Seq(Interrupts(dispatched + 1))
    BY <2>2, SeqMonotonic DEF Queues, QueueTypes
  <2>4. <<dispatched + 1, LowestCpu>> \in Interrupts(dispatched + 1)
    BY <2>1 DEF Interrupts, Control
  <2>5. pending' \in Seq(Interrupts(dispatched + 1))
    BY <1>1, <2>3, <2>4, AppendProperties DEF Push
  <2>6. current \in Interrupts(dispatched + 1) \cup {<<0, 0>>} /\ ignored \subseteq 1 .. dispatched + 1
    BY <2>2 DEF Queues, QueueTypes, Control
  <2>7. dispatched' = dispatched + 1 /\ UNCHANGED <<handled, current, ignored>>
    BY <1>1 DEF Push
  <2>8. Queues'
    BY <2>3, <2>5, <2>6, <2>7 DEF Queues, QueueTypes
  <2>9. Control'
    <3>1. /\ worker' = "signal" /\ mask' \subseteq mask /\ dispatched' = dispatched + 1
          /\ signal' = signal /\ packets' = packets /\ isr' = isr /\ loaded' = loaded
      BY <1>1 DEF Push
    <3> QED BY <3>1 DEF Control, InHand
  <2> QED BY <2>8, <2>9
<1>2. CASE Take
  <2>1. pending \in Seq(Interrupts(dispatched)) /\ pending # <<>>
    BY <1>2 DEF Take, Queues, QueueTypes
  <2>2. current' \in Interrupts(dispatched) /\ pending' \in Seq(Interrupts(dispatched))
    BY <1>2, <2>1, HeadTailProperties DEF Take
  <2>3. UNCHANGED <<dispatched, handled, ignored>>
    BY <1>2 DEF Take
  <2>4. Queues'
    BY <2>2, <2>3 DEF Queues, QueueTypes
  <2> QED BY <1>2, <2>4 DEF Take, Control, InHand
<1>3. CASE NoHandler
  <2>1. current[1] \in 1 .. dispatched /\ UNCHANGED <<dispatched, pending, handled, current>>
    BY <1>3 DEF NoHandler, CurrentIsTaken, InHand
  <2>2. Queues'
    BY <1>3, <2>1 DEF NoHandler, Queues, QueueTypes
  <2> QED BY <1>3, <2>2 DEF NoHandler, Control
<1>4. CASE HandlerReturns
  <2>1. current \in Interrupts(dispatched)
    BY <1>4 DEF HandlerReturns, CurrentIsTaken, InHand, Queues, QueueTypes, Control
  <2>2. handled' \in Seq(Interrupts(dispatched))
    BY <1>4, <2>1, AppendProperties DEF HandlerReturns, Queues, QueueTypes
  <2>3. Queues'
    BY <1>4, <2>2 DEF HandlerReturns, Queues, QueueTypes
  <2> QED BY <1>4, <2>3 DEF HandlerReturns, Control
<1>5. CASE Quiet
  <2>1. Queues'
    BY <1>5, QuietSteps DEF Queues
  <2>2. Control'
    <3>1. CASE BeginPacket
      BY <3>1 DEF BeginPacket, Control, InHand
    <3>2. CASE EndPacket \/ WaitRegMem
      BY <3>2 DEF EndPacket, WaitRegMem, Control, InHand
    <3>3. CASE FindEmpty \/ Sleep \/ WaitReturns
      <4>1. /\ isr' \in {"check", "wait", "asleep"} /\ loaded' \in {loaded, signal}
            /\ signal' = signal /\ worker' = worker /\ mask' = mask
            /\ packets' = packets /\ dispatched' = dispatched
        BY <3>3 DEF FindEmpty, Sleep, WaitReturns
      <4> QED BY <4>1 DEF Control, InHand
    <3>4. CASE SetInterruptCallback \/ Vblank
      BY <3>4 DEF SetInterruptCallback, Vblank, Control, InHand
    <3> QED BY <1>5, <3>1, <3>2, <3>3, <3>4 DEF Quiet
  <2> QED BY <2>1, <2>2
<1>6. CASE Signal \/ Notify \/ CallHandler \/ HandlerSpins
  <2>1. Queues'
    BY <1>6 DEF Signal, Notify, CallHandler, HandlerSpins, Queues
  <2>2. Control'
    <3>1. CASE Signal
      BY <3>1 DEF Signal, Control, InHand
    <3>2. CASE Notify
      BY <3>2 DEF Notify, Control, InHand
    <3>3. CASE CallHandler
      BY <3>3 DEF CallHandler, Control, InHand
    <3>4. CASE HandlerSpins
      BY <3>4 DEF HandlerSpins, Control, InHand
    <3> QED BY <1>6, <3>1, <3>2, <3>3, <3>4
  <2> QED BY <2>1, <2>2
<1>7. CASE UNCHANGED vars
  BY <1>7 DEF vars, Queues, Control
<1> QED BY <1>1, <1>2, <1>3, <1>4, <1>5, <1>6, <1>7 DEF Next, Worker, InterruptMain, Quiet

LEMMA FlagsPreserved ==
  ASSUME Flags, [Next]_vars
  PROVE  Flags'
<1> USE DEF Flags, workerVars, isrVars
<1>1. CASE Worker
  BY <1>1 DEF Worker, Push, Signal, Notify, BeginPacket, EndPacket, WaitRegMem
<1>2. CASE InterruptMain
  BY <1>2 DEF InterruptMain, FindEmpty, Sleep, WaitReturns, Take, NoHandler, CallHandler,
              HandlerSpins, HandlerReturns
<1>3. CASE SetInterruptCallback \/ Vblank
  BY <1>3 DEF SetInterruptCallback, Vblank
<1>4. CASE UNCHANGED vars
  BY <1>4 DEF vars
<1> QED BY <1>1, <1>2, <1>3, <1>4 DEF Next

\* A place that is not the last, and those before it, are places of the rest.
LEMMA NotTheLast ==
  ASSUME NEW n \in Nat, NEW y \in 1 .. n + 1, y # n + 1
  PROVE  y \in 1 .. n /\ \A x \in 1 .. n + 1 : x < y => x \in 1 .. n
OBVIOUS

\* An interrupt is queued behind all earlier ones, taken from the front and
\* appended to what has been handled.
LEMMA OrderPreserved ==
  ASSUME Queues, Control, CurrentIsTaken, Increasing, Accounted, [Next]_vars
  PROVE  CurrentIsTaken' /\ Increasing' /\ Accounted'
<1> USE QueueFacts DEF CurrentIsTaken, Increasing, Accounted
<1>1. CASE Push
  <2>1. /\ Len(pending') = Len(pending) + 1
        /\ \A b \in 1 .. Len(pending) : pending'[b] = pending[b]
        /\ pending'[Len(pending) + 1] = <<dispatched + 1, LowestCpu>>
    BY <1>1 DEF Push, Queues, QueueTypes
  <2>2. pending'[Len(pending) + 1][1] = dispatched + 1
    BY <2>1
  <2>3. UNCHANGED <<handled, ignored, current, isr>> /\ dispatched' = dispatched + 1
    BY <1>1 DEF Push, isrVars
  <2>4. CurrentIsTaken'
    BY <2>3
  <2>5. Increasing'
    <3>1. \A b \in 1 .. Len(pending) : pending'[b][1] = pending[b][1]
      BY <2>1
    <3>2. \A x, y \in 1 .. Len(pending') : x < y => pending'[x][1] < pending'[y][1]
      <4>1. SUFFICES ASSUME NEW x \in 1 .. Len(pending) + 1, NEW y \in 1 .. Len(pending) + 1, x < y
                     PROVE  pending'[x][1] < pending'[y][1]
        BY <2>1
      <4>2. CASE y = Len(pending) + 1
        BY <2>2, <3>1, <4>1, <4>2
      <4>3. CASE y # Len(pending) + 1
        <5>1. x \in 1 .. Len(pending) /\ y \in 1 .. Len(pending)
          BY <4>1, <4>3, NotTheLast
        <5>2. pending[x][1] < pending[y][1]
          BY <4>1, <5>1
        <5>3. pending'[x][1] = pending[x][1] /\ pending'[y][1] = pending[y][1]
          BY <3>1, <5>1
        <5> QED BY <5>2, <5>3
      <4> QED BY <4>2, <4>3
    <3>3. \A a \in 1 .. Len(handled), y \in 1 .. Len(pending') : handled[a][1] < pending'[y][1]
      BY <2>1, <2>2, <3>1
    <3>4. isr \in InHand => \A y \in 1 .. Len(pending') : current[1] < pending'[y][1]
      <4>1. SUFFICES ASSUME isr \in InHand, NEW y \in 1 .. Len(pending) + 1
                     PROVE  current[1] < pending'[y][1]
        BY <2>1
      <4>2. CASE y = Len(pending) + 1
        BY <2>2, <4>1, <4>2
      <4>3. CASE y # Len(pending) + 1
        <5>1. y \in 1 .. Len(pending)
          BY <4>3, NotTheLast
        <5> QED BY <3>1, <4>1, <5>1
      <4> QED BY <4>2, <4>3
    <3> QED BY <2>3, <3>2, <3>3, <3>4
  <2>6. Accounted'
    <3>1. SUFFICES ASSUME NEW n \in 1 .. dispatched + 1, n \notin ignored,
                          ~ \E a \in 1 .. Len(handled) : handled[a][1] = n,
                          ~(isr \in InHand /\ current[1] = n)
                   PROVE  \E b \in 1 .. Len(pending) + 1 : pending'[b][1] = n
      BY <2>1, <2>3
    <3>2. CASE n = dispatched + 1
      BY <3>2, <2>2
    <3>3. CASE n # dispatched + 1
      <4>1. PICK b \in 1 .. Len(pending) : pending[b][1] = n
        BY <3>1, <3>3
      <4> QED BY <4>1, <2>1
    <3> QED BY <3>2, <3>3
  <2> QED BY <2>4, <2>5, <2>6
<1>2. CASE Take
  <2>1. Len(pending) \in Nat \ {0}
    BY <1>2 DEF Take, Queues, QueueTypes
  <2>2. /\ Len(pending') = Len(pending) - 1 /\ current' = pending[1]
        /\ \A b \in 1 .. Len(pending) - 1 : pending'[b] = pending[b + 1]
    BY <1>2 DEF Take, Queues, QueueTypes
  <2>3. /\ UNCHANGED <<handled, ignored, dispatched>>
        /\ isr = "check" /\ isr' = "call"
    BY <1>2 DEF Take, workerVars
  <2>4. CurrentIsTaken'
    BY <2>1, <2>2, <2>3
  <2>5. Increasing'
    <3>1. /\ \A b \in 1 .. Len(pending') : /\ b + 1 \in 1 .. Len(pending)
                                           /\ pending'[b][1] = pending[b + 1][1]
          /\ 1 \in 1 .. Len(pending) /\ current'[1] = pending[1][1]
      BY <2>1, <2>2
    <3>2. \A a, b \in 1 .. Len(pending') : a < b => pending'[a][1] < pending'[b][1]
      BY <3>1
    <3>3. \A b \in 1 .. Len(pending') : current'[1] < pending'[b][1]
      BY <3>1
    <3>4. \A a \in 1 .. Len(handled), b \in 1 .. Len(pending') : handled[a][1] < pending'[b][1]
      BY <3>1
    <3>5. \A a \in 1 .. Len(handled) : handled[a][1] < current'[1]
      BY <3>1
    <3> QED BY <2>3, <3>2, <3>3, <3>4, <3>5
  <2>6. ASSUME NEW n \in 1 .. dispatched,
               NEW b \in 1 .. Len(pending), pending[b][1] = n
        PROVE  current'[1] = n \/ \E d \in 1 .. Len(pending') : pending'[d][1] = n
    <3>1. CASE b = 1
      BY <3>1, <2>2, <2>6
    <3>2. CASE b # 1
      <4>1. b - 1 \in 1 .. Len(pending') /\ pending'[b - 1] = pending[b]
        BY <3>2, <2>1, <2>2
      <4> QED BY <4>1, <2>6
    <3> QED BY <3>1, <3>2
  <2>7. Accounted'
    BY <2>3, <2>6 DEF InHand
  <2> QED BY <2>4, <2>5, <2>7
<1>3. CASE NoHandler
  BY <1>3 DEF NoHandler, InHand, workerVars
<1>4. CASE HandlerReturns
  <2>1. /\ Len(handled') = Len(handled) + 1
        /\ \A a \in 1 .. Len(handled) : handled'[a] = handled[a]
        /\ handled'[Len(handled) + 1] = current
    BY <1>4 DEF HandlerReturns, Queues, QueueTypes
  <2>2. /\ UNCHANGED <<pending, ignored, dispatched, current>>
        /\ isr \in InHand /\ isr' \notin InHand
    BY <1>4 DEF HandlerReturns, workerVars, InHand
  <2>3. CurrentIsTaken' /\ current[1] \in 1 .. dispatched
    BY <2>2
  <2>4. Increasing'
    <3>1. /\ \A a \in 1 .. Len(handled) : handled'[a][1] = handled[a][1]
          /\ handled'[Len(handled) + 1][1] = current[1]
      BY <2>1
    <3>2. \A a, b \in 1 .. Len(handled') : a < b => handled'[a][1] < handled'[b][1]
      <4>1. SUFFICES ASSUME NEW a \in 1 .. Len(handled'), NEW b \in 1 .. Len(handled'), a < b
                     PROVE  handled'[a][1] < handled'[b][1]
        OBVIOUS
      <4>2. a \in 1 .. Len(handled)
        BY <2>1, <4>1
      <4>3. CASE b \in 1 .. Len(handled)
        BY <3>1, <4>1, <4>2, <4>3
      <4>4. CASE b = Len(handled) + 1
        BY <2>2, <3>1, <4>2, <4>4
      <4> QED BY <2>1, <4>3, <4>4
    <3>3. \A a \in 1 .. Len(handled'), b \in 1 .. Len(pending) : handled'[a][1] < pending[b][1]
      BY <2>1, <2>2, <3>1
    <3> QED BY <2>2, <3>2, <3>3
  <2>5. Accounted'
    <3>1. ASSUME NEW n \in 1 .. dispatched,
                 (\E a \in 1 .. Len(handled) : handled[a][1] = n) \/ current[1] = n
          PROVE  \E a \in 1 .. Len(handled) + 1 : handled'[a][1] = n
      <4>1. CASE current[1] = n
        BY <4>1, <2>1
      <4>2. CASE \E a \in 1 .. Len(handled) : handled[a][1] = n
        <5>1. PICK a \in 1 .. Len(handled) : handled[a][1] = n
          BY <4>2
        <5> QED BY <5>1, <2>1
      <4> QED BY <3>1, <4>1, <4>2
    <3> QED BY <2>1, <2>2, <3>1
  <2> QED BY <2>3, <2>4, <2>5
<1>5. CASE Signal \/ Notify
  BY <1>5 DEF Signal, Notify, isrVars, InHand
<1>6. CASE CallHandler \/ HandlerSpins
  BY <1>6 DEF CallHandler, HandlerSpins, workerVars, InHand
<1>7. CASE Quiet
  BY <1>7, QuietSteps
<1>8. CASE UNCHANGED vars
  BY <1>8 DEF vars, workerVars, isrVars
<1> QED BY <1>1, <1>2, <1>3, <1>4, <1>5, <1>6, <1>7, <1>8 DEF Next, Worker, InterruptMain, Quiet

\* The signal is loaded in the step that finds the queue empty, and every push
\* is followed by a change of the signal and a notification.
LEMMA SleepPreserved ==
  ASSUME Control, SignalComes, NoSleepOnPending, [Next]_vars
  PROVE  SignalComes' /\ NoSleepOnPending'
<1> USE DEF Control, SignalComes, NoSleepOnPending, workerVars, isrVars
<1>1. CASE Push \/ Signal \/ Notify
  BY <1>1 DEF Push, Signal, Notify
<1>2. CASE BeginPacket \/ EndPacket \/ WaitRegMem
  BY <1>2 DEF BeginPacket, EndPacket, WaitRegMem
<1>3. CASE FindEmpty \/ Sleep \/ WaitReturns
  BY <1>3 DEF FindEmpty, Sleep, WaitReturns
<1>4. CASE Take \/ NoHandler \/ CallHandler \/ HandlerSpins \/ HandlerReturns
  BY <1>4 DEF Take, NoHandler, CallHandler, HandlerSpins, HandlerReturns
<1>5. CASE SetInterruptCallback \/ Vblank
  BY <1>5 DEF SetInterruptCallback, Vblank
<1>6. CASE UNCHANGED vars
  BY <1>6 DEF vars
<1> QED BY <1>1, <1>2, <1>3, <1>4, <1>5, <1>6 DEF Next, Worker, InterruptMain

\* What the command processor's two threads keep between their steps.
THEOREM Invariance == Spec => []IInv
<1>1. Init => IInv
  <2> SUFFICES ASSUME Init PROVE IInv
    OBVIOUS
  <2>1. Queues /\ Control /\ Flags
    <3>1. <<>> \in Seq(Interrupts(0))
      BY EmptySeq
    <3>2. Queues
      BY <3>1 DEF Init, Queues, QueueTypes
    <3>3. Control
      BY PacketsAssumption DEF Init, Control, InHand
    <3>4. Flags
      BY DEF Init, Flags
    <3> QED BY <3>2, <3>3, <3>4
  <2> QED BY <2>1, TypeParts DEF Init, IInv, CurrentIsTaken, Increasing, Accounted, SignalComes,
                      NoSleepOnPending, InHand
<1>2. IInv /\ [Next]_vars => IInv'
  <2>1. SUFFICES ASSUME IInv, [Next]_vars PROVE IInv'
    OBVIOUS
  <2>2. Queues /\ Control /\ Flags
    BY <2>1, TypeParts DEF IInv
  <2>3. Queues' /\ Control' /\ Flags'
    BY <2>1, <2>2, TypePreserved, FlagsPreserved DEF IInv
  <2>4. TypeOK'
    BY <2>3 DEF TypeOK, Queues, QueueTypes, Control, Flags, Interrupts, InHand
  <2>5. CurrentIsTaken' /\ Increasing' /\ Accounted'
    BY <2>1, <2>2, OrderPreserved DEF IInv
  <2>6. SignalComes' /\ NoSleepOnPending'
    BY <2>1, <2>2, SleepPreserved DEF IInv
  <2> QED BY <2>4, <2>5, <2>6 DEF IInv
<1> QED BY <1>1, <1>2, PTL DEF Spec

------------------------------------------------------------------------------

\* The three parts of the queue put end to end are increasing and, with what was
\* ignored, are all the numbers given out.
LEMMA InOrder == IInv => InterruptsInOrder
<1> SUFFICES ASSUME IInv PROVE InterruptsInOrder
  OBVIOUS
<1> DEFINE inHand == IF isr \in InHand THEN <<current>> ELSE <<>>
           first  == handled \o inHand
           queue  == first \o pending
           h      == Len(handled)
           c      == Len(inHand)
           Interrupt == (1 .. dispatched) \X Cpus
<1>1. handled \in Seq(Interrupt) /\ pending \in Seq(Interrupt) /\ inHand \in Seq(Interrupt)
  <2>1. Queues /\ Control
    BY TypeParts DEF IInv
  <2>2. isr \in InHand => current \in Interrupt
    BY <2>1 DEF IInv, Queues, QueueTypes, Control, Interrupts, CurrentIsTaken
  <2>3. inHand \in Seq(Interrupt)
    <3>1. CASE isr \in InHand
      BY <3>1, <2>2
    <3>2. CASE isr \notin InHand
      BY <3>2, EmptySeq
    <3> QED BY <3>1, <3>2
  <2> QED BY <2>1, <2>3 DEF Queues, QueueTypes, Interrupts
<1>2. c = (IF isr \in InHand THEN 1 ELSE 0) /\ (isr \in InHand => inHand[1] = current)
  OBVIOUS
<1>3. /\ first \in Seq(Interrupt) /\ Len(first) = h + c
      /\ \A k \in 1 .. h + c : first[k] = IF k <= h THEN handled[k] ELSE inHand[k - h]
  BY <1>1, ConcatProperties
<1>4. /\ queue \in Seq(Interrupt) /\ Len(queue) = h + c + Len(pending)
      /\ \A k \in 1 .. h + c + Len(pending) :
             queue[k] = IF k <= h + c THEN first[k] ELSE pending[k - (h + c)]
  BY <1>1, <1>3, ConcatProperties
<1>5. DOMAIN queue = 1 .. h + c + Len(pending) /\ h \in Nat /\ Len(pending) \in Nat /\ c \in {0, 1}
  BY <1>1, <1>2, <1>4
<1> HIDE DEF inHand, first, queue
<1>6. \A k \in 1 .. h + c + Len(pending) :
          \/ k \in 1 .. h /\ queue[k] = handled[k]
          \/ isr \in InHand /\ c = 1 /\ k = h + 1 /\ queue[k] = current
          \/ k - (h + c) \in 1 .. Len(pending) /\ queue[k] = pending[k - (h + c)]
  BY <1>2, <1>3, <1>4, <1>5
<1>7. \A a, b \in DOMAIN queue : a < b => queue[a][1] < queue[b][1]
  <2>1. SUFFICES ASSUME NEW a \in DOMAIN queue, NEW b \in DOMAIN queue, a < b
                 PROVE  queue[a][1] < queue[b][1]
    OBVIOUS
  <2>2. Increasing
    BY DEF IInv
  <2>3. CASE a \in 1 .. h
    BY <1>5, <1>6, <2>1, <2>2, <2>3, SMTT(30) DEF Increasing
  <2>4. CASE isr \in InHand /\ c = 1 /\ a = h + 1
    BY <1>5, <1>6, <2>1, <2>2, <2>4 DEF Increasing
  <2>5. CASE a - (h + c) \in 1 .. Len(pending)
    <3>1. b \notin 1 .. h + c /\ b \in 1 .. h + c + Len(pending)
      BY <1>5, <2>1, <2>5
    <3>2. b - (h + c) \in 1 .. Len(pending) /\ queue[b] = pending[b - (h + c)]
      BY <1>4, <1>5, <3>1
    <3>3. a \notin 1 .. h + c /\ a \in 1 .. h + c + Len(pending)
      BY <1>5, <2>1, <2>5
    <3>4. queue[a] = pending[a - (h + c)]
      BY <1>4, <1>5, <3>3
    <3>5. a - (h + c) < b - (h + c)
      BY <1>5, <2>1
    <3> QED BY <2>2, <2>5, <3>2, <3>4, <3>5 DEF Increasing
  <2> QED BY <1>5, <1>6, <2>3, <2>4, <2>5
<1>8. {queue[a][1] : a \in DOMAIN queue} \cup ignored = 1 .. dispatched
  <2>1. \A a \in DOMAIN queue : queue[a][1] \in 1 .. dispatched
    BY <1>4, <1>5
  <2>2. ASSUME NEW n \in 1 .. dispatched, n \notin ignored
        PROVE  \E a \in DOMAIN queue : queue[a][1] = n
    <3>1. CASE \E a \in 1 .. h : handled[a][1] = n
      <4>1. PICK a \in 1 .. h : handled[a][1] = n
        BY <3>1
      <4>2. a \in 1 .. h + c + Len(pending) /\ a <= h /\ a <= h + c /\ a \in 1 .. h + c
        BY <1>5
      <4>3. a \in DOMAIN queue /\ queue[a] = first[a] /\ first[a] = handled[a]
        BY <1>3, <1>4, <1>5, <4>2
      <4> QED BY <4>1, <4>3
    <3>2. CASE \E b \in 1 .. Len(pending) : pending[b][1] = n
      <4>1. PICK b \in 1 .. Len(pending) : pending[b][1] = n
        BY <3>2
      <4>2. b + h + c \in DOMAIN queue /\ queue[b + h + c] = pending[b]
        BY <1>4, <1>5
      <4> QED BY <4>1, <4>2
    <3>3. CASE isr \in InHand /\ current[1] = n
      <4>1. h + 1 \in DOMAIN queue /\ queue[h + 1] = current
        BY <1>2, <1>3, <1>4, <1>5, <3>3
      <4> QED BY <4>1, <3>3
    <3> QED BY <2>2, <3>1, <3>2, <3>3 DEF IInv, Accounted
  <2> QED BY <2>1, <2>2 DEF IInv, TypeOK
<1> QED BY <1>7, <1>8 DEF InterruptsInOrder, queue, first, inHand, InHand

\* The variables of the interrupt queue keep their types.
THEOREM TypeCorrect == Spec => []TypeOK
BY Invariance, PTL DEF IInv

\* Whatever masks the packets carry, and wherever the handler is registered,
\* interrupts reach it in the order they were raised and once each
\* (DispatchInterrupt, InterruptMain).
THEOREM InterruptOrder == Spec => []InterruptsInOrder
BY Invariance, InOrder, PTL

\* InterruptMain does not sleep on an interrupt nobody is about to announce
\* (m_interruptSignal in DispatchInterrupt and InterruptMain).
THEOREM NoLostWakeup == Spec => []NoSleepOnPending
BY Invariance, PTL DEF IInv

------------------------------------------------------------------------------
(* The collection worker, which waits for a semaphore, and what producers ask  *)
(* it for, whatever their number and that of the revocations                   *)

CONSTANTS Producers, Keys, MaxGeneration

VARIABLES consent, generation, requested, signaled, tokens, stopped, summaries, sent, locked,
          at, epochOf, queued, menu, pc, requestedEpoch, epoch, batch, forceUpload,
          round, batchRound

Coll == INSTANCE Collection

\* The one who made signaled true, until the semaphore has its token; the token;
\* and the worker that has taken it: at most one of them is there at a time, and
\* none while signaled is false.
OneWakeUp ==
    /\ tokens \in {0, 1}
    /\ tokens = 1 => /\ signaled /\ menu # "release" /\ pc # "clear"
                     /\ \A p \in Producers : at[p] # "release"
    /\ menu = "release" => /\ signaled /\ pc # "clear"
                           /\ \A p \in Producers : at[p] # "release"
    /\ pc = "clear" => signaled /\ \A p \in Producers : at[p] # "release"
    /\ \A p \in Producers : at[p] = "release" =>
          signaled /\ \A q \in Producers : at[q] = "release" => q = p

CollectionInv == Coll!TypeOK /\ OneWakeUp

\* A fresh collection has no wake-up under way.
LEMMA CollectionStarts == Coll!Init => CollectionInv
<1> SUFFICES ASSUME Coll!Init PROVE CollectionInv
  OBVIOUS
<1>1. Coll!TypeOK
  BY DEF Coll!Init, Coll!TypeOK, Coll!None
<1>2. OneWakeUp
  BY DEF Coll!Init, OneWakeUp
<1> QED BY <1>1, <1>2 DEF CollectionInv

\* A producer's own steps keep the invariant: only the exchange that finds
\* signaled false leads to a release.
LEMMA ProducersPreserve ==
  ASSUME CollectionInv, NEW p \in Producers,
         \/ Coll!LoadGeneration(p) \/ Coll!LoadConsent(p) \/ Coll!LoadRequested(p)
         \/ Coll!CompareExchange(p) \/ Coll!ProducerNotifies(p)
  PROVE  CollectionInv'
<1> USE DEF CollectionInv, Coll!TypeOK, OneWakeUp, Coll!None, Coll!state, Coll!control,
            Coll!queue, Coll!producers, Coll!run, Coll!ProducerGoto
<1>1. CASE Coll!LoadGeneration(p)
  BY <1>1 DEF Coll!LoadGeneration
<1>2. CASE Coll!LoadConsent(p)
  BY <1>2 DEF Coll!LoadConsent
<1>3. CASE Coll!LoadRequested(p)
  BY <1>3 DEF Coll!LoadRequested
<1>4. CASE Coll!CompareExchange(p)
  BY <1>4 DEF Coll!CompareExchange
<1>5. CASE Coll!ProducerNotifies(p)
  <2>1. CASE at[p] = "notify"
    BY <1>5, <2>1 DEF Coll!ProducerNotifies, Coll!Exchange
  <2>2. CASE at[p] = "release"
    BY <1>5, <2>2 DEF Coll!ProducerNotifies, Coll!Release
  <2> QED BY <1>5, <2>1, <2>2 DEF Coll!ProducerNotifies
<1> QED BY <1>1, <1>2, <1>3, <1>4, <1>5

\* So do the renderer's and the menu's.
LEMMA OthersPreserve ==
  ASSUME CollectionInv,
         \/ \E k \in Keys : Coll!Observe(k)
         \/ Coll!SetDevice \/ Coll!Enable \/ Coll!Revoke \/ Coll!Shutdown
  PROVE  CollectionInv'
<1> USE DEF CollectionInv, Coll!TypeOK, OneWakeUp, Coll!None, Coll!state, Coll!control,
            Coll!queue, Coll!producers, Coll!run, Coll!MenuGoto, Coll!Reset
<1>1. CASE \E k \in Keys : Coll!Observe(k)
  BY <1>1 DEF Coll!Observe
<1>2. CASE Coll!SetDevice
  BY <1>2 DEF Coll!SetDevice
<1>3. CASE Coll!Enable
  BY <1>3 DEF Coll!Enable
<1>4. CASE Coll!Revoke
  BY <1>4 DEF Coll!Revoke
<1>5. CASE Coll!Shutdown
  <2>1. CASE menu \in {"idle", "leaving"}
    BY <1>5, <2>1 DEF Coll!Shutdown
  <2>4. CASE menu = "stop"
    BY <1>5, <2>4 DEF Coll!Shutdown
  <2>2. CASE menu = "notify"
    BY <1>5, <2>2 DEF Coll!Shutdown, Coll!Exchange
  <2>3. CASE menu = "release"
    BY <1>5, <2>3 DEF Coll!Shutdown, Coll!Release
  <2> QED BY <1>5, <2>1, <2>2, <2>3, <2>4 DEF Coll!Shutdown
<1> QED BY <1>1, <1>2, <1>3, <1>4, <1>5

\* And the worker's: it clears signaled only after it has taken the token.
LEMMA WorkerPreserves ==
  ASSUME CollectionInv, Coll!Worker
  PROVE  CollectionInv'
<1> USE DEF CollectionInv, Coll!TypeOK, OneWakeUp, Coll!None, Coll!state, Coll!control,
            Coll!queue, Coll!producers, Coll!Goto
<1>1. CASE Coll!Wait
  BY <1>1 DEF Coll!Wait
<1>2. CASE Coll!Clear
  BY <1>2 DEF Coll!Clear
<1>3. CASE Coll!Consume
  BY <1>3 DEF Coll!Consume, Coll!Enabled
<1>4. CASE Coll!Snapshot
  <2>1. /\ UNCHANGED <<Coll!state, Coll!control, round, Coll!producers, menu>>
        /\ pc' # "clear" /\ pc # "clear"
    BY <1>4 DEF Coll!Snapshot, Coll!Again
  <2>2. /\ locked' \in BOOLEAN /\ requestedEpoch' = requestedEpoch
        /\ epoch' \in {epoch, generation} /\ forceUpload' \in BOOLEAN
        /\ batchRound' \in {batchRound, round}
    BY <1>4 DEF Coll!Snapshot, Coll!Locals
  <2> QED BY <2>1, <2>2
<1>5. ASSUME NEW condition, NEW place, place # "clear", pc # "clear",
             Coll!Check(condition, place)
      PROVE  CollectionInv'
  <2>1. /\ UNCHANGED <<Coll!state, Coll!control, Coll!queue, Coll!producers, menu>>
        /\ pc' # "clear" /\ pc # "clear"
    BY <1>5 DEF Coll!Check, Coll!EndRound, Coll!Again
  <2>2. /\ requestedEpoch' \in {requestedEpoch, Coll!None} /\ forceUpload' \in {forceUpload, FALSE}
        /\ UNCHANGED <<epoch, batchRound>>
    BY <1>5 DEF Coll!Check, Coll!EndRound, Coll!Locals
  <2>3. Coll!TypeOK'
    BY <2>1, <2>2, ZenonT(60)
  <2>4. OneWakeUp'
    BY <2>1
  <2> QED BY <2>3, <2>4
<1>6. CASE Coll!Upload
  <2>1. PICK condition, place : Coll!Check(condition, place) /\ place # "clear" /\ pc # "clear"
    BY <1>6, Zenon DEF Coll!Upload
  <2> QED BY <2>1, <1>5
<1>7. CASE Coll!Apply
  BY <1>7, ZenonT(60) DEF Coll!Apply, Coll!EndRound, Coll!Locals, Coll!Again, Coll!Enabled
<1> QED BY <1>1, <1>2, <1>3, <1>4, <1>6, <1>7 DEF Coll!Worker

\* The invariant holds in every reachable state.
THEOREM CollectionInvariance == Coll!Spec => []CollectionInv
<1>1. CollectionInv /\ [Coll!Next]_(Coll!vars) => CollectionInv'
  <2> SUFFICES ASSUME CollectionInv, [Coll!Next]_(Coll!vars) PROVE CollectionInv'
    OBVIOUS
  <2>1. CASE UNCHANGED Coll!vars
    BY <2>1 DEF Coll!vars, Coll!state, Coll!control, Coll!queue, Coll!producers, Coll!run,
                CollectionInv, Coll!TypeOK, OneWakeUp
  <2>2. CASE Coll!Next
    <3>1. ASSUME NEW p \in Producers,
                 \/ Coll!LoadGeneration(p) \/ Coll!LoadConsent(p) \/ Coll!LoadRequested(p)
                 \/ Coll!CompareExchange(p) \/ Coll!ProducerNotifies(p)
          PROVE  CollectionInv'
      BY <3>1, ProducersPreserve
    <3>2. ASSUME \/ \E k \in Keys : Coll!Observe(k)
                 \/ Coll!SetDevice \/ Coll!Enable \/ Coll!Revoke \/ Coll!Shutdown
          PROVE  CollectionInv'
      BY <3>2, OthersPreserve
    <3>3. ASSUME Coll!Worker PROVE CollectionInv'
      BY <3>3, WorkerPreserves
    <3> QED BY <2>2, <3>1, <3>2, <3>3, Zenon DEF Coll!Next
  <2> QED BY <2>1, <2>2, Zenon
<1> QED BY CollectionStarts, <1>1, PTL DEF Coll!Spec

\* The binary semaphore is never released beyond its one token
\* (CollectionWorker::Control's Notify and Wait).
THEOREM SemaphoreTheorem == Coll!Spec => []Coll!SemaphoreBinary
<1>1. CollectionInv => Coll!SemaphoreBinary
  BY DEF CollectionInv, OneWakeUp, Coll!SemaphoreBinary
<1> QED BY CollectionInvariance, <1>1, PTL

\* A request for an upload is replaced only by one of a later epoch, or taken by
\* the worker (UploadRequestGate::Request and Consume).
THEOREM RequestTheorem == Coll!Spec => Coll!NewestRequestKept
<1>1. CollectionInv /\ [Coll!Next]_(Coll!vars) => [Coll!KeepsNewest]_(Coll!vars)
  <2> SUFFICES ASSUME CollectionInv, Coll!Next PROVE Coll!KeepsNewest
    OBVIOUS
  <2>1. ASSUME NEW p \in Producers, Coll!CompareExchange(p) PROVE Coll!KeepsNewest
    BY <2>1 DEF Coll!CompareExchange, CollectionInv, Coll!TypeOK, Coll!None, Coll!KeepsNewest
  <2>2. ASSUME Coll!Consume PROVE Coll!KeepsNewest
    BY <2>2 DEF Coll!Consume, Coll!state, Coll!KeepsNewest
  <2>3. ASSUME requested' = requested PROVE Coll!KeepsNewest
    BY <2>3 DEF Coll!KeepsNewest
  <2> QED
    BY <2>1, <2>2, <2>3 DEF Coll!Next, Coll!Worker, Coll!LoadGeneration, Coll!LoadConsent,
                            Coll!LoadRequested, Coll!ProducerNotifies, Coll!Observe,
                            Coll!SetDevice, Coll!Enable, Coll!Revoke, Coll!Shutdown, Coll!Wait,
                            Coll!Clear, Coll!Snapshot, Coll!Upload, Coll!Check, Coll!Apply,
                            Coll!state
<1> QED BY CollectionInvariance, <1>1, PTL DEF Coll!Spec, Coll!NewestRequestKept

\* A revocation, or the end, has raised the generation and not yet reset the queue.
RevocationHalfDone == menu \in {"reset", "stop", "notify", "release", "gone"}

Answering == {"begin", "begin2", "send", "send2", "sent", "answered", "answered2", "accepted", "mark"}

\* The generation counts the resets, but for one that is under way; there is no
\* consent meanwhile, and what is locked is not reset.
RoundInv ==
    /\ generation = IF RevocationHalfDone THEN round + 1 ELSE round
    /\ menu # "idle" => ~Coll!Enabled
    /\ pc \in {"epoch", "snapshot", "mark"} => locked
    /\ pc = "snapshot" => epoch \in {round, round + 1}
    /\ pc \in Answering => batchRound \in {epoch - 1, epoch}
    /\ pc = "mark" /\ Coll!Enabled => epoch = generation

\* Nobody but the menu and the renderer moves the generation or resets.
LEMMA OthersKeepRound ==
  ASSUME CollectionInv, RoundInv,
         \/ \E p \in Producers :
               \/ Coll!LoadGeneration(p) \/ Coll!LoadConsent(p) \/ Coll!LoadRequested(p)
               \/ Coll!CompareExchange(p) \/ Coll!ProducerNotifies(p)
         \/ \E k \in Keys : Coll!Observe(k)
  PROVE  RoundInv'
<1>1. UNCHANGED <<consent, generation, round, locked, menu, pc, epoch, batchRound>>
  BY DEF Coll!LoadGeneration, Coll!LoadConsent, Coll!LoadRequested, Coll!CompareExchange,
         Coll!ProducerNotifies, Coll!Observe, Coll!state, Coll!queue, Coll!run
<1> QED BY <1>1 DEF RoundInv, RevocationHalfDone, Coll!Enabled

\* A revocation takes the consent first and gives it back last.
LEMMA MenuKeepsRound ==
  ASSUME CollectionInv, RoundInv, Coll!SetDevice \/ Coll!Enable \/ Coll!Revoke \/ Coll!Shutdown
  PROVE  RoundInv'
<1> USE DEF RoundInv, RevocationHalfDone, Coll!Enabled, Coll!state, Coll!queue, Coll!run,
            Coll!MenuGoto, Coll!Reset
<1>0. generation \in Nat /\ round \in Nat /\ UNCHANGED <<pc, epoch, batchRound, locked>>
  BY DEF CollectionInv, Coll!TypeOK, Coll!SetDevice, Coll!Enable, Coll!Revoke, Coll!Shutdown
<1>1. CASE Coll!SetDevice
  BY <1>0, <1>1 DEF Coll!SetDevice
<1>2. CASE Coll!Enable
  BY <1>0, <1>2 DEF Coll!Enable
<1>3. CASE Coll!Revoke
  BY <1>0, <1>3 DEF Coll!Revoke
<1>4. CASE Coll!Shutdown
  BY <1>0, <1>4 DEF Coll!Shutdown, Coll!Exchange
<1> QED BY <1>1, <1>2, <1>3, <1>4

\* The worker looks at generation and round under the mutex, and again before it
\* applies an answer.
LEMMA WorkerKeepsRound ==
  ASSUME CollectionInv, RoundInv, Coll!Worker
  PROVE  RoundInv'
<1> USE DEF RoundInv, RevocationHalfDone, Coll!Enabled, Coll!state, Coll!queue,
            Coll!Goto, Coll!Again, Coll!Locals, Coll!EndRound, Answering
<1>0. generation \in Nat /\ round \in Nat /\ UNCHANGED <<consent, generation, round, menu>>
  BY DEF CollectionInv, Coll!TypeOK, Coll!Worker, Coll!Wait, Coll!Clear, Coll!Consume,
         Coll!Snapshot, Coll!Upload, Coll!Check, Coll!Apply
<1>1. CASE Coll!Wait \/ Coll!Clear \/ Coll!Consume
  BY <1>0, <1>1 DEF Coll!Wait, Coll!Clear, Coll!Consume
<1>2. CASE Coll!Snapshot
  BY <1>0, <1>2 DEF Coll!Snapshot
<1>3. CASE Coll!Upload
  BY <1>0, <1>3 DEF Coll!Upload, Coll!Check
<1>4. CASE Coll!Apply
  BY <1>0, <1>4 DEF Coll!Apply
<1> QED BY <1>1, <1>2, <1>3, <1>4 DEF Coll!Worker

\* For any producers, keys and revocations: the worker's checks keep every answer
\* out but those to a batch of this generation (Run in gpu/taa_collection.cpp).
THEOREM AnswersTheorem == Coll!Spec => Coll!AnswersOfThisGeneration
<1>1. Coll!Init => RoundInv
  BY DEF Coll!Init, RoundInv, RevocationHalfDone, Answering
<1>2. CollectionInv /\ RoundInv /\ [Coll!Next]_(Coll!vars) => RoundInv'
  <2>1. ASSUME RoundInv, UNCHANGED Coll!vars PROVE RoundInv'
    BY <2>1 DEF Coll!vars, Coll!state, Coll!queue, Coll!run, RoundInv, RevocationHalfDone, Coll!Enabled
  <2> QED BY <2>1, OthersKeepRound, MenuKeepsRound, WorkerKeepsRound DEF Coll!Next
<1>3. CollectionInv /\ RoundInv /\ [Coll!Next]_(Coll!vars) => [Coll!AnswerChecked]_(Coll!vars)
  <2> SUFFICES ASSUME CollectionInv, RoundInv, Coll!Next, pc = "mark", sent' # sent
               PROVE  epoch = generation /\ batchRound \in {round - 1, round}
    BY DEF Coll!AnswerChecked
  <2>1. Coll!Enabled
    <3>1. locked
      BY DEF RoundInv
    <3>2. CASE Coll!Worker
      BY <3>2 DEF Coll!Worker, Coll!Wait, Coll!Clear, Coll!Consume, Coll!Snapshot, Coll!Upload,
         Coll!Check, Coll!Apply, Coll!queue
    <3>3. CASE ~Coll!Worker
      BY <3>1, <3>3 DEF Coll!Next, Coll!LoadGeneration, Coll!LoadConsent, Coll!LoadRequested,
         Coll!CompareExchange, Coll!ProducerNotifies, Coll!Observe, Coll!SetDevice, Coll!Enable,
         Coll!Revoke, Coll!Shutdown, Coll!Exchange, Coll!queue
    <3> QED BY <3>2, <3>3
  <2>2. menu = "idle" /\ generation = round
    BY <2>1 DEF RoundInv, RevocationHalfDone
  <2> QED BY <2>1, <2>2 DEF RoundInv, Answering
<1> QED BY <1>1, <1>2, <1>3, CollectionInvariance, PTL DEF Coll!Spec, Coll!AnswersOfThisGeneration
==============================================================================
