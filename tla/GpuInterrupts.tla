----------------------------- MODULE GpuInterrupts -----------------------------
(* Interrupts of gpu/command_processor.cpp.  PM4_INTERRUPT queues one          *)
(* interrupt for each CPU of its mask; InterruptMain, a thread of its own,     *)
(* takes them off the queue and calls the guest's handler; VsyncMain calls it  *)
(* for every vertical blank.  The handler may spin until a vertical blank, and *)
(* PM4_WAIT_REG_MEM may keep the worker until the handler has written memory.  *)
(*                                                                             *)
(* The queue is guarded by m_interruptMutex, so a push, a pop and "find it     *)
(* empty and load the signal" are one step each; the signal is an atomic       *)
(* counter waited on outside the mutex.  Interrupts are numbered as queued.    *)
EXTENDS Integers, Sequences

CONSTANTS
    Cpus,       \* the CPUs a mask can name (0 .. 5)
    Masks,      \* the cpu masks of the title's PM4_INTERRUPT packets
    Packets     \* bound: PM4_INTERRUPT packets

ASSUME CpusAssumption    == Cpus \subseteq Nat
ASSUME MasksAssumption   == Masks \subseteq SUBSET Cpus
ASSUME PacketsAssumption == Packets \in Nat

VARIABLES
    pending,            \* m_pendingInterrupts: <<number, cpu>>
    signal,             \* m_interruptSignal
    callback,           \* SetInterruptCallback has been called
    worker,             \* where the command processor's worker is
    mask,               \* CPUs the packet has still to interrupt
    packets, dispatched,    \* packets left; interrupts queued so far
    isr, loaded,        \* where InterruptMain is; the signal it loaded
    current,            \* the interrupt it handles
    blanked,            \* a vertical blank has been delivered since the handler began
    handled, ignored    \* interrupts handled, in order; those taken with no handler set

workerVars == <<worker, mask, packets, dispatched>>
isrVars == <<isr, loaded, current, handled, ignored>>
vars == <<pending, signal, callback, workerVars, isrVars, blanked>>

Init ==
    /\ pending = <<>> /\ signal = 0 /\ callback = FALSE
    /\ worker = "run" /\ mask = {} /\ packets = Packets /\ dispatched = 0
    /\ isr = "check" /\ loaded = 0 /\ current = <<0, 0>> /\ blanked = FALSE
    /\ handled = <<>> /\ ignored = {}

SetInterruptCallback ==
    /\ ~callback /\ callback' = TRUE
    /\ UNCHANGED <<pending, signal, workerVars, isrVars, blanked>>

------------------------------------------------------------------------------
(* The worker: PM4_INTERRUPT, DispatchInterrupt and PM4_WAIT_REG_MEM *)

BeginPacket ==
    /\ worker = "run" /\ packets > 0
    /\ \E m \in Masks : mask' = m
    /\ packets' = packets - 1
    /\ worker' = "push"
    /\ UNCHANGED <<pending, signal, callback, dispatched, isrVars, blanked>>

LowestCpu == CHOOSE c \in mask : \A d \in mask : c <= d

\* fault: bit n taken for CPU n + 1
PushNextCpu ==
    /\ worker = "push" /\ mask # {}
    /\ pending' = Append(pending, <<dispatched + 1, LowestCpu + 1>>)
    /\ dispatched' = dispatched + 1 /\ mask' = mask \ {LowestCpu}
    /\ worker' = "signal"
    /\ UNCHANGED <<signal, callback, packets, isrVars, blanked>>

Push ==
    /\ worker = "push" /\ mask # {}
    /\ pending' = Append(pending, <<dispatched + 1, LowestCpu>>)
    /\ dispatched' = dispatched + 1 /\ mask' = mask \ {LowestCpu}
    /\ worker' = "signal"
    /\ UNCHANGED <<signal, callback, packets, isrVars, blanked>>

Signal ==
    /\ worker = "signal"
    /\ signal' = signal + 1
    /\ worker' = "notify"
    /\ UNCHANGED <<pending, callback, mask, packets, dispatched, isrVars, blanked>>

Notify ==
    /\ worker = "notify"
    /\ isr' = IF isr = "asleep" THEN "wait" ELSE isr
    /\ worker' = "push"
    /\ UNCHANGED <<pending, signal, callback, mask, packets, dispatched,
                   loaded, current, handled, ignored, blanked>>

\* The packet is done; a WAIT_REG_MEM for the handler's mark may come next.
EndPacket ==
    /\ worker = "push" /\ mask = {}
    /\ worker' \in {"run"} \cup (IF ignored = {} /\ callback THEN {"waitRegMem"} ELSE {})
    /\ UNCHANGED <<pending, signal, callback, mask, packets, dispatched, isrVars, blanked>>

AllMarked == Len(handled) = dispatched

WaitRegMem ==
    /\ worker = "waitRegMem" /\ AllMarked
    /\ worker' = "run"
    /\ UNCHANGED <<pending, signal, callback, mask, packets, dispatched, isrVars, blanked>>

Worker == BeginPacket \/ Push \/ Signal \/ Notify \/ EndPacket \/ WaitRegMem

------------------------------------------------------------------------------
(* InterruptMain *)

FindEmpty ==
    /\ isr = "check" /\ pending = <<>>
    /\ loaded' = signal
    /\ isr' = "wait"
    /\ UNCHANGED <<pending, signal, callback, workerVars, current, handled, ignored, blanked>>

\* fault: sleeps without comparing the signal with the value loaded
SleepUnchecked ==
    /\ isr = "wait"
    /\ isr' = "asleep"
    /\ UNCHANGED <<pending, signal, callback, workerVars, loaded, current, handled, ignored, blanked>>

Sleep ==
    /\ isr = "wait" /\ signal = loaded
    /\ isr' = "asleep"
    /\ UNCHANGED <<pending, signal, callback, workerVars, loaded, current, handled, ignored, blanked>>

WaitReturns ==
    /\ isr = "wait" /\ signal # loaded
    /\ isr' = "check"
    /\ UNCHANGED <<pending, signal, callback, workerVars, loaded, current, handled, ignored, blanked>>

\* fault: takes the newest
TakeNewest ==
    /\ isr = "check" /\ pending # <<>>
    /\ current' = pending[Len(pending)]
    /\ pending' = SubSeq(pending, 1, Len(pending) - 1)
    /\ isr' = "call"
    /\ UNCHANGED <<signal, callback, workerVars, loaded, handled, ignored, blanked>>

Take ==
    /\ isr = "check" /\ pending # <<>>
    /\ current' = Head(pending)
    /\ pending' = Tail(pending)
    /\ isr' = "call"
    /\ UNCHANGED <<signal, callback, workerVars, loaded, handled, ignored, blanked>>

NoHandler ==
    /\ isr = "call" /\ ~callback
    /\ ignored' = ignored \cup {current[1]}
    /\ isr' = "check"
    /\ UNCHANGED <<pending, signal, callback, workerVars, loaded, current, handled, blanked>>

CallHandler ==
    /\ isr = "call" /\ callback
    /\ isr' \in {"finish", "spin"}
    /\ blanked' = FALSE
    /\ UNCHANGED <<pending, signal, callback, workerVars, loaded, current, handled, ignored>>

\* The handler waits for a vertical blank.
HandlerSpins ==
    /\ isr = "spin" /\ blanked
    /\ isr' = "finish"
    /\ UNCHANGED <<pending, signal, callback, workerVars, loaded, current, handled, ignored, blanked>>

HandlerReturns ==
    /\ isr = "finish"
    /\ handled' = Append(handled, current)
    /\ isr' = "check"
    /\ UNCHANGED <<pending, signal, callback, workerVars, loaded, current, ignored, blanked>>

InterruptMain ==
    \/ FindEmpty \/ Sleep \/ WaitReturns
    \/ Take \/ NoHandler \/ CallHandler \/ HandlerSpins \/ HandlerReturns

------------------------------------------------------------------------------
(* VsyncMain; a blank nobody has waited for since the last one changes nothing. *)

\* fault: the vertical blank is delivered by the thread that runs the handler
VblankBehindHandler ==
    /\ callback /\ ~blanked /\ isr \in {"check", "wait", "asleep"}
    /\ blanked' = TRUE
    /\ UNCHANGED <<pending, signal, callback, workerVars, isrVars>>

Vblank ==
    /\ callback /\ ~blanked
    /\ blanked' = TRUE
    /\ UNCHANGED <<pending, signal, callback, workerVars, isrVars>>

Next == SetInterruptCallback \/ Worker \/ InterruptMain \/ Vblank

Spec == Init /\ [][Next]_vars

\* The three host threads are scheduled, and vertical blanks keep coming.
FairSpec == Spec /\ WF_vars(Worker) /\ WF_vars(InterruptMain) /\ WF_vars(Vblank)

------------------------------------------------------------------------------
(* Properties *)

\* The variables have their types.
TypeOK ==
    LET Interrupt == (1 .. dispatched) \X Cpus
    IN  /\ pending \in Seq(Interrupt) /\ signal \in Nat /\ callback \in BOOLEAN
        /\ worker \in {"run", "push", "signal", "notify", "waitRegMem"}
        /\ mask \subseteq Cpus /\ packets \in 0 .. Packets /\ dispatched \in Nat
        /\ isr \in {"check", "wait", "asleep", "call", "spin", "finish"}
        /\ loaded \in 0 .. signal
        /\ current \in Interrupt \cup {<<0, 0>>}
        /\ handled \in Seq(Interrupt) /\ ignored \subseteq 1 .. dispatched
        /\ blanked \in BOOLEAN

\* Interrupts reach the handler in the order in which the packets and the bits
\* of their masks raised them, each once, and one is passed over only while no
\* handler is registered.
InterruptsInOrder ==
    LET inHand == IF isr \in {"call", "spin", "finish"} THEN <<current>> ELSE <<>>
        queue  == handled \o inHand \o pending
    IN  /\ \A i, j \in DOMAIN queue : i < j => queue[i][1] < queue[j][1]
        /\ {queue[i][1] : i \in DOMAIN queue} \cup ignored = 1 .. dispatched

\* InterruptMain never sleeps on a queue that is not empty, unless the worker is
\* on its way to wake it: the signal is loaded while the queue is known empty.
NoSleepOnPending ==
    isr = "asleep" /\ pending # <<>> => worker \in {"signal", "notify"}

\* A worker that waits for the handler to write memory comes back, although the
\* handler may itself wait for a vertical blank.
WaitRegMemEnds == worker = "waitRegMem" ~> worker = "run"
==============================================================================
