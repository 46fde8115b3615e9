--------------------------- MODULE CriticalSection ---------------------------
(* Guest critical sections (kernel/critical_section.h and the Rtl* imports    *)
(* over it).  Two guest memory words carry the lock: OwningThread, changed by *)
(* atomic operations only, and RecursionCount, a plain word read and written  *)
(* by whoever owns the section.  A thread that finds the section taken sleeps *)
(* in std::atomic::wait on the owner it saw, and the thread that frees the    *)
(* section wakes one sleeper.                                                 *)
(*                                                                            *)
(* Each atomic operation and each plain load or store is a step of its own.   *)
(* The guest is any program that leaves a section only while holding it;      *)
(* Calls bounds the Enter and TryEnter calls each thread makes, MaxDepth how  *)
(* deeply it nests them.                                                      *)
EXTENDS Integers

CONSTANTS
    Threads,    \* guest threads (their r13, never 0)
    NoThread,   \* the owner word 0
    MaxDepth,   \* bound: deepest nesting a thread attempts
    Calls       \* bound: Enter and TryEnter calls per thread

ASSUME ThreadsAssumption == NoThread \notin Threads
ASSUME BoundsAssumption  == MaxDepth \in Nat /\ Calls \in Nat

VARIABLES
    owner,      \* XRTL_CRITICAL_SECTION.OwningThread
    recursion,  \* XRTL_CRITICAL_SECTION.RecursionCount
    pc,         \* where each thread is
    expected,   \* previousOwner, the value a thread waits to see change
    reg,        \* the recursion count a thread has loaded and is about to store
    waiters,    \* threads asleep inside atomic::wait
    held,       \* Enters that returned minus Leaves called: what the guest thinks it holds
    calls       \* calls each thread may still make

vars == <<owner, recursion, pc, expected, reg, waiters, held, calls>>

Places == {"idle", "cas", "try", "wait", "incLoad", "incStore",
           "leaveLoad", "leaveStore", "storeOwner", "notify"}

Goto(t, place) == pc' = [pc EXCEPT ![t] = place]

Init ==
    /\ owner = NoThread
    /\ recursion = 0
    /\ pc = [t \in Threads |-> "idle"]
    /\ expected = [t \in Threads |-> NoThread]
    /\ reg = [t \in Threads |-> 0]
    /\ waiters = {}
    /\ held = [t \in Threads |-> 0]
    /\ calls = [t \in Threads |-> Calls]

------------------------------------------------------------------------------
(* The guest's calls *)

CallEnter(t) ==
    /\ pc[t] = "idle" /\ calls[t] > 0 /\ held[t] < MaxDepth
    /\ calls' = [calls EXCEPT ![t] = @ - 1]
    /\ Goto(t, "cas")
    /\ UNCHANGED <<owner, recursion, expected, reg, waiters, held>>

CallTryEnter(t) ==
    /\ pc[t] = "idle" /\ calls[t] > 0 /\ held[t] < MaxDepth
    /\ calls' = [calls EXCEPT ![t] = @ - 1]
    /\ Goto(t, "try")
    /\ UNCHANGED <<owner, recursion, expected, reg, waiters, held>>

CallLeave(t) ==
    /\ pc[t] = "idle" /\ held[t] > 0
    /\ held' = [held EXCEPT ![t] = @ - 1]
    /\ Goto(t, "leaveLoad")
    /\ UNCHANGED <<owner, recursion, expected, reg, waiters, calls>>

------------------------------------------------------------------------------
(* Enter and TryEnter *)

CanTakeAnyway(t) == owner \in Threads \cup {NoThread}  \* fault: a plain store, no comparison

\* The compare-exchange finds the section free, or finds the caller in it.
CanTake(t) == owner \in {NoThread, t}

EnterTakes(t) ==
    /\ pc[t] = "cas" /\ CanTake(t)
    /\ owner' = t
    /\ Goto(t, "incLoad")
    /\ UNCHANGED <<recursion, expected, reg, waiters, held, calls>>

EnterFails(t) ==
    /\ pc[t] = "cas" /\ ~CanTake(t)
    /\ expected' = [expected EXCEPT ![t] = owner]
    /\ Goto(t, "wait")
    /\ UNCHANGED <<owner, recursion, reg, waiters, held, calls>>

TryTakes(t) ==
    /\ pc[t] = "try" /\ CanTake(t)
    /\ owner' = t
    /\ Goto(t, "incLoad")
    /\ UNCHANGED <<recursion, expected, reg, waiters, held, calls>>

TryFails(t) ==
    /\ pc[t] = "try" /\ ~CanTake(t)
    /\ Goto(t, "idle")
    /\ UNCHANGED <<owner, recursion, expected, reg, waiters, held, calls>>

\* Increment: a load and a store of the recursion word; then the call returns.
IncrementLoad(t) ==
    /\ pc[t] = "incLoad"
    /\ reg' = [reg EXCEPT ![t] = recursion]
    /\ Goto(t, "incStore")
    /\ UNCHANGED <<owner, recursion, expected, waiters, held, calls>>

IncrementStore(t) ==
    /\ pc[t] = "incStore"
    /\ recursion' = reg[t] + 1
    /\ held' = [held EXCEPT ![t] = @ + 1]
    /\ Goto(t, "idle")
    /\ UNCHANGED <<owner, expected, reg, waiters, calls>>

\* fault: sleeps without comparing the owner with the value seen before
SleepUnchecked(t) ==
    /\ pc[t] = "wait" /\ t \notin waiters
    /\ waiters' = waiters \cup {t}
    /\ UNCHANGED <<owner, recursion, pc, expected, reg, held, calls>>

\* atomic::wait compares and falls asleep in one step: no notification sent
\* after the comparison can be missed.
Sleep(t) ==
    /\ pc[t] = "wait" /\ t \notin waiters
    /\ owner = expected[t]
    /\ waiters' = waiters \cup {t}
    /\ UNCHANGED <<owner, recursion, pc, expected, reg, held, calls>>

WaitReturns(t) ==
    /\ pc[t] = "wait" /\ t \notin waiters
    /\ owner # expected[t]
    /\ Goto(t, "cas")
    /\ UNCHANGED <<owner, recursion, expected, reg, waiters, held, calls>>

\* The standard lets a wait be woken without a notification; it compares again.
SpuriousWake(t) ==
    /\ t \in waiters
    /\ waiters' = waiters \ {t}
    /\ UNCHANGED <<owner, recursion, pc, expected, reg, held, calls>>

------------------------------------------------------------------------------
(* Leave *)

\* fault: counts the release twice
LeaveLoadTwice(t) ==
    /\ pc[t] = "leaveLoad"
    /\ reg' = [reg EXCEPT ![t] = recursion - 2]
    /\ Goto(t, "leaveStore")
    /\ UNCHANGED <<owner, recursion, expected, waiters, held, calls>>

LeaveLoad(t) ==
    /\ pc[t] = "leaveLoad"
    /\ reg' = [reg EXCEPT ![t] = recursion - 1]
    /\ Goto(t, "leaveStore")
    /\ UNCHANGED <<owner, recursion, expected, waiters, held, calls>>

\* fault: frees the section on every Leave, nested or not
LeaveStoreAlwaysFrees(t) ==
    /\ pc[t] = "leaveStore"
    /\ recursion' = reg[t]
    /\ Goto(t, "storeOwner")
    /\ UNCHANGED <<owner, expected, reg, waiters, held, calls>>

LeaveStore(t) ==
    /\ pc[t] = "leaveStore"
    /\ recursion' = reg[t]
    /\ Goto(t, IF reg[t] # 0 THEN "idle" ELSE "storeOwner")
    /\ UNCHANGED <<owner, expected, reg, waiters, held, calls>>

\* fault: no notification after the store
StoreOwnerSilently(t) ==
    /\ pc[t] = "storeOwner"
    /\ owner' = NoThread
    /\ Goto(t, "idle")
    /\ UNCHANGED <<recursion, expected, reg, waiters, held, calls>>

StoreOwner(t) ==
    /\ pc[t] = "storeOwner"
    /\ owner' = NoThread
    /\ Goto(t, "notify")
    /\ UNCHANGED <<recursion, expected, reg, waiters, held, calls>>

NotifyOne(t) ==
    /\ pc[t] = "notify"
    /\ \/ waiters = {} /\ UNCHANGED waiters
       \/ \E w \in waiters : waiters' = waiters \ {w}
    /\ Goto(t, "idle")
    /\ UNCHANGED <<owner, recursion, expected, reg, held, calls>>

------------------------------------------------------------------------------

\* A step the thread's own execution takes once it is inside a call, or has
\* something to give back.
Step(t) ==
    \/ CallLeave(t)
    \/ EnterTakes(t) \/ EnterFails(t) \/ TryTakes(t) \/ TryFails(t)
    \/ IncrementLoad(t) \/ IncrementStore(t)
    \/ Sleep(t) \/ WaitReturns(t)
    \/ LeaveLoad(t) \/ LeaveStore(t) \/ StoreOwner(t) \/ NotifyOne(t)

\* Every thread has made its calls and given everything back.
Finished ==
    /\ \A t \in Threads : pc[t] = "idle" /\ calls[t] = 0 /\ held[t] = 0
    /\ UNCHANGED vars

Next ==
    \/ \E t \in Threads :
          Step(t) \/ CallEnter(t) \/ CallTryEnter(t) \/ SpuriousWake(t)
    \/ Finished

Spec == Init /\ [][Next]_vars

\* Host threads are scheduled fairly, and the guest gives back what it holds.
\* No fairness is assumed of new calls or of spurious wake-ups.
FairSpec == Spec /\ \A t \in Threads : WF_vars(Step(t))

------------------------------------------------------------------------------
(* Properties *)

\* The words and the bookkeeping have their types; in particular the count
\* never drops below zero, which Leave's subtraction would wrap.
TypeOK ==
    /\ owner \in Threads \cup {NoThread}
    /\ recursion \in Nat
    /\ pc \in [Threads -> Places]
    /\ expected \in [Threads -> Threads \cup {NoThread}]
    /\ reg \in [Threads -> Nat]
    /\ waiters \in SUBSET Threads
    /\ held \in [Threads -> Nat]
    /\ calls \in [Threads -> Nat]

\* Whatever the interleaving of Enter, TryEnter and Leave, a thread that thinks
\* it is inside is the owner, so two threads are never inside together, and if
\* it reads the recursion word outside any call it reads the number of Leaves it
\* owes: the release-all and re-enter idiom of the guest counts on it.
SectionExact ==
    \A t \in Threads :
        held[t] > 0 => owner = t /\ (pc[t] = "idle" => recursion = held[t])

\* A free section with sleepers always has someone on the way who takes it or
\* wakes one of them: a wake-up is never lost between the comparison before the
\* sleep, the store of the owner and the notification of one sleeper only.
NoStrandedSleeper ==
    owner = NoThread /\ waiters # {} =>
        \E t \in Threads :
            \/ pc[t] \in {"notify", "cas"}
            \/ pc[t] = "wait" /\ t \notin waiters

\* Every Enter returns, as long as no thread stays inside for ever: sections are
\* barged into, but a thread that keeps losing is woken again every time.
EveryEnterReturns ==
    \A t \in Threads : pc[t] = "cas" ~> pc[t] = "idle"

\* The two words implement the abstract recursive lock: an acquisition takes
\* effect at the compare-exchange, a release at the store that gives up the
\* last claim, and no other step of any thread changes who holds what.
Claims(t) ==
    IF owner # t THEN 0
    ELSE IF pc[t] \in {"incLoad", "incStore", "storeOwner"} THEN recursion + 1
    ELSE recursion

Lock == INSTANCE RecursiveLock WITH depth <- [t \in Threads |-> Claims(t)]

ImplementsLock == Lock!Spec
==============================================================================
