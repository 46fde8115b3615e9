------------------------------- MODULE Dispatcher -------------------------------
(* The dispatcher objects of kernel/imports.cpp (events, semaphores, mutants), *)
(* the guest threads of cpu/guest_thread.cpp, which are waited for in the same *)
(* calls, and the guest's waits on one object, on any and on all of several.   *)
(*                                                                             *)
(* An object is an atomic word: 0 or 1 for an event, the count of a semaphore; *)
(* a mutant has an atomic owner and a plain recursion count.  A test that      *)
(* takes the object is one compare-exchange, so one step.  An infinite wait on *)
(* a single object sleeps in atomic::wait; a finite one, and every wait for    *)
(* any of several, polls: the 200 microsecond sleeps between polls, and the    *)
(* event generation that may cut them short, make no difference here.          *)
(*                                                                             *)
(* A thread's handle has two flags, suspended and finished; an infinite wait   *)
(* for it and NtClose join the host thread.  The guest does not wait for or    *)
(* close itself by handle, joins a thread in one place at a time, and closes a *)
(* handle that nobody uses.                                                    *)
EXTENDS Integers, Sequences, FiniteSets, Functions

CONSTANTS
    Threads, Nobody,                            \* guest threads; the owner word 0
    Spawned,                                    \* the threads the guest creates in play
    AutoEvents, ManualEvents, Semaphores, Mutants,
    Requests,   \* the waits the guest issues: [objs, all, timeout]
    Calls,      \* bound: calls per thread
    MaxCount    \* bound: semaphore count up to which the guest releases

Event == AutoEvents \cup ManualEvents
Object == Event \cup Semaphores \cup Mutants \cup Spawned

ASSUME ThreadsAssumption ==
    /\ IsFiniteSet(Threads) /\ Nobody \notin Threads /\ Spawned \subseteq Threads
ASSUME ObjectsAssumption ==
    /\ AutoEvents \cap ManualEvents = {} /\ Event \cap Semaphores = {}
    /\ Mutants \cap (Event \cup Semaphores) = {}
    /\ Spawned \cap (Event \cup Semaphores \cup Mutants) = {}
ASSUME RequestsAssumption ==
    /\ Requests # {}
    /\ Requests \subseteq [objs : Seq(Object) \ {<<>>}, all : BOOLEAN,
                           timeout : {"zero", "finite", "infinite"}]
ASSUME BoundsAssumption == Calls \in Nat /\ MaxCount \in Nat

VARIABLES
    word,               \* signaled or count
    owner, recursion,   \* of each mutant
    suspended, finished, joined, closed,    \* threads: the flags, not joinable any more, without a handle
    pc,                 \* where each thread is
    request, k,         \* the wait it makes and the object it is at
    target,             \* the object a Set, Pulse, Release, Resume or Close is about
    expected,           \* the owner a waiter for a mutant saw
    asleep,             \* threads blocked in atomic::wait
    got,                \* the objects this wait has taken, in order
    result,             \* what the last wait returned
    calls,              \* calls left
    signals, takes, held    \* times an object was signalled; waits it satisfied; guest's claims on mutants

callVars == <<request, k, target, expected, got, result, calls>>
tally == <<signals, takes, held>>
threadVars == <<suspended, finished, joined, closed>>
objects == <<word, owner, recursion, threadVars>>
vars == <<objects, pc, asleep, callVars, tally>>

Idle == "idle"
Goto(t, place) == pc' = [pc EXCEPT ![t] = place]

\* Before a thread's first call.
AnyRequest == CHOOSE r \in Requests : TRUE
AnyObject == CHOOSE o \in Object : TRUE

Init ==
    /\ word = [o \in Event \cup Semaphores |-> 0]
    /\ owner = [m \in Mutants |-> Nobody] /\ recursion = [m \in Mutants |-> 0]
    /\ suspended = {} /\ finished = {} /\ joined = {} /\ closed = {}
    /\ pc = [t \in Threads |-> IF t \in Spawned THEN "unborn" ELSE Idle]
    /\ request = [t \in Threads |-> AnyRequest]
    /\ k = [t \in Threads |-> 1]
    /\ target = [t \in Threads |-> AnyObject]
    /\ expected = [t \in Threads |-> Nobody]
    /\ asleep = {}
    /\ got = [t \in Threads |-> <<>>] /\ result = [t \in Threads |-> "none"]
    /\ calls = [t \in Threads |-> Calls]
    /\ signals = [o \in Event \cup Semaphores |-> 0]
    /\ takes = [o \in Event \cup Semaphores |-> 0]
    /\ held = [t \in Threads |-> [m \in Mutants |-> 0]]

Call(t) == pc[t] = Idle /\ calls[t] > 0 /\ calls' = [calls EXCEPT ![t] = @ - 1]

------------------------------------------------------------------------------
(* Waits *)

Named(r) == Range(r.objs)
WaitsForAny(r) == ~r.all /\ Len(r.objs) > 1
Joins(r) == r.timeout = "infinite" /\ ~WaitsForAny(r)

\* Threads whose handle is there, and who is inside a call with one.
Handles == {c \in Spawned : pc[c] # "unborn"} \ closed
Using(c) == {u \in Threads : \/ pc[u] \in {"test", "increment", "block", "join"} /\ c \in Named(request[u])
                             \/ pc[u] \in {"notify", "close"} /\ target[u] = c}

BeginWait(t) ==
    /\ Call(t)
    /\ \E r \in Requests :
          /\ \A c \in Named(r) \cap Spawned :
                /\ c \in Handles \ {t}
                /\ \A u \in Using(c) : pc[u] # "close" /\ ~(Joins(r) /\ Joins(request[u]))
          /\ request' = [request EXCEPT ![t] = r]
    /\ k' = [k EXCEPT ![t] = 1]
    /\ got' = [got EXCEPT ![t] = <<>>] /\ result' = [result EXCEPT ![t] = "none"]
    /\ Goto(t, "test")
    /\ UNCHANGED <<objects, target, expected, asleep, tally>>

Obj(t) == request[t].objs[k[t]]
LastObj(t) == k[t] = Len(request[t].objs)

\* Returns to the guest, or goes on to the next object.
Return(t, status) == Goto(t, Idle) /\ result' = [result EXCEPT ![t] = status] /\ UNCHANGED k
NextObject(t) == Goto(t, "test") /\ k' = [k EXCEPT ![t] = @ + 1] /\ UNCHANGED result

\* fault: a wait for all is over with the first object
SatisfiedAtFirst(t) == Return(t, "success")

\* The object was taken.
Satisfied(t) ==
    IF request[t].all /\ ~LastObj(t) THEN NextObject(t) ELSE Return(t, "success")

\* fault: the word is tested but not taken
TakeWordLeavesIt(t) ==
    /\ pc[t] = "test" /\ Obj(t) \in Event \cup Semaphores /\ word[Obj(t)] > 0
    /\ word' = word
    /\ takes' = [takes EXCEPT ![Obj(t)] = @ + 1]
    /\ got' = [got EXCEPT ![t] = Append(@, Obj(t))]
    /\ Satisfied(t)
    /\ UNCHANGED <<owner, recursion, threadVars, asleep, request, target, expected, calls, signals, held>>

TakeWord(t) ==
    /\ pc[t] = "test" /\ Obj(t) \in Event \cup Semaphores /\ word[Obj(t)] > 0
    /\ word' = IF Obj(t) \in ManualEvents THEN word ELSE [word EXCEPT ![Obj(t)] = @ - 1]
    /\ takes' = [takes EXCEPT ![Obj(t)] = @ + 1]
    /\ got' = [got EXCEPT ![t] = Append(@, Obj(t))]
    /\ Satisfied(t)
    /\ UNCHANGED <<owner, recursion, threadVars, asleep, request, target, expected, calls, signals, held>>

\* fault: takes the owner word whoever is in it
TakeOwnerExchanges(t) ==
    /\ pc[t] = "test" /\ Obj(t) \in Mutants
    /\ owner' = [owner EXCEPT ![Obj(t)] = t]
    /\ Goto(t, "increment")
    /\ UNCHANGED <<word, recursion, threadVars, asleep, callVars, tally>>

TakeOwner(t) ==
    /\ pc[t] = "test" /\ Obj(t) \in Mutants /\ owner[Obj(t)] \in {Nobody, t}
    /\ owner' = [owner EXCEPT ![Obj(t)] = t]
    /\ Goto(t, "increment")
    /\ UNCHANGED <<word, recursion, threadVars, asleep, callVars, tally>>

IncrementRecursion(t) ==
    /\ pc[t] = "increment"
    /\ recursion' = [recursion EXCEPT ![Obj(t)] = @ + 1]
    /\ held' = [held EXCEPT ![t][Obj(t)] = @ + 1]
    /\ got' = [got EXCEPT ![t] = Append(@, Obj(t))]
    /\ Satisfied(t)
    /\ UNCHANGED <<word, owner, threadVars, asleep, request, target, expected, calls, signals, takes>>

\* A poll of a thread looks at its flag.
SeeFinished(t) ==
    /\ pc[t] = "test" /\ Obj(t) \in finished /\ ~Joins(request[t])
    /\ got' = [got EXCEPT ![t] = Append(@, Obj(t))]
    /\ Satisfied(t)
    /\ UNCHANGED <<objects, asleep, request, target, expected, calls, tally>>

BeginJoin(t) ==
    /\ pc[t] = "test" /\ Obj(t) \in Spawned /\ Joins(request[t])
    /\ Goto(t, "join")
    /\ UNCHANGED <<objects, asleep, callVars, tally>>

\* Joined already, or joinable and ended.
Join(t) ==
    /\ pc[t] = "join" /\ (Obj(t) \in joined \/ pc[Obj(t)] = "gone")
    /\ joined' = joined \cup {Obj(t)}
    /\ got' = [got EXCEPT ![t] = Append(@, Obj(t))]
    /\ Satisfied(t)
    /\ UNCHANGED <<word, owner, recursion, suspended, finished, closed, asleep,
                   request, target, expected, calls, tally>>

\* The current object cannot be taken now.
Refused(t) ==
    /\ pc[t] = "test"
    /\ CASE Obj(t) \in Mutants -> owner[Obj(t)] \notin {Nobody, t}
         [] Obj(t) \in Spawned -> Obj(t) \notin finished /\ ~Joins(request[t])
         [] OTHER -> word[Obj(t)] = 0

MayTimeOut(t) == request[t].timeout \in {"zero", "finite"}

\* One object, or each object of a wait for all in turn: a wait for all ignores
\* that an object was not had, and reports success at the end.
SingleTimesOut(t) ==
    /\ Refused(t) /\ ~WaitsForAny(request[t]) /\ MayTimeOut(t)
    /\ IF ~request[t].all THEN Return(t, "timeout") ELSE Satisfied(t)
    /\ UNCHANGED <<objects, asleep, request, target, expected, got, calls, tally>>

SingleBlocks(t) ==
    /\ Refused(t) /\ ~WaitsForAny(request[t]) /\ request[t].timeout = "infinite"
    /\ expected' = [expected EXCEPT ![t] = IF Obj(t) \in Mutants THEN owner[Obj(t)] ELSE @]
    /\ Goto(t, "block")
    /\ UNCHANGED <<objects, asleep, request, k, target, got, result, calls, tally>>

\* What atomic::wait compares, in a wait and at the start of a thread.
Unchanged(t) ==
    CASE pc[t] = "start" -> t \in suspended
      [] pc[t] # "start" /\ Obj(t) \in Mutants -> owner[Obj(t)] = expected[t]
      [] OTHER -> word[Obj(t)] = 0

\* fault: sleeps without comparing
FallAsleepUnchecked(t) ==
    /\ pc[t] \in {"block", "start"} /\ t \notin asleep
    /\ asleep' = asleep \cup {t}
    /\ UNCHANGED <<objects, pc, callVars, tally>>

FallAsleep(t) ==
    /\ pc[t] \in {"block", "start"} /\ t \notin asleep /\ Unchanged(t)
    /\ asleep' = asleep \cup {t}
    /\ UNCHANGED <<objects, pc, callVars, tally>>

BlockReturns(t) ==
    /\ pc[t] \in {"block", "start"} /\ t \notin asleep /\ ~Unchanged(t)
    /\ Goto(t, IF pc[t] = "start" THEN Idle ELSE "test")
    /\ UNCHANGED <<objects, asleep, callVars, tally>>

\* A wait for any: the next object; after the last one, again or a timeout.
AnyGoesOn(t) ==
    /\ Refused(t) /\ WaitsForAny(request[t])
    /\ LastObj(t) => request[t].timeout # "zero"
    /\ k' = [k EXCEPT ![t] = IF LastObj(t) THEN 1 ELSE @ + 1]
    /\ UNCHANGED <<objects, pc, asleep, request, target, expected, got, result, calls, tally>>

AnyTimesOut(t) ==
    /\ Refused(t) /\ WaitsForAny(request[t]) /\ LastObj(t) /\ MayTimeOut(t)
    /\ Return(t, "timeout")
    /\ UNCHANGED <<objects, asleep, request, target, expected, got, calls, tally>>

------------------------------------------------------------------------------
(* Signalling *)

\* notify_all on the object's word, or on a thread's suspended flag.
SleepsOn(u) == IF pc[u] = "start" THEN u ELSE Obj(u)
WakeSleepers(t) == asleep' = {u \in asleep : SleepsOn(u) # target[t]}

\* The call is over, and what it was about is forgotten.
Done(t) == Goto(t, Idle) /\ target' = [target EXCEPT ![t] = AnyObject]

SetEvent(t) ==
    /\ Call(t)
    /\ \E e \in Event :
          /\ target' = [target EXCEPT ![t] = e]
          /\ word' = [word EXCEPT ![e] = 1]
          /\ signals' = [signals EXCEPT ![e] = @ + 1]
    /\ pc' \in {[pc EXCEPT ![t] = "notify"], [pc EXCEPT ![t] = "pulseNotify"]}  \* NtSetEvent, NtPulseEvent
    /\ UNCHANGED <<owner, recursion, threadVars, asleep, request, k, expected, got, result, takes, held>>

Notify(t) ==
    /\ pc[t] = "notify"
    /\ WakeSleepers(t)
    /\ Done(t)
    /\ UNCHANGED <<objects, request, k, expected, got, result, calls, tally>>

PulseNotify(t) ==
    /\ pc[t] = "pulseNotify"
    /\ WakeSleepers(t)
    /\ Goto(t, "pulseReset")
    /\ UNCHANGED <<objects, callVars, tally>>

\* fault: takes the signal back, whether or not a waiter has had it
PulseResetSubtracts(t) ==
    /\ pc[t] = "pulseReset"
    /\ word' = [word EXCEPT ![target[t]] = @ - 1]
    /\ Done(t)
    /\ UNCHANGED <<owner, recursion, threadVars, asleep, request, k, expected, got, result, calls, tally>>

PulseReset(t) ==
    /\ pc[t] = "pulseReset"
    /\ word' = [word EXCEPT ![target[t]] = 0]
    /\ Done(t)
    /\ UNCHANGED <<owner, recursion, threadVars, asleep, request, k, expected, got, result, calls, tally>>

ResetEvent(t) ==
    /\ Call(t)
    /\ \E e \in Event : word' = [word EXCEPT ![e] = 0]
    /\ UNCHANGED <<owner, recursion, threadVars, pc, asleep, request, k, target, expected, got, result, tally>>

\* The limit the semaphore was created with is not looked at.
ReleaseSemaphore(t) ==
    /\ Call(t)
    /\ \E s \in Semaphores, n \in 1 .. MaxCount :
          /\ word[s] + n <= MaxCount
          /\ target' = [target EXCEPT ![t] = s]
          /\ word' = [word EXCEPT ![s] = @ + n]
          /\ signals' = [signals EXCEPT ![s] = @ + n]
    /\ Goto(t, "notify")
    /\ UNCHANGED <<owner, recursion, threadVars, asleep, request, k, expected, got, result, takes, held>>

\* fault: frees the mutant at every release
ReleaseMutantAlways(t) ==
    /\ pc[t] = Idle
    /\ \E m \in Mutants :
          /\ held[t][m] > 0
          /\ held' = [held EXCEPT ![t][m] = @ - 1]
          /\ target' = [target EXCEPT ![t] = m]
          /\ recursion' = [recursion EXCEPT ![m] = @ - 1]
          /\ Goto(t, "freeMutant")
    /\ UNCHANGED <<word, owner, threadVars, asleep, request, k, expected, got, result, calls, signals, takes>>

\* By a guest that holds it; nothing else is checked.
ReleaseMutant(t) ==
    /\ pc[t] = Idle
    /\ \E m \in Mutants :
          /\ held[t][m] > 0
          /\ held' = [held EXCEPT ![t][m] = @ - 1]
          /\ target' = [target EXCEPT ![t] = m]
          /\ recursion' = [recursion EXCEPT ![m] = @ - 1]
          /\ Goto(t, IF recursion[m] = 1 THEN "freeMutant" ELSE Idle)
    /\ UNCHANGED <<word, owner, threadVars, asleep, request, k, expected, got, result, calls, signals, takes>>

FreeMutant(t) ==
    /\ pc[t] = "freeMutant"
    /\ owner' = [owner EXCEPT ![target[t]] = Nobody]
    /\ Goto(t, "notify")
    /\ UNCHANGED <<word, recursion, threadVars, asleep, callVars, tally>>

------------------------------------------------------------------------------
(* Threads *)

CreateThread(t) ==
    /\ pc[t] = Idle
    /\ \E c \in Spawned :
          /\ pc[c] = "unborn"
          /\ Goto(c, "start")
          /\ suspended' \in {suspended, suspended \cup {c}}
    /\ UNCHANGED <<word, owner, recursion, finished, joined, closed, asleep, callVars, tally>>

\* A thread that has started does not look at the flag any more.
SuspendThread(t) ==
    /\ Call(t)
    /\ \E c \in Handles :
          /\ \A u \in Using(c) : pc[u] # "close"
          /\ suspended' = suspended \cup {c}
    /\ UNCHANGED <<word, owner, recursion, finished, joined, closed, pc, asleep,
                   request, k, target, expected, got, result, tally>>

\* NtResumeThread, KeResumeThread.
ResumeThread(t) ==
    /\ Call(t)
    /\ \E c \in Handles :
          /\ \A u \in Using(c) : pc[u] # "close"
          /\ target' = [target EXCEPT ![t] = c]
          /\ suspended' = suspended \ {c}
    /\ Goto(t, "notify")
    /\ UNCHANGED <<word, owner, recursion, finished, joined, closed, asleep,
                   request, k, expected, got, result, tally>>

CloseThread(t) ==
    /\ pc[t] = Idle
    /\ \E c \in Handles \ {t} :
          /\ Using(c) = {}
          /\ target' = [target EXCEPT ![t] = c]
    /\ Goto(t, "close")
    /\ UNCHANGED <<objects, asleep, request, k, expected, got, result, calls, tally>>

\* The destructor of the handle joins too.
DestroyThread(t) ==
    /\ pc[t] = "close" /\ (target[t] \in joined \/ pc[target[t]] = "gone")
    /\ joined' = joined \cup {target[t]} /\ closed' = closed \cup {target[t]}
    /\ Done(t)
    /\ UNCHANGED <<word, owner, recursion, suspended, finished, asleep,
                   request, k, expected, got, result, calls, tally>>

\* The guest's function returns, or ExTerminateThread jumps out of it; what the
\* thread had of its own goes.
ExitThread(t) ==
    /\ pc[t] = Idle /\ t \in Spawned
    /\ Goto(t, "finish")
    /\ request' = [request EXCEPT ![t] = AnyRequest] /\ k' = [k EXCEPT ![t] = 1]
    /\ target' = [target EXCEPT ![t] = AnyObject] /\ expected' = [expected EXCEPT ![t] = Nobody]
    /\ got' = [got EXCEPT ![t] = <<>>] /\ result' = [result EXCEPT ![t] = "none"]
    /\ calls' = [calls EXCEPT ![t] = 0]
    /\ UNCHANGED <<objects, asleep, tally>>

Finish(t) ==
    /\ pc[t] = "finish"
    /\ finished' = finished \cup {t}
    /\ Goto(t, "end")
    /\ UNCHANGED <<word, owner, recursion, suspended, joined, closed, asleep, callVars, tally>>

\* The host thread is over.
End(t) ==
    /\ pc[t] = "end"
    /\ Goto(t, "gone")
    /\ UNCHANGED <<objects, asleep, callVars, tally>>

------------------------------------------------------------------------------

\* What a thread does once it is inside a call, or holds a mutant.
Step(t) ==
    \/ TakeWord(t) \/ TakeOwner(t) \/ IncrementRecursion(t)
    \/ SingleTimesOut(t) \/ SingleBlocks(t) \/ FallAsleep(t) \/ BlockReturns(t)
    \/ AnyGoesOn(t) \/ AnyTimesOut(t) \/ SeeFinished(t) \/ BeginJoin(t) \/ Join(t)
    \/ Notify(t) \/ PulseNotify(t) \/ PulseReset(t)
    \/ ReleaseMutant(t) \/ FreeMutant(t) \/ DestroyThread(t) \/ Finish(t) \/ End(t)

Next ==
    \E t \in Threads :
        \/ Step(t)
        \/ BeginWait(t) \/ SetEvent(t) \/ ResetEvent(t) \/ ReleaseSemaphore(t)
        \/ CreateThread(t) \/ SuspendThread(t) \/ ResumeThread(t) \/ CloseThread(t) \/ ExitThread(t)

Spec == Init /\ [][Next]_vars

\* Guest threads are host threads, scheduled fairly; a holder lets go in the end.
\* That the guest makes another call is not assumed.
FairSpec == Spec /\ \A t \in Threads : WF_vars(Step(t))

------------------------------------------------------------------------------
(* Properties *)

\* The variables have their types.
TypeOK ==
    /\ word \in [Event \cup Semaphores -> Nat]
    /\ \A e \in Event : word[e] \in {0, 1}
    /\ owner \in [Mutants -> Threads \cup {Nobody}] /\ recursion \in [Mutants -> Nat]
    /\ {suspended, finished, joined, closed} \subseteq SUBSET Spawned
    /\ pc \in [Threads -> {"unborn", "start", Idle, "test", "increment", "block", "join", "notify",
                           "pulseNotify", "pulseReset", "freeMutant", "close", "finish", "end", "gone"}]
    /\ request \in [Threads -> Requests]
    /\ \A t \in Threads : k[t] \in DOMAIN request[t].objs
    /\ target \in [Threads -> Object]
    /\ expected \in [Threads -> Threads \cup {Nobody}]
    /\ asleep \subseteq Threads
    /\ got \in [Threads -> Seq(Object)]
    /\ result \in [Threads -> {"none", "success", "timeout"}]
    /\ held \in [Threads -> [Mutants -> Nat]]

\* No signal is made up or spent twice: every unit of a semaphore is waiting in
\* its count or satisfied exactly one wait, and an auto-reset event never lets
\* more waits through than it was set.
SignalsConserved ==
    /\ \A s \in Semaphores : word[s] + takes[s] = signals[s]
    /\ \A e \in AutoEvents : word[e] + takes[e] <= signals[e]

\* What a wait reports is what it took: nothing after a timeout, one object after
\* a wait for one or any, and everything after a wait for all without a timeout.
\* A thread that was waited for runs guest code no more, one that was joined
\* nothing at all, and no thread outlives its handle, which it writes to.
ResultTellsWhatWasTaken ==
    /\ \A c \in closed : pc[c] = "gone"
    /\ \A t \in Threads, c \in Spawned :
          c \in Range(got[t]) =>
              pc[c] = "gone" \/ (pc[c] = "end" /\ ~Joins(request[t]))
    /\ \A t \in Threads :
          /\ result[t] = "timeout" => got[t] = <<>>
          /\ result[t] = "success" /\ ~request[t].all => Len(got[t]) = 1
          /\ result[t] = "success" /\ request[t].all /\ request[t].timeout = "infinite" =>
                got[t] = request[t].objs

\* A thread that holds a mutant owns it, and outside its calls the recursion
\* count is exactly the releases it owes.
MutantExact ==
    \A t \in Threads, m \in Mutants :
        held[t][m] > 0 => owner[m] = t /\ (pc[t] = Idle => recursion[m] = held[t][m])

\* Seen through its two words, each mutant is a lock that the same thread may take
\* again: free until a wait takes it, then one thread's until that thread has
\* released it as often, whatever kind of wait took it and though the owner word
\* and the count change in two steps, and in the other order when it is freed.
Depth(m) == [t \in Threads |-> IF owner[m] = t THEN recursion[m] ELSE 0]

MutantLock(m) == INSTANCE RecursiveLock WITH depth <- Depth(m)

MutantsAreLocks ==
    /\ \A m \in Mutants : MutantLock(m)!Init
    /\ [][\A m \in Mutants : [MutantLock(m)!Next]_(Depth(m))]_vars

\* A thread asleep on an object it could have is about to be woken: between the
\* test, the sleep, the store and notify_all no wake-up gets lost.  The same of
\* a new thread that waits to be resumed.
NoStrandedWaiter ==
    \A t \in asleep :
        ~Unchanged(t) => \E u \in Threads :
            pc[u] \in {"notify", "pulseNotify"} /\ target[u] = SleepsOn(t)

\* A thread waits for the object and takes nothing else instead.
WaitsOn(t, o) ==
    /\ pc[t] # Idle /\ request[t].timeout = "infinite"
    /\ IF WaitsForAny(request[t]) THEN o \in Named(request[t])
                         ELSE Obj(t) = o

\* An object that stays signalled does not keep anybody waiting, whichever kind
\* of wait it is, nor does a thread that has ended; a new thread that stays
\* resumed runs.
NobodyIgnoresSignal ==
    /\ \A o \in Event \cup Semaphores \cup Spawned, t \in Threads :
          <>[](IF o \in Spawned THEN o \in finished ELSE word[o] > 0)
              => []<>~(pc[t] \in {"test", "block", "join"} /\ WaitsOn(t, o))
    /\ \A c \in Spawned : <>[](c \notin suspended) => []<>(pc[c] # "start")
==============================================================================
