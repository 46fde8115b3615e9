---------------------------- MODULE DispatcherProofs ----------------------------
(* The dispatcher objects for any number of threads, objects and waits.        *)
EXTENDS Dispatcher, SequenceTheorems, TLAPS

------------------------------------------------------------------------------
(* The inductive invariant *)

Inside == {"test", "increment", "block", "join"}

\* The types, in parts: what belongs to the threads' calls, the words with the
\* ghost counters, the mutants and the flags.
LocalTypes ==
    /\ pc \in [Threads -> {"unborn", "start", Idle, "test", "increment", "block", "join", "notify",
                           "pulseNotify", "pulseReset", "freeMutant", "close", "finish", "end", "gone"}]
    /\ request \in [Threads -> Requests] /\ k \in [Threads -> Nat]
    /\ \A t \in Threads : k[t] \in 1 .. Len(request[t].objs)
    /\ target \in [Threads -> Object]
    /\ expected \in [Threads -> Threads \cup {Nobody}]
    /\ got \in [Threads -> Seq(Object)]
    /\ result \in [Threads -> {"none", "success", "timeout"}]

WordTypes ==
    /\ word \in [Event \cup Semaphores -> Nat] /\ \A e \in Event : word[e] \in {0, 1}
    /\ signals \in [Event \cup Semaphores -> Nat] /\ takes \in [Event \cup Semaphores -> Nat]

MutantTypes ==
    /\ owner \in [Mutants -> Threads \cup {Nobody}] /\ recursion \in [Mutants -> Nat]
    /\ held \in [Threads -> [Mutants -> Nat]]

FlagTypes ==
    /\ suspended \subseteq Spawned /\ finished \subseteq Spawned
    /\ joined \subseteq Spawned /\ closed \subseteq Spawned
    /\ asleep \subseteq Threads

\* Where a thread is says what it is about.
AboutKnown(t) ==
    /\ pc[t] = "increment" => Obj(t) \in Mutants
    /\ pc[t] = "join" => Obj(t) \in Spawned /\ Joins(request[t])
    /\ pc[t] = "block" =>
          Obj(t) \notin Spawned /\ (Obj(t) \in Mutants => expected[t] # Nobody)
    /\ pc[t] \in {"pulseNotify", "pulseReset"} => target[t] \in Event
    /\ pc[t] = "freeMutant" => target[t] \in Mutants
    /\ pc[t] = "close" => target[t] \in Spawned
    /\ pc[t] = "finish" => t \in Spawned

\* What a wait has taken by now: nothing, or the objects up to its position.
Progress(t) ==
    /\ pc[t] \in Inside => result[t] = "none"
    /\ pc[t] \in Inside /\ ~request[t].all => got[t] = <<>>
    /\ pc[t] \in Inside /\ request[t].all /\ request[t].timeout = "infinite" =>
          /\ Len(got[t]) = k[t] - 1
          /\ \A j \in 1 .. k[t] - 1 : got[t][j] = request[t].objs[j]
    /\ result[t] = "timeout" => got[t] = <<>>
    /\ result[t] = "success" /\ ~request[t].all => Len(got[t]) = 1
    /\ result[t] = "success" /\ request[t].all /\ request[t].timeout = "infinite" =>
          /\ Len(got[t]) = Len(request[t].objs)
          /\ \A j \in 1 .. Len(request[t].objs) : got[t][j] = request[t].objs[j]

\* The flags of a thread follow the thread.
FlagsFollow ==
    /\ \A c \in joined \cup closed : pc[c] = "gone"
    /\ \A c \in finished : pc[c] \in {"end", "gone"}

TakenThreadsOver ==
    \A t \in Threads, c \in Spawned :
        c \in Range(got[t]) => pc[c] = "gone" \/ (pc[c] = "end" /\ ~Joins(request[t]))

\* The recursion word of an owned mutant is what its owner holds, of a free one
\* 0; a thread between the two words of a mutant owns it.
MutantLedger ==
    /\ \A m \in Mutants : recursion[m] = IF owner[m] = Nobody THEN 0 ELSE held[owner[m]][m]
    /\ \A t \in Threads, m \in Mutants : held[t][m] > 0 => owner[m] = t
    /\ \A t \in Threads : pc[t] = "increment" => owner[Obj(t)] = t
    /\ \A t \in Threads : pc[t] = "freeMutant" => owner[target[t]] = t /\ recursion[target[t]] = 0

SleepersBlocked == \A t \in asleep : pc[t] \in {"block", "start"}

IInv ==
    /\ LocalTypes /\ WordTypes /\ MutantTypes /\ FlagTypes
    /\ SignalsConserved /\ MutantLedger
    /\ \A t \in Threads : AboutKnown(t) /\ Progress(t)
    /\ FlagsFollow /\ TakenThreadsOver
    /\ SleepersBlocked /\ NoStrandedWaiter

------------------------------------------------------------------------------
(* What the steps are to the thread that takes them *)

\* The requests of the guest.
LEMMA RequestShape ==
  ASSUME NEW r \in Requests
  PROVE  /\ r.objs \in Seq(Object) /\ Len(r.objs) \in Nat \ {0}
         /\ DOMAIN r.objs = 1 .. Len(r.objs)
         /\ \A j \in 1 .. Len(r.objs) : r.objs[j] \in Object
         /\ r.all \in BOOLEAN /\ r.timeout \in {"zero", "finite", "infinite"}
<1>1. r \in [objs : Seq(Object) \ {<<>>}, all : BOOLEAN, timeout : {"zero", "finite", "infinite"}]
  BY RequestsAssumption
<1>2. r.objs \in Seq(Object) /\ r.objs # <<>>
  BY <1>1
<1> QED BY <1>1, <1>2

\* There is something to begin with.
LEMMA Somewhere == AnyRequest \in Requests /\ AnyObject \in Object
<1>1. AnyRequest \in Requests
  BY RequestsAssumption DEF AnyRequest
<1>2. \E o \in Object : TRUE
  BY <1>1, RequestShape
<1> QED BY <1>1, <1>2 DEF AnyObject

Action(t) ==
    \/ Step(t)
    \/ BeginWait(t) \/ SetEvent(t) \/ ResetEvent(t) \/ ReleaseSemaphore(t)
    \/ CreateThread(t) \/ SuspendThread(t) \/ ResumeThread(t) \/ CloseThread(t) \/ ExitThread(t)

\* The object is taken and the wait goes on or ends.
Taken(t) ==
    /\ pc[t] \in {"test", "increment", "join"}
    /\ got' = [got EXCEPT ![t] = Append(@, Obj(t))]
    /\ Satisfied(t)
    /\ UNCHANGED <<request, target, expected>>

\* A wait for all passes over an object it did not get.
PassedOver(t) ==
    /\ pc[t] = "test" /\ request[t].all /\ request[t].timeout # "infinite"
    /\ Satisfied(t)
    /\ UNCHANGED <<request, target, expected, got>>

TimedOut(t) ==
    /\ pc[t] = "test" /\ ~request[t].all
    /\ Return(t, "timeout")
    /\ UNCHANGED <<request, target, expected, got>>

TriesNext(t) ==
    /\ pc[t] = "test" /\ ~request[t].all
    /\ k' = [k EXCEPT ![t] = IF LastObj(t) THEN 1 ELSE @ + 1]
    /\ UNCHANGED <<pc, request, target, expected, got, result>>

\* From one place inside a wait to another.
MovesInside(t) ==
    /\ pc[t] \in Inside
    /\ \E place \in Inside : Goto(t, place)
    /\ \E x \in Threads \cup {Nobody} : expected' = [expected EXCEPT ![t] = x]
    /\ UNCHANGED <<request, k, target, got, result>>

Outside == {"start", Idle, "notify", "pulseNotify", "pulseReset", "freeMutant", "close",
            "finish", "end", "gone"}

\* From one place outside any wait to another.
MovesOutside(t) ==
    /\ pc[t] \in Outside
    /\ \E place \in Outside : Goto(t, place)
    /\ \E o \in Object : target' = [target EXCEPT ![t] = o]
    /\ UNCHANGED <<request, k, expected, got, result>>

Creates(t) ==
    /\ \E c \in Spawned : pc[c] = "unborn" /\ Goto(c, "start")
    /\ UNCHANGED <<request, k, target, expected, got, result>>

Stays(t) == UNCHANGED <<pc, request, k, target, expected, got, result>>

Kind(t) ==
    \/ Taken(t) \/ PassedOver(t) \/ TimedOut(t) \/ TriesNext(t) \/ MovesInside(t)
    \/ MovesOutside(t) \/ Creates(t) \/ Stays(t) \/ BeginWait(t) \/ ExitThread(t)

\* Every action is of one of these kinds.
LEMMA Kinds ==
  ASSUME LocalTypes, MutantTypes, NEW t \in Threads, Action(t)
  PROVE  Kind(t)
<1> USE DEF Kind, objects, callVars, tally, threadVars
<1>0. request[t] \in Requests /\ request[t].all \in BOOLEAN
  BY RequestShape DEF LocalTypes
<1>1. CASE TakeWord(t) \/ IncrementRecursion(t) \/ SeeFinished(t) \/ Join(t)
  BY <1>1 DEF TakeWord, IncrementRecursion, SeeFinished, Join, Taken
<1>2. CASE SingleTimesOut(t)
  BY <1>2 DEF SingleTimesOut, Refused, MayTimeOut, TimedOut, PassedOver
<1>3. CASE AnyTimesOut(t)
  BY <1>3 DEF AnyTimesOut, Refused, WaitsForAny, TimedOut
<1>4. CASE AnyGoesOn(t)
  BY <1>4 DEF AnyGoesOn, Refused, WaitsForAny, TriesNext
<1>5. CASE TakeOwner(t) \/ BeginJoin(t) \/ SingleBlocks(t)
  <2>1. pc[t] = "test" /\ UNCHANGED <<request, k, target, got, result>>
    BY <1>5 DEF TakeOwner, BeginJoin, SingleBlocks, Refused
  <2>2. Goto(t, "increment") \/ Goto(t, "join") \/ Goto(t, "block")
    BY <1>5 DEF TakeOwner, BeginJoin, SingleBlocks
  <2>3. \E x \in Threads \cup {Nobody} : expected' = [expected EXCEPT ![t] = x]
    <3>1. CASE expected' = expected
      BY <3>1 DEF LocalTypes
    <3>2. CASE SingleBlocks(t)
      BY <3>2 DEF SingleBlocks, LocalTypes, MutantTypes
    <3> QED BY <1>5, <3>1, <3>2 DEF TakeOwner, BeginJoin
  <2> QED BY <2>1, <2>2, <2>3 DEF MovesInside, Inside
<1>6. CASE BlockReturns(t)
  <2>1. UNCHANGED <<request, k, target, expected, got, result>>
    BY <1>6 DEF BlockReturns
  <2>2. CASE pc[t] = "start"
    <3>1. Goto(t, Idle) /\ \E o \in Object : target' = [target EXCEPT ![t] = o]
      BY <1>6, <2>1, <2>2 DEF BlockReturns, LocalTypes
    <3> QED BY <2>1, <2>2, <3>1 DEF MovesOutside, Outside
  <2>3. CASE pc[t] = "block"
    <3>1. Goto(t, "test") /\ \E x \in Threads \cup {Nobody} : expected' = [expected EXCEPT ![t] = x]
      BY <1>6, <2>1, <2>3 DEF BlockReturns, LocalTypes
    <3> QED BY <2>1, <2>3, <3>1 DEF MovesInside, Inside
  <2> QED BY <1>6, <2>2, <2>3 DEF BlockReturns
<1>7. CASE FallAsleep(t) \/ ResetEvent(t) \/ SuspendThread(t)
  BY <1>7 DEF FallAsleep, ResetEvent, SuspendThread, Stays
<1>8. CASE CreateThread(t)
  BY <1>8 DEF CreateThread, Creates
<1>9. CASE SetEvent(t) \/ ReleaseSemaphore(t) \/ ReleaseMutant(t) \/ ResumeThread(t) \/ CloseThread(t)
  <2>1. pc[t] = Idle /\ UNCHANGED <<request, k, expected, got, result>>
    BY <1>9 DEF SetEvent, ReleaseSemaphore, ReleaseMutant, ResumeThread, CloseThread, Call
  <2>2. \E place \in Outside : Goto(t, place)
    BY <1>9 DEF SetEvent, ReleaseSemaphore, ReleaseMutant, ResumeThread, CloseThread, Outside, Goto
  <2>3. \E o \in Object : target' = [target EXCEPT ![t] = o]
    BY <1>9 DEF SetEvent, ReleaseSemaphore, ReleaseMutant, ResumeThread, CloseThread, Object, Handles
  <2> QED BY <2>1, <2>2, <2>3 DEF MovesOutside, Outside
<1>10. CASE Notify(t) \/ PulseReset(t) \/ DestroyThread(t)
  <2>1. /\ pc[t] \in {"notify", "pulseReset", "close"} /\ Goto(t, Idle)
        /\ UNCHANGED <<request, k, expected, got, result>>
        /\ target' = [target EXCEPT ![t] = AnyObject]
    BY <1>10 DEF Notify, PulseReset, DestroyThread, Done
  <2> QED BY <2>1, Somewhere DEF MovesOutside, Outside
<1>11. CASE PulseNotify(t) \/ FreeMutant(t) \/ Finish(t) \/ End(t)
  <2>1. /\ pc[t] \in {"pulseNotify", "freeMutant", "finish", "end"}
        /\ UNCHANGED <<request, k, target, expected, got, result>>
        /\ \E place \in {"pulseReset", "notify", "end", "gone"} : Goto(t, place)
    BY <1>11 DEF PulseNotify, FreeMutant, Finish, End
  <2>2. \E o \in Object : target' = [target EXCEPT ![t] = o]
    BY <2>1 DEF LocalTypes
  <2> QED BY <2>1, <2>2 DEF MovesOutside, Outside
<1> QED BY <1>1, <1>2, <1>3, <1>4, <1>5, <1>6, <1>7, <1>8, <1>9, <1>10, <1>11 DEF Action, Step

\* A step leaves the other threads where they are, except that it may start one.
LEMMA OthersKeep ==
  ASSUME LocalTypes, NEW t \in Threads, Kind(t), NEW u \in Threads \ {t}
  PROVE  /\ request'[u] = request[u] /\ k'[u] = k[u] /\ target'[u] = target[u]
         /\ expected'[u] = expected[u] /\ got'[u] = got[u] /\ result'[u] = result[u]
         /\ pc'[u] = pc[u] \/ (pc[u] = "unborn" /\ pc'[u] = "start")
<1> USE DEF LocalTypes, Goto
<1>1. CASE Taken(t) \/ PassedOver(t)
  BY <1>1 DEF Taken, PassedOver, Satisfied, Return, NextObject
<1>2. CASE TimedOut(t) \/ TriesNext(t)
  BY <1>2 DEF TimedOut, TriesNext, Return
<1>3. CASE MovesInside(t) \/ MovesOutside(t)
  BY <1>3 DEF MovesInside, MovesOutside
<1>4. CASE Creates(t) \/ Stays(t)
  BY <1>4 DEF Creates, Stays
<1>5. CASE BeginWait(t) \/ ExitThread(t)
  BY <1>5 DEF BeginWait, ExitThread
<1> QED BY <1>1, <1>2, <1>3, <1>4, <1>5 DEF Kind

\* The types of the locals, kind by kind.
LEMMA LocalTypesPreserved ==
  ASSUME LocalTypes, NEW t \in Threads, Kind(t)
  PROVE  LocalTypes'
<1> USE DEF LocalTypes, Goto
<1>0. /\ request[t] \in Requests /\ Len(request[t].objs) \in Nat \ {0} /\ Obj(t) \in Object
      /\ \A u \in Threads : k[u] \in Nat /\ k[u] >= 1
  BY RequestShape DEF Obj
<1>1. CASE Taken(t) \/ PassedOver(t)
  <2>1. UNCHANGED <<request, target, expected>> /\ Satisfied(t)
    BY <1>1 DEF Taken, PassedOver
  <2>2. got' \in [Threads -> Seq(Object)]
    <3>1. Append(got[t], Obj(t)) \in Seq(Object)
      BY <1>0, AppendProperties
    <3>2. CASE got' = [got EXCEPT ![t] = Append(got[t], Obj(t))]
      BY <3>1, <3>2
    <3> QED BY <1>1, <3>2 DEF Taken, PassedOver
  <2>3. CASE NextObject(t) /\ ~LastObj(t)
    <3>1. k[t] + 1 \in 1 .. Len(request[t].objs)
      BY <1>0, <2>3 DEF LastObj
    <3> QED BY <2>1, <2>2, <2>3, <3>1 DEF NextObject
  <2>4. CASE Return(t, "success")
    BY <2>1, <2>2, <2>4 DEF Return, Idle
  <2> QED BY <2>1, <2>3, <2>4 DEF Satisfied
<1>2. CASE TimedOut(t)
  BY <1>2 DEF TimedOut, Return, Idle
<1>3. CASE TriesNext(t)
  <2>1. (IF LastObj(t) THEN 1 ELSE k[t] + 1) \in 1 .. Len(request[t].objs)
    BY <1>0 DEF LastObj
  <2> QED BY <1>3, <2>1 DEF TriesNext
<1>4. CASE MovesInside(t)
  BY <1>4 DEF MovesInside, Inside
<1>5. CASE MovesOutside(t)
  BY <1>5 DEF MovesOutside, Outside
<1>6. CASE Creates(t) \/ Stays(t)
  BY <1>6 DEF Creates, Stays
<1>7. CASE BeginWait(t)
  <2>1. PICK r \in Requests : request' = [request EXCEPT ![t] = r]
    BY <1>7 DEF BeginWait
  <2>2. 1 \in 1 .. Len(r.objs)
    BY RequestShape
  <2> QED BY <1>7, <2>1, <2>2, EmptySeq DEF BeginWait
<1>8. CASE ExitThread(t)
  <2>1. 1 \in 1 .. Len(AnyRequest.objs)
    BY Somewhere, RequestShape
  <2> QED BY <1>8, <2>1, Somewhere, EmptySeq DEF ExitThread
<1> QED BY <1>1, <1>2, <1>3, <1>4, <1>5, <1>6, <1>7, <1>8 DEF Kind

\* What a wait has taken is known at each step of it, and afterwards.
LEMMA ProgressPreserved ==
  ASSUME LocalTypes, \A u \in Threads : Progress(u), NEW t \in Threads, Kind(t)
  PROVE  \A u \in Threads : Progress(u)'
<1>1. ASSUME NEW u \in Threads \ {t}
      PROVE  Progress(u)'
  BY <1>1, OthersKeep DEF Progress, Inside
<1>2. Progress(t)'
  <2>0. /\ request[t] \in Requests /\ Len(request[t].objs) \in Nat \ {0}
        /\ k[t] \in 1 .. Len(request[t].objs) /\ got[t] \in Seq(Object) /\ Obj(t) \in Object
    BY RequestShape DEF LocalTypes, Obj
  <2>1. CASE Taken(t)
    <3>1. /\ got'[t] = Append(got[t], Obj(t)) /\ request'[t] = request[t]
          /\ Progress(t) /\ pc[t] \in Inside
      BY <2>1 DEF Taken, LocalTypes, Inside
    <3>2. /\ Len(got'[t]) = Len(got[t]) + 1 /\ got'[t][Len(got[t]) + 1] = request[t].objs[k[t]]
          /\ \A j \in 1 .. Len(got[t]) : got'[t][j] = got[t][j]
      BY <2>0, <3>1, AppendProperties DEF Obj
    <3>3. CASE request[t].all /\ ~LastObj(t)
      <4>1. pc'[t] = "test" /\ k'[t] = k[t] + 1 /\ result'[t] = result[t]
        BY <2>1, <3>3 DEF Taken, Satisfied, NextObject, Goto, LocalTypes
      <4> QED BY <2>0, <3>1, <3>2, <3>3, <4>1, SMTT(30) DEF Progress
    <3>4. CASE ~(request[t].all /\ ~LastObj(t))
      <4>1. pc'[t] = Idle /\ result'[t] = "success"
        BY <2>1, <3>4 DEF Taken, Satisfied, Return, Goto, LocalTypes
      <4>2. CASE request[t].all
        <5>1. k[t] = Len(request[t].objs)
          BY <3>4, <4>2 DEF LastObj
        <5> QED BY <2>0, <3>1, <3>2, <4>1, <4>2, <5>1 DEF Progress, Inside, Idle
      <4>3. CASE ~request[t].all
        BY <2>0, <3>1, <3>2, <4>1, <4>3 DEF Progress, Inside, Idle
      <4> QED BY <4>2, <4>3
    <3> QED BY <3>3, <3>4
  <2>2. CASE PassedOver(t)
    BY <2>2 DEF PassedOver, Satisfied, Return, NextObject, Goto, Progress, LocalTypes, Inside, Idle
  <2>3. CASE TimedOut(t)
    BY <2>3 DEF TimedOut, Return, Goto, Progress, LocalTypes, Inside, Idle
  <2>4. CASE TriesNext(t)
    BY <2>4 DEF TriesNext, Progress
  <2>5. CASE MovesInside(t)
    BY <2>5 DEF MovesInside, Goto, Progress, LocalTypes
  <2>6. CASE MovesOutside(t)
    BY <2>6 DEF MovesOutside, Goto, Progress, LocalTypes, Inside, Outside, Idle
  <2>7. CASE Creates(t)
    <3>1. pc'[t] \in Inside => pc[t] \in Inside
      BY <2>7 DEF Creates, Goto, LocalTypes, Inside
    <3> QED BY <2>7, <3>1 DEF Creates, Progress
  <2>8. CASE Stays(t)
    BY <2>8 DEF Stays, Progress
  <2>9. CASE BeginWait(t)
    <3>1. got'[t] = <<>> /\ result'[t] = "none" /\ k'[t] = 1
      BY <2>9 DEF BeginWait, LocalTypes
    <3> QED BY <3>1 DEF Progress
  <2>10. CASE ExitThread(t)
    <3>1. got'[t] = <<>> /\ result'[t] = "none" /\ k'[t] = 1
      BY <2>10 DEF ExitThread, LocalTypes
    <3> QED BY <3>1 DEF Progress
  <2> QED BY <2>1, <2>2, <2>3, <2>4, <2>5, <2>6, <2>7, <2>8, <2>9, <2>10 DEF Kind
<1> QED BY <1>1, <1>2

------------------------------------------------------------------------------
(* What the steps are to the objects *)

WordStep(t) ==
    TakeWord(t) \/ SetEvent(t) \/ PulseReset(t) \/ ResetEvent(t) \/ ReleaseSemaphore(t)
MutantStep(t) == TakeOwner(t) \/ IncrementRecursion(t) \/ ReleaseMutant(t) \/ FreeMutant(t)
FlagStep(t) ==
    \/ Join(t) \/ DestroyThread(t) \/ Finish(t)
    \/ CreateThread(t) \/ SuspendThread(t) \/ ResumeThread(t)
SleepStep(t) == FallAsleep(t) \/ Notify(t) \/ PulseNotify(t)

\* The other steps leave each part of the objects alone.
LEMMA Frames ==
  ASSUME NEW t \in Threads, Action(t)
  PROVE  /\ WordStep(t) \/ UNCHANGED <<word, signals, takes>>
         /\ MutantStep(t) \/ UNCHANGED <<owner, recursion, held>>
         /\ FlagStep(t) \/ UNCHANGED <<suspended, finished, joined, closed>>
         /\ SleepStep(t) \/ UNCHANGED asleep
<1> USE DEF WordStep, MutantStep, FlagStep, SleepStep, objects, threadVars, callVars, tally
<1>1. CASE WordStep(t)
  BY <1>1 DEF TakeWord, SetEvent, PulseReset, ResetEvent, ReleaseSemaphore
<1>2. CASE MutantStep(t)
  BY <1>2 DEF TakeOwner, IncrementRecursion, ReleaseMutant, FreeMutant
<1>3. CASE FlagStep(t)
  BY <1>3 DEF Join, DestroyThread, Finish, CreateThread, SuspendThread, ResumeThread
<1>4. CASE SleepStep(t)
  BY <1>4 DEF FallAsleep, Notify, PulseNotify
<1>5. CASE \/ SingleTimesOut(t) \/ SingleBlocks(t) \/ BlockReturns(t)
           \/ AnyGoesOn(t) \/ AnyTimesOut(t) \/ SeeFinished(t) \/ BeginJoin(t)
  BY <1>5 DEF SingleTimesOut, SingleBlocks, BlockReturns, AnyGoesOn, AnyTimesOut, SeeFinished, BeginJoin
<1>6. CASE BeginWait(t) \/ CloseThread(t) \/ ExitThread(t) \/ End(t)
  BY <1>6 DEF BeginWait, CloseThread, ExitThread, End
<1> QED BY <1>1, <1>2, <1>3, <1>4, <1>5, <1>6 DEF Action, Step

\* The kinds of objects are told apart.
LEMMA ObjectKinds ==
  /\ AutoEvents \cap ManualEvents = {} /\ Semaphores \cap Event = {}
  /\ Mutants \cap (Event \cup Semaphores) = {}
  /\ Spawned \cap (Event \cup Semaphores \cup Mutants) = {}
  /\ Object = Event \cup Semaphores \cup Mutants \cup Spawned
BY ObjectsAssumption DEF Event, Object

\* A place that says something about the object is entered with it.
LEMMA AboutPreserved ==
  ASSUME LocalTypes, MutantTypes, \A u \in Threads : AboutKnown(u), NEW t \in Threads, Action(t)
  PROVE  \A u \in Threads : AboutKnown(u)'
<1>0. Kind(t)
  BY Kinds
<1>1. ASSUME NEW u \in Threads \ {t}
      PROVE  AboutKnown(u)'
  BY <1>0, <1>1, OthersKeep DEF AboutKnown, Obj
<1>2. AboutKnown(t)'
  <2> DEFINE Telling == {"increment", "join", "block", "pulseNotify", "pulseReset", "freeMutant", "close", "finish"}
  <2>1. CASE pc'[t] \notin Telling
    BY <2>1 DEF AboutKnown
  <2>2. CASE Stays(t)
    BY <2>2 DEF Stays, AboutKnown, Obj
  <2>3. CASE TakeOwner(t) \/ BeginJoin(t)
    <3>1. /\ UNCHANGED <<request, k>> /\ pc'[t] \in {"increment", "join"}
          /\ pc'[t] = "increment" => Obj(t) \in Mutants
          /\ pc'[t] = "join" => Obj(t) \in Spawned /\ Joins(request[t])
      BY <2>3 DEF TakeOwner, BeginJoin, Goto, LocalTypes, callVars
    <3> QED BY <3>1 DEF AboutKnown, Obj
  <2>4. CASE SingleBlocks(t)
    <3>1. UNCHANGED <<request, k>> /\ pc'[t] = "block" /\ Obj(t) \notin Spawned
      BY <2>4, ObjectKinds DEF SingleBlocks, Goto, LocalTypes, Refused, Joins
    <3>2. Obj(t) \in Mutants => expected'[t] # Nobody
      <4> SUFFICES ASSUME Obj(t) \in Mutants PROVE owner[Obj(t)] # Nobody /\ expected'[t] = owner[Obj(t)]
        OBVIOUS
      <4>1. owner[Obj(t)] \notin {Nobody, t}
        BY <2>4, ObjectKinds DEF SingleBlocks, Refused
      <4> QED BY <2>4, <4>1 DEF SingleBlocks, LocalTypes
    <3> QED BY <3>1, <3>2 DEF AboutKnown, Obj
  <2>5. CASE SetEvent(t)
    <3>1. pc'[t] \in {"notify", "pulseNotify"} /\ target'[t] \in Event
      BY <2>5 DEF SetEvent, LocalTypes
    <3> QED BY <3>1 DEF AboutKnown
  <2>6. CASE PulseNotify(t)
    <3>1. pc'[t] = "pulseReset" /\ target'[t] = target[t] /\ pc[t] = "pulseNotify"
      BY <2>6 DEF PulseNotify, Goto, LocalTypes, callVars
    <3> QED BY <3>1 DEF AboutKnown
  <2>7. CASE ReleaseMutant(t)
    <3>1. pc'[t] \in {"freeMutant", Idle} /\ target'[t] \in Mutants
      BY <2>7 DEF ReleaseMutant, Goto, LocalTypes
    <3> QED BY <3>1 DEF AboutKnown, Idle
  <2>8. CASE CloseThread(t)
    <3>1. pc'[t] = "close" /\ target'[t] \in Spawned
      BY <2>8 DEF CloseThread, Goto, LocalTypes, Handles
    <3> QED BY <3>1 DEF AboutKnown
  <2>9. CASE Taken(t) \/ PassedOver(t) \/ TimedOut(t)
    BY <2>1, <2>9 DEF Taken, PassedOver, TimedOut, Satisfied, Return, NextObject, Goto, LocalTypes, Idle
  <2>10. CASE TriesNext(t)
    BY <2>1, <2>10 DEF TriesNext
  <2>11. CASE Notify(t) \/ PulseReset(t) \/ DestroyThread(t)
    BY <2>1, <2>11 DEF Notify, PulseReset, DestroyThread, Done, Goto, LocalTypes, Idle
  <2>12. CASE ReleaseSemaphore(t) \/ ResumeThread(t) \/ FreeMutant(t) \/ Finish(t) \/ End(t)
    BY <2>1, <2>12 DEF ReleaseSemaphore, ResumeThread, FreeMutant, Finish, End, Goto, LocalTypes
  <2>13. CASE BlockReturns(t) \/ BeginWait(t)
    BY <2>1, <2>13 DEF BlockReturns, BeginWait, Goto, LocalTypes, Idle
  <2>14. CASE CreateThread(t)
    BY <2>1, <2>14 DEF CreateThread, Goto, LocalTypes, Idle
  <2>18. CASE ExitThread(t)
    <3>1. pc'[t] = "finish" /\ t \in Spawned
      BY <2>18 DEF ExitThread, Goto, LocalTypes
    <3> QED BY <3>1 DEF AboutKnown
  <2>15. CASE TakeWord(t) \/ IncrementRecursion(t) \/ SeeFinished(t) \/ Join(t)
    BY <2>9, <2>15 DEF TakeWord, IncrementRecursion, SeeFinished, Join, Taken
  <2>16. CASE SingleTimesOut(t) \/ AnyTimesOut(t) \/ AnyGoesOn(t)
    <3>1. request[t].all \in BOOLEAN
      BY RequestShape DEF LocalTypes
    <3> QED BY <2>9, <2>10, <2>16, <3>1 DEF SingleTimesOut, AnyTimesOut, AnyGoesOn, Refused, WaitsForAny,
               MayTimeOut, TimedOut, PassedOver, TriesNext
  <2>17. CASE FallAsleep(t) \/ ResetEvent(t) \/ SuspendThread(t)
    BY <2>2, <2>17 DEF FallAsleep, ResetEvent, SuspendThread, Stays, callVars
  <2> QED BY <2>3, <2>4, <2>5, <2>6, <2>7, <2>8, <2>11, <2>12, <2>13, <2>14, <2>15, <2>16, <2>17, <2>18
          DEF Action, Step
<1> QED BY <1>1, <1>2

\* A take removes the unit it counts, a signal adds the units it counts, and
\* nothing but an event is ever reset.
LEMMA WordsPreserved ==
  ASSUME LocalTypes, WordTypes, SignalsConserved, \A u \in Threads : AboutKnown(u),
         NEW t \in Threads, Action(t)
  PROVE  WordTypes' /\ SignalsConserved'
<1> USE ObjectKinds
<1>1. CASE TakeWord(t)
  <2>1. PICK o \in Event \cup Semaphores :
           /\ word[o] > 0 /\ takes' = [takes EXCEPT ![o] = @ + 1] /\ signals' = signals
           /\ word' = IF o \in ManualEvents THEN word ELSE [word EXCEPT ![o] = @ - 1]
    BY <1>1 DEF TakeWord
  <2>2. WordTypes'
    BY <2>1 DEF WordTypes
  <2>3. SignalsConserved'
    BY <2>1 DEF WordTypes, SignalsConserved, Event
  <2> QED BY <2>2, <2>3
<1>2. CASE SetEvent(t)
  <2>1. PICK e \in Event :
           /\ word' = [word EXCEPT ![e] = 1] /\ signals' = [signals EXCEPT ![e] = @ + 1]
           /\ takes' = takes
    BY <1>2 DEF SetEvent
  <2> QED BY <2>1 DEF WordTypes, SignalsConserved, Event
<1>3. CASE PulseReset(t) \/ ResetEvent(t)
  <2>1. PICK e \in Event :
           word' = [word EXCEPT ![e] = 0] /\ UNCHANGED <<signals, takes>>
    BY <1>3 DEF PulseReset, ResetEvent, tally, AboutKnown
  <2> QED BY <2>1 DEF WordTypes, SignalsConserved, Event
<1>4. CASE ReleaseSemaphore(t)
  <2>1. PICK s \in Semaphores, n \in 1 .. MaxCount :
           /\ word' = [word EXCEPT ![s] = @ + n] /\ signals' = [signals EXCEPT ![s] = @ + n]
           /\ takes' = takes
    BY <1>4 DEF ReleaseSemaphore
  <2>2. n \in Nat
    BY <2>1, BoundsAssumption
  <2> QED BY <2>1, <2>2 DEF WordTypes, SignalsConserved, Event
<1>5. CASE UNCHANGED <<word, signals, takes>>
  BY <1>5 DEF WordTypes, SignalsConserved
<1> QED BY <1>1, <1>2, <1>3, <1>4, <1>5, Frames DEF WordStep

\* The recursion word goes up and down with the owner's holds; it is 0 when the
\* owner word is cleared.
LEMMA MutantsPreserved ==
  ASSUME LocalTypes, MutantTypes, MutantLedger, \A u \in Threads : AboutKnown(u),
         NEW t \in Threads, Action(t)
  PROVE  MutantTypes' /\ MutantLedger'
<1> USE ThreadsAssumption
<1>0. Kind(t)
  BY Kinds
<1>1. \A u \in Threads \ {t} : /\ Obj(u)' = Obj(u) /\ target'[u] = target[u]
                               /\ pc'[u] \in {"increment", "freeMutant"} => pc'[u] = pc[u]
  BY <1>0, OthersKeep DEF Obj
<1>2. CASE TakeOwner(t)
  <2>1. PICK m \in Mutants : /\ m = Obj(t) /\ owner[m] \in {Nobody, t}
                             /\ owner' = [owner EXCEPT ![m] = t]
    BY <1>2 DEF TakeOwner
  <2>2. /\ UNCHANGED <<recursion, held>> /\ Obj(t)' = Obj(t)
        /\ pc'[t] = "increment"
    BY <1>2 DEF TakeOwner, tally, callVars, Obj, Goto, LocalTypes
  <2>3. MutantTypes'
    BY <2>1, <2>2 DEF MutantTypes
  <2>4. /\ \A n \in Mutants : recursion[n] = IF owner'[n] = Nobody THEN 0 ELSE held[owner'[n]][n]
        /\ \A u \in Threads, n \in Mutants : held[u][n] > 0 => owner'[n] = u
    <3>1. held[t][m] = recursion[m]
      BY <2>1 DEF MutantLedger, MutantTypes
    <3> QED BY <2>1, <3>1 DEF MutantLedger, MutantTypes
  <2>5. \A u \in Threads : pc'[u] = "increment" => owner'[Obj(u)'] = u
    BY <1>1, <2>1, <2>2 DEF MutantLedger, MutantTypes, AboutKnown
  <2>6. \A u \in Threads : pc'[u] = "freeMutant" =>
                               owner'[target'[u]] = u /\ recursion[target'[u]] = 0
    BY <1>1, <2>1, <2>2 DEF MutantLedger, MutantTypes, AboutKnown
  <2> QED BY <2>2, <2>3, <2>4, <2>5, <2>6 DEF MutantLedger
<1>3. CASE IncrementRecursion(t)
  <2>1. PICK m \in Mutants : /\ m = Obj(t) /\ owner[m] = t
                             /\ recursion' = [recursion EXCEPT ![m] = @ + 1]
                             /\ held' = [held EXCEPT ![t][m] = @ + 1]
    BY <1>3 DEF IncrementRecursion, AboutKnown, MutantLedger
  <2>2. owner' = owner /\ pc'[t] \notin {"increment", "freeMutant"}
    BY <1>3 DEF IncrementRecursion, Satisfied, Return, NextObject, Goto, LocalTypes, Idle
  <2>3. MutantTypes'
    BY <2>1, <2>2 DEF MutantTypes
  <2>4. /\ \A n \in Mutants : recursion'[n] = IF owner[n] = Nobody THEN 0 ELSE held'[owner[n]][n]
        /\ \A u \in Threads, n \in Mutants : held'[u][n] > 0 => owner[n] = u
    BY <2>1 DEF MutantLedger, MutantTypes
  <2>5. \A u \in Threads : pc'[u] = "increment" => owner[Obj(u)'] = u
    BY <1>1, <2>2 DEF MutantLedger
  <2>6. \A u \in Threads : pc'[u] = "freeMutant" =>
                               owner[target'[u]] = u /\ recursion'[target'[u]] = 0
    <3>1. SUFFICES ASSUME NEW u \in Threads \ {t}, pc[u] = "freeMutant"
                   PROVE  owner[target[u]] = u /\ recursion'[target[u]] = 0
      BY <1>1, <2>2
    <3>2. target[u] \in Mutants /\ owner[target[u]] = u /\ recursion[target[u]] = 0
      BY <3>1 DEF MutantLedger, AboutKnown
    <3> QED BY <2>1, <3>2 DEF MutantTypes
  <2> QED BY <2>2, <2>3, <2>4, <2>5, <2>6 DEF MutantLedger
<1>4. CASE ReleaseMutant(t)
  <2>1. PICK m \in Mutants : /\ held[t][m] > 0 /\ target' = [target EXCEPT ![t] = m]
                             /\ recursion' = [recursion EXCEPT ![m] = @ - 1]
                             /\ held' = [held EXCEPT ![t][m] = @ - 1]
                             /\ Goto(t, IF recursion[m] = 1 THEN "freeMutant" ELSE Idle)
    BY <1>4 DEF ReleaseMutant
  <2>2. /\ owner' = owner /\ owner[m] = t /\ recursion[m] = held[t][m]
    BY <1>4, <2>1 DEF ReleaseMutant, MutantLedger, MutantTypes
  <2>3. /\ pc'[t] = "freeMutant" => recursion[m] = 1
        /\ pc'[t] # "increment" /\ target'[t] = m
    BY <2>1 DEF Goto, LocalTypes, Idle
  <2>4. MutantTypes'
    BY <2>1, <2>2 DEF MutantTypes
  <2>5. /\ \A n \in Mutants : recursion'[n] = IF owner[n] = Nobody THEN 0 ELSE held'[owner[n]][n]
        /\ \A u \in Threads, n \in Mutants : held'[u][n] > 0 => owner[n] = u
    BY <2>1, <2>2 DEF MutantLedger, MutantTypes
  <2>6. \A u \in Threads : pc'[u] = "increment" => owner[Obj(u)'] = u
    BY <1>1, <2>3 DEF MutantLedger
  <2>7. \A u \in Threads : pc'[u] = "freeMutant" =>
                               owner[target'[u]] = u /\ recursion'[target'[u]] = 0
    <3>1. CASE pc'[t] = "freeMutant"
      <4>1. ASSUME NEW u \in Threads \ {t}, pc[u] = "freeMutant"
            PROVE  owner[target[u]] = u /\ recursion'[target[u]] = 0
        <5>1. target[u] \in Mutants /\ owner[target[u]] = u /\ recursion[target[u]] = 0
          BY <4>1 DEF MutantLedger, AboutKnown
        <5> QED BY <2>1, <2>2, <5>1 DEF MutantTypes
      <4>2. owner[target'[t]] = t /\ recursion'[target'[t]] = 0
        BY <2>1, <2>2, <2>3, <3>1 DEF MutantTypes
      <4> QED BY <1>1, <4>1, <4>2
    <3>2. ASSUME NEW u \in Threads \ {t}, pc[u] = "freeMutant"
          PROVE  owner[target[u]] = u /\ recursion'[target[u]] = 0
      <4>1. target[u] \in Mutants /\ owner[target[u]] = u /\ recursion[target[u]] = 0
        BY <3>2 DEF MutantLedger, AboutKnown
      <4> QED BY <2>1, <2>2, <4>1 DEF MutantTypes
    <3> QED BY <1>1, <3>1, <3>2
  <2> QED BY <2>2, <2>4, <2>5, <2>6, <2>7 DEF MutantLedger
<1>5. CASE FreeMutant(t)
  <2>1. PICK m \in Mutants : /\ m = target[t] /\ owner[m] = t /\ recursion[m] = 0
                             /\ owner' = [owner EXCEPT ![m] = Nobody]
    BY <1>5 DEF FreeMutant, AboutKnown, MutantLedger
  <2>2. UNCHANGED <<recursion, held>> /\ pc'[t] = "notify"
    BY <1>5 DEF FreeMutant, tally, Goto, LocalTypes
  <2>3. MutantTypes'
    BY <2>1, <2>2 DEF MutantTypes
  <2>4. \A u \in Threads : held[u][m] = 0
    BY <2>1 DEF MutantLedger, MutantTypes
  <2>5. /\ \A n \in Mutants : recursion[n] = IF owner'[n] = Nobody THEN 0 ELSE held[owner'[n]][n]
        /\ \A u \in Threads, n \in Mutants : held[u][n] > 0 => owner'[n] = u
    BY <2>1, <2>4 DEF MutantLedger, MutantTypes
  <2>6. \A u \in Threads : pc'[u] = "increment" => owner'[Obj(u)'] = u
    BY <1>1, <2>1, <2>2 DEF MutantLedger, MutantTypes, AboutKnown
  <2>7. \A u \in Threads : pc'[u] = "freeMutant" =>
                               owner'[target'[u]] = u /\ recursion[target'[u]] = 0
    BY <1>1, <2>1, <2>2 DEF MutantLedger, MutantTypes, AboutKnown
  <2> QED BY <2>2, <2>3, <2>5, <2>6, <2>7 DEF MutantLedger
<1>6. CASE ~MutantStep(t)
  <2>1. UNCHANGED <<owner, recursion, held>>
    BY <1>6, Frames
  <2>2. /\ pc'[t] = "increment" => pc[t] = "increment" /\ Obj(t)' = Obj(t)
        /\ pc'[t] = "freeMutant" => pc[t] = "freeMutant" /\ target'[t] = target[t]
    <3> USE DEF LocalTypes, Goto, Idle
    <3>1. CASE Taken(t) \/ PassedOver(t) \/ TimedOut(t) \/ TriesNext(t)
      BY <3>1 DEF Taken, PassedOver, TimedOut, TriesNext, Satisfied, Return, NextObject
    <3>2. CASE SetEvent(t) \/ ReleaseSemaphore(t) \/ ResumeThread(t) \/ CloseThread(t)
      BY <3>2 DEF SetEvent, ReleaseSemaphore, ResumeThread, CloseThread
    <3>3. CASE Notify(t) \/ PulseNotify(t) \/ PulseReset(t) \/ DestroyThread(t) \/ Finish(t) \/ End(t)
      BY <3>3 DEF Notify, PulseNotify, PulseReset, DestroyThread, Finish, End, Done
    <3>4. CASE BeginJoin(t) \/ SingleBlocks(t) \/ BlockReturns(t) \/ CreateThread(t)
      BY <3>4 DEF BeginJoin, SingleBlocks, BlockReturns, CreateThread
    <3>5. CASE BeginWait(t) \/ ExitThread(t)
      BY <3>5 DEF BeginWait, ExitThread
    <3>6. CASE FallAsleep(t) \/ ResetEvent(t) \/ SuspendThread(t)
      BY <3>6 DEF FallAsleep, ResetEvent, SuspendThread, callVars, Obj
    <3>7. CASE TakeWord(t) \/ SeeFinished(t) \/ Join(t)
      BY <3>1, <3>7 DEF TakeWord, SeeFinished, Join, Taken
    <3>8. CASE SingleTimesOut(t) \/ AnyTimesOut(t) \/ AnyGoesOn(t)
      BY <3>8 DEF SingleTimesOut, AnyTimesOut, AnyGoesOn, Refused, Satisfied, Return, NextObject
    <3> QED BY <1>6, <3>2, <3>3, <3>4, <3>5, <3>6, <3>7, <3>8 DEF Action, Step, MutantStep
  <2>3. MutantTypes'
    BY <2>1 DEF MutantTypes
  <2> QED BY <1>1, <2>1, <2>2, <2>3 DEF MutantLedger
<1> QED BY <1>2, <1>3, <1>4, <1>5, <1>6 DEF MutantStep

------------------------------------------------------------------------------
(* The threads and the sleepers *)

\* A thread goes from its function to its end and not back.
LEMMA ThreadsGoOn ==
  ASSUME LocalTypes, NEW t \in Threads, Kind(t), Action(t), NEW c \in Threads
  PROVE  /\ pc[c] = "gone" => pc'[c] = "gone"
         /\ pc[c] = "end" => pc'[c] \in {"end", "gone"}
<1> USE DEF LocalTypes, Goto
<1>1. CASE c # t
  BY <1>1, OthersKeep
<1>2. CASE c = t
  <2>1. CASE \/ Taken(t) \/ PassedOver(t) \/ TimedOut(t) \/ TriesNext(t) \/ MovesInside(t)
             \/ Stays(t) \/ BeginWait(t) \/ ExitThread(t)
    BY <1>2, <2>1 DEF Taken, PassedOver, TimedOut, TriesNext, MovesInside, Stays, BeginWait,
                      ExitThread, Call, Inside, Idle
  <2>2. CASE Creates(t)
    BY <1>2, <2>2 DEF Creates
  <2>3. CASE End(t)
    BY <1>2, <2>3 DEF End
  <2>4. CASE MovesOutside(t) /\ ~End(t)
    <3>1. pc[t] = "gone" \/ pc[t] = "end" => Stays(t) \/ Creates(t)
      <4>1. CASE \/ SetEvent(t) \/ ReleaseSemaphore(t) \/ ReleaseMutant(t) \/ ResumeThread(t) \/ CloseThread(t)
                 \/ BeginWait(t) \/ ExitThread(t)
        BY <4>1 DEF SetEvent, ReleaseSemaphore, ReleaseMutant, ResumeThread, CloseThread, BeginWait,
                    ExitThread, Call, Idle
      <4>2. CASE \/ Notify(t) \/ PulseNotify(t) \/ PulseReset(t) \/ DestroyThread(t) \/ Finish(t)
                 \/ FreeMutant(t) \/ BlockReturns(t) \/ FallAsleep(t)
        BY <4>2 DEF Notify, PulseNotify, PulseReset, DestroyThread, Finish, FreeMutant, BlockReturns, FallAsleep
      <4>3. CASE \/ TakeWord(t) \/ TakeOwner(t) \/ IncrementRecursion(t) \/ SeeFinished(t)
                 \/ SingleTimesOut(t) \/ SingleBlocks(t) \/ AnyGoesOn(t) \/ AnyTimesOut(t)
                 \/ BeginJoin(t) \/ Join(t)
        BY <4>3 DEF TakeWord, TakeOwner, IncrementRecursion, SeeFinished, SingleTimesOut, SingleBlocks,
                    AnyGoesOn, AnyTimesOut, BeginJoin, Join, Refused
      <4>4. CASE ResetEvent(t) \/ SuspendThread(t) \/ CreateThread(t)
        BY <4>4 DEF ResetEvent, SuspendThread, CreateThread, Call, Idle
      <4> QED BY <2>4, <4>1, <4>2, <4>3, <4>4 DEF Action, Step
    <3> QED BY <1>2, <2>2, <3>1 DEF Stays
  <2> QED BY <2>1, <2>2, <2>3, <2>4 DEF Kind
<1> QED BY <1>1, <1>2

\* A flag is set when the thread has come that far.
LEMMA FlagsPreserved ==
  ASSUME LocalTypes, MutantTypes, FlagTypes, FlagsFollow, \A u \in Threads : AboutKnown(u),
         NEW t \in Threads, Action(t)
  PROVE  FlagTypes' /\ FlagsFollow'
<1> USE ThreadsAssumption
<1>0. Kind(t)
  BY Kinds
<1>1. \A c \in Threads : /\ pc[c] = "gone" => pc'[c] = "gone"
                         /\ pc[c] \in {"end", "gone"} => pc'[c] \in {"end", "gone"}
  BY <1>0, ThreadsGoOn
<1>2. asleep' \subseteq Threads
  BY Frames DEF SleepStep, FallAsleep, Notify, PulseNotify, WakeSleepers, FlagTypes
<1>3. /\ suspended' \subseteq Spawned
      /\ \A c \in finished' : c \in finished \/ (c \in Spawned /\ pc'[c] = "end")
      /\ \A c \in joined' : c \in joined \/ (c \in Spawned /\ pc[c] = "gone")
      /\ \A c \in closed' : \/ c \in closed
                            \/ c \in Spawned /\ (pc[c] = "gone" \/ c \in joined)
  <2>1. CASE Join(t)
    BY <2>1 DEF Join, AboutKnown, FlagTypes
  <2>2. CASE DestroyThread(t)
    BY <2>2 DEF DestroyThread, AboutKnown, FlagTypes
  <2>3. CASE Finish(t)
    <3>1. t \in Spawned
      BY <2>3 DEF Finish, AboutKnown
    <3> QED BY <2>3, <3>1 DEF Finish, Goto, LocalTypes, FlagTypes, threadVars
  <2>4. CASE CreateThread(t) \/ SuspendThread(t) \/ ResumeThread(t)
    BY <2>4 DEF CreateThread, SuspendThread, ResumeThread, Handles, FlagTypes
  <2>5. CASE UNCHANGED <<suspended, finished, joined, closed>>
    BY <2>5 DEF FlagTypes
  <2> QED BY <2>1, <2>2, <2>3, <2>4, <2>5, Frames DEF FlagStep
<1> QED BY <1>1, <1>2, <1>3 DEF FlagTypes, FlagsFollow

\* A wait takes a thread that has ended; a join one that runs nothing any more.
LEMMA TakenThreadsPreserved ==
  ASSUME LocalTypes, MutantTypes, FlagTypes, FlagsFollow, TakenThreadsOver,
         \A u \in Threads : AboutKnown(u), NEW t \in Threads, Action(t)
  PROVE  TakenThreadsOver'
<1>0. Kind(t)
  BY Kinds
<1>1. \A c \in Spawned : /\ pc[c] = "gone" => pc'[c] = "gone"
                         /\ pc[c] = "end" => pc'[c] \in {"end", "gone"}
  BY <1>0, ThreadsGoOn, ThreadsAssumption
<1>2. ASSUME NEW u \in Threads, NEW c \in Spawned, c \in Range(got[u]), request'[u] = request[u]
      PROVE  pc'[c] = "gone" \/ (pc'[c] = "end" /\ ~Joins(request[u]))
  BY <1>1, <1>2 DEF TakenThreadsOver
<1>3. ASSUME NEW u \in Threads \ {t}, NEW c \in Spawned, c \in Range(got'[u])
      PROVE  pc'[c] = "gone" \/ (pc'[c] = "end" /\ ~Joins(request'[u]))
  <2>1. got'[u] = got[u] /\ request'[u] = request[u]
    BY <1>0, OthersKeep
  <2> QED BY <1>2, <1>3, <2>1
<1>4. ASSUME NEW c \in Spawned, c \in Range(got'[t])
      PROVE  pc'[c] = "gone" \/ (pc'[c] = "end" /\ ~Joins(request'[t]))
  <2>1. CASE got'[t] = got[t] /\ request'[t] = request[t]
    BY <1>2, <1>4, <2>1
  <2>2. CASE got'[t] = <<>>
    BY <1>4, <2>2 DEF Range
  <2>3. CASE /\ got'[t] = Append(got[t], Obj(t)) /\ request'[t] = request[t]
             /\ Obj(t) = c => pc[c] = "gone" \/ (pc[c] \in {"end", "gone"} /\ ~Joins(request[t]))
    <3>1. got[t] \in Seq(Object) /\ Obj(t) \in Object
      BY RequestShape DEF LocalTypes, Obj
    <3>2. c \in Range(got[t]) \/ c = Obj(t)
      <4>1. PICK j \in 1 .. Len(got[t]) + 1 : got'[t][j] = c
        BY <1>4, <2>3, <3>1, AppendProperties DEF Range
      <4> QED BY <2>3, <3>1, <4>1, AppendProperties DEF Range
    <3> QED BY <1>1, <1>2, <2>3, <3>2
  <2>4. CASE TakeWord(t) \/ IncrementRecursion(t)
    <3>1. Obj(t) \notin Spawned
      BY <2>4, ObjectKinds DEF TakeWord, IncrementRecursion, AboutKnown
    <3> QED BY <2>3, <2>4, <3>1 DEF TakeWord, IncrementRecursion, LocalTypes
  <2>5. CASE SeeFinished(t)
    BY <2>3, <2>5 DEF SeeFinished, LocalTypes, FlagsFollow
  <2>6. CASE Join(t)
    BY <2>3, <2>6 DEF Join, LocalTypes, FlagsFollow
  <2>7. CASE BeginWait(t) \/ ExitThread(t)
    BY <2>2, <2>7 DEF BeginWait, ExitThread, LocalTypes
  <2>8. CASE UNCHANGED <<request, got>>
    BY <2>1, <2>8
  <2>9. CASE \/ TakeOwner(t) \/ SingleTimesOut(t) \/ SingleBlocks(t) \/ FallAsleep(t) \/ BlockReturns(t)
             \/ AnyGoesOn(t) \/ AnyTimesOut(t) \/ BeginJoin(t)
    BY <2>8, <2>9 DEF TakeOwner, SingleTimesOut, SingleBlocks, FallAsleep, BlockReturns, AnyGoesOn,
                      AnyTimesOut, BeginJoin, callVars
  <2>10. CASE \/ Notify(t) \/ PulseNotify(t) \/ PulseReset(t) \/ ReleaseMutant(t) \/ FreeMutant(t)
              \/ DestroyThread(t) \/ Finish(t) \/ End(t)
    BY <2>8, <2>10 DEF Notify, PulseNotify, PulseReset, ReleaseMutant, FreeMutant, DestroyThread,
                       Finish, End, callVars
  <2>11. CASE \/ SetEvent(t) \/ ResetEvent(t) \/ ReleaseSemaphore(t) \/ CreateThread(t)
              \/ SuspendThread(t) \/ ResumeThread(t) \/ CloseThread(t)
    BY <2>8, <2>11 DEF SetEvent, ResetEvent, ReleaseSemaphore, CreateThread, SuspendThread,
                       ResumeThread, CloseThread, callVars
  <2> QED BY <2>4, <2>5, <2>6, <2>7, <2>9, <2>10, <2>11 DEF Action, Step
<1> QED BY <1>3, <1>4 DEF TakenThreadsOver

\* A sleeper makes no step itself; one that is about to call notify does that.
LEMMA Places ==
  ASSUME NEW t \in Threads, Action(t)
  PROVE  /\ pc[t] \in {"block", "start"} => t \notin asleep
         /\ pc[t] \in {"notify", "pulseNotify"} => Notify(t) \/ PulseNotify(t)
<1>1. CASE FallAsleep(t) \/ BlockReturns(t)
  BY <1>1 DEF FallAsleep, BlockReturns
<1>2. CASE Notify(t) \/ PulseNotify(t)
  BY <1>2 DEF Notify, PulseNotify
<1>3. CASE \/ TakeWord(t) \/ TakeOwner(t) \/ IncrementRecursion(t) \/ SeeFinished(t) \/ BeginJoin(t)
           \/ Join(t) \/ SingleTimesOut(t) \/ SingleBlocks(t) \/ AnyGoesOn(t) \/ AnyTimesOut(t)
  BY <1>3 DEF TakeWord, TakeOwner, IncrementRecursion, SeeFinished, BeginJoin, Join, SingleTimesOut,
              SingleBlocks, AnyGoesOn, AnyTimesOut, Refused
<1>4. CASE \/ PulseReset(t) \/ ReleaseMutant(t) \/ FreeMutant(t) \/ DestroyThread(t) \/ Finish(t) \/ End(t)
  BY <1>4 DEF PulseReset, ReleaseMutant, FreeMutant, DestroyThread, Finish, End, Idle
<1>5. CASE \/ BeginWait(t) \/ SetEvent(t) \/ ResetEvent(t) \/ ReleaseSemaphore(t) \/ CreateThread(t)
           \/ SuspendThread(t) \/ ResumeThread(t) \/ CloseThread(t) \/ ExitThread(t)
  BY <1>5 DEF BeginWait, SetEvent, ResetEvent, ReleaseSemaphore, CreateThread, SuspendThread,
              ResumeThread, CloseThread, ExitThread, Call, Idle
<1> QED BY <1>1, <1>2, <1>3, <1>4, <1>5 DEF Action, Step

\* What a sleeper waits for comes true only in a step that leaves its thread at
\* the notify for that sleeper.
LEMMA SignalsAnnounced ==
  ASSUME LocalTypes, WordTypes, MutantTypes, \A v \in Threads : AboutKnown(v),
         NEW t \in Threads, Action(t), NEW u \in Threads \ {t}, pc[u] \in {"block", "start"},
         Unchanged(u), ~Unchanged(u)'
  PROVE  pc'[t] \in {"notify", "pulseNotify"} /\ target'[t] = SleepsOn(u)
<1>0. Kind(t)
  BY Kinds
<1>1. pc'[u] = pc[u] /\ Obj(u)' = Obj(u) /\ expected'[u] = expected[u]
  BY <1>0, OthersKeep DEF Obj
<1>2. Obj(u) \in Object
  BY RequestShape DEF LocalTypes, Obj
<1>3. CASE pc[u] = "start"
  <2>1. u \in suspended /\ u \notin suspended'
    BY <1>1, <1>3 DEF Unchanged
  <2>2. ResumeThread(t)
    BY <2>1, Frames DEF FlagStep, Join, DestroyThread, Finish, CreateThread, SuspendThread, threadVars
  <2>3. pc'[t] = "notify" /\ target'[t] = u
    BY <2>1, <2>2 DEF ResumeThread, Goto, LocalTypes
  <2> QED BY <1>3, <2>3 DEF SleepsOn
<1>4. CASE pc[u] = "block" /\ Obj(u) \in Mutants
  <2>1. /\ owner[Obj(u)] = expected[u] /\ owner'[Obj(u)] # expected[u] /\ expected[u] # Nobody
    BY <1>1, <1>4 DEF Unchanged, AboutKnown
  <2>2. FreeMutant(t) \/ TakeOwner(t)
    BY <2>1, Frames DEF MutantStep, IncrementRecursion, ReleaseMutant
  <2>3. ~TakeOwner(t)
    BY <1>4, <2>1 DEF TakeOwner, MutantTypes
  <2>4. FreeMutant(t) /\ target[t] = Obj(u) /\ target' = target
    BY <1>4, <2>1, <2>2, <2>3 DEF FreeMutant, MutantTypes, callVars
  <2>5. pc'[t] = "notify"
    BY <2>4 DEF FreeMutant, Goto, LocalTypes
  <2> QED BY <1>4, <2>4, <2>5 DEF SleepsOn
<1>5. CASE pc[u] = "block" /\ Obj(u) \notin Mutants
  <2>1. Obj(u) \in Event \cup Semaphores
    BY <1>2, <1>5 DEF AboutKnown, Object
  <2>2. word[Obj(u)] = 0 /\ word'[Obj(u)] # 0
    BY <1>1, <1>5 DEF Unchanged
  <2>3. ~TakeWord(t)
    BY <2>1, <2>2 DEF TakeWord, WordTypes
  <2>4. ~PulseReset(t) /\ ~ResetEvent(t)
    BY <2>1, <2>2 DEF PulseReset, ResetEvent, WordTypes
  <2>5. CASE SetEvent(t)
    BY <1>5, <2>1, <2>2, <2>5 DEF SetEvent, WordTypes, LocalTypes, SleepsOn
  <2>6. CASE ReleaseSemaphore(t)
    BY <1>5, <2>1, <2>2, <2>6 DEF ReleaseSemaphore, WordTypes, LocalTypes, SleepsOn, Goto
  <2> QED BY <2>2, <2>3, <2>4, <2>5, <2>6, Frames DEF WordStep
<1> QED BY <1>3, <1>4, <1>5

\* A sleeper is woken before its signal is forgotten.
LEMMA SleepersPreserved ==
  ASSUME LocalTypes, WordTypes, MutantTypes, FlagTypes, \A v \in Threads : AboutKnown(v),
         SleepersBlocked, NoStrandedWaiter, NEW t \in Threads, Action(t)
  PROVE  SleepersBlocked' /\ NoStrandedWaiter'
<1> DEFINE Announced(u) == \E v \in Threads :
                              pc[v] \in {"notify", "pulseNotify"} /\ target[v] = SleepsOn(u)
<1>0. Kind(t)
  BY Kinds
<1>1. \A u \in asleep : u \in Threads \ {t} /\ pc[u] \in {"block", "start"}
  BY Places DEF SleepersBlocked, FlagTypes
<1>2. \A u \in asleep : pc'[u] = pc[u] /\ SleepsOn(u)' = SleepsOn(u)
  BY <1>0, <1>1, OthersKeep DEF SleepsOn, Obj
<1>3. CASE FallAsleep(t)
  <2>1. /\ UNCHANGED <<objects, pc, callVars>> /\ asleep' = asleep \cup {t} /\ Unchanged(t)
        /\ pc[t] \in {"block", "start"}
    BY <1>3 DEF FallAsleep
  <2>2. \A u \in Threads : (Unchanged(u)' <=> Unchanged(u)) /\ (Announced(u)' <=> Announced(u))
    BY <2>1 DEF Unchanged, Obj, SleepsOn, objects, callVars, threadVars
  <2>3. \A u \in asleep' : ~Unchanged(u) => Announced(u)
    BY <2>1 DEF NoStrandedWaiter
  <2>4. SleepersBlocked'
    BY <1>1, <2>1 DEF SleepersBlocked
  <2> QED BY <2>1, <2>2, <2>3, <2>4 DEF NoStrandedWaiter, FlagTypes
<1>4. CASE ~FallAsleep(t)
  <2>1. asleep' \subseteq asleep
    BY <1>4, Frames DEF SleepStep, Notify, PulseNotify, WakeSleepers
  <2>2. SleepersBlocked'
    BY <1>1, <1>2, <2>1 DEF SleepersBlocked
  <2>3. ASSUME NEW u \in asleep', ~Unchanged(u)'
        PROVE  Announced(u)'
    <3>1. u \in asleep /\ u \in Threads \ {t} /\ pc[u] \in {"block", "start"}
      BY <1>1, <2>1, <2>3
    <3>2. CASE Unchanged(u)
      <4>1. pc'[t] \in {"notify", "pulseNotify"} /\ target'[t] = SleepsOn(u)'
        BY <1>2, <2>3, <3>1, <3>2, SignalsAnnounced
      <4> QED BY <4>1
    <3>3. CASE ~Unchanged(u)
      <4>1. PICK v \in Threads : pc[v] \in {"notify", "pulseNotify"} /\ target[v] = SleepsOn(u)
        BY <3>1, <3>3 DEF NoStrandedWaiter
      <4>2. v # t
        <5>1. SUFFICES ASSUME v = t PROVE FALSE
          OBVIOUS
        <5>2. WakeSleepers(t)
          BY <4>1, <5>1, Places DEF Notify, PulseNotify
        <5> QED BY <2>3, <4>1, <5>1, <5>2 DEF WakeSleepers
      <4>3. pc'[v] = pc[v] /\ target'[v] = target[v]
        BY <1>0, <4>1, <4>2, OthersKeep
      <4> QED BY <1>2, <3>1, <4>1, <4>3
    <3> QED BY <3>2, <3>3
  <2> QED BY <2>2, <2>3 DEF NoStrandedWaiter
<1> QED BY <1>3, <1>4

------------------------------------------------------------------------------
(* The theorems *)

\* Nobody has called anything and no object has been signalled.
LEMMA Initially == Init => IInv
<1> SUFFICES ASSUME Init PROVE IInv
  OBVIOUS
<1> USE Somewhere, ThreadsAssumption DEF Init
<1>1. 1 \in 1 .. Len(AnyRequest.objs)
  BY RequestShape
<1>2. pc \in [Threads -> {"unborn", Idle}] /\ \A t \in Threads : pc[t] \in {"unborn", "idle"}
  BY DEF Idle
<1>3. \A t \in Threads : got[t] = <<>> /\ result[t] = "none"
  OBVIOUS
<1>4. LocalTypes
  BY <1>1, <1>2, EmptySeq DEF LocalTypes, Idle
<1>5. WordTypes /\ SignalsConserved
  BY ObjectKinds DEF WordTypes, SignalsConserved, Event
<1>6. MutantTypes /\ FlagTypes
  BY DEF MutantTypes, FlagTypes
<1>7. MutantLedger
  <2>1. \A m \in Mutants : recursion[m] = 0 /\ owner[m] = Nobody
    OBVIOUS
  <2>2. \A t \in Threads, m \in Mutants : held[t][m] = 0
    OBVIOUS
  <2>3. \A t \in Threads : pc[t] # "increment" /\ pc[t] # "freeMutant"
    BY <1>2
  <2> QED BY <2>1, <2>2, <2>3 DEF MutantLedger
<1>8. \A t \in Threads : AboutKnown(t) /\ Progress(t)
  BY <1>2, <1>3 DEF AboutKnown, Progress, Inside
<1>9. FlagsFollow /\ TakenThreadsOver
  BY <1>3 DEF FlagsFollow, TakenThreadsOver, Range
<1>10. SleepersBlocked /\ NoStrandedWaiter
  BY DEF SleepersBlocked, NoStrandedWaiter
<1> QED BY <1>4, <1>5, <1>6, <1>7, <1>8, <1>9, <1>10 DEF IInv

\* A step in which nothing changes.
LEMMA NothingHappens == IInv /\ UNCHANGED vars => IInv'
<1> SUFFICES ASSUME IInv, UNCHANGED vars PROVE IInv'
  OBVIOUS
<1> USE DEF vars, objects, callVars, tally, threadVars
<1>1. LocalTypes' /\ WordTypes'
  BY DEF IInv, LocalTypes, WordTypes
<1>2. MutantTypes' /\ FlagTypes'
  BY DEF IInv, MutantTypes, FlagTypes
<1>3. SignalsConserved' /\ MutantLedger'
  BY DEF IInv, SignalsConserved, MutantLedger, Obj
<1>4. \A t \in Threads : AboutKnown(t)' /\ Progress(t)'
  BY DEF IInv, AboutKnown, Progress, Obj
<1>5. FlagsFollow' /\ TakenThreadsOver'
  BY DEF IInv, FlagsFollow, TakenThreadsOver
<1>6. SleepersBlocked' /\ NoStrandedWaiter'
  <2>1. \A t \in Threads : Unchanged(t)' <=> Unchanged(t)
    BY DEF Unchanged, Obj
  <2> QED BY <2>1 DEF IInv, SleepersBlocked, NoStrandedWaiter, SleepsOn, Obj, FlagTypes
<1> QED BY <1>1, <1>2, <1>3, <1>4, <1>5, <1>6 DEF IInv

\* Together the parts are inductive.
THEOREM Invariance == Spec => []IInv
<1>1. Init => IInv
  BY Initially
<1>2. IInv /\ [Next]_vars => IInv'
  <2>1. ASSUME IInv, Next
        PROVE  IInv'
    <3>1. PICK t \in Threads : Action(t)
      BY <2>1 DEF Next, Action
    <3>2. /\ LocalTypes /\ WordTypes /\ MutantTypes /\ FlagTypes /\ SignalsConserved /\ MutantLedger
          /\ FlagsFollow /\ TakenThreadsOver /\ SleepersBlocked /\ NoStrandedWaiter
          /\ (\A u \in Threads : AboutKnown(u)) /\ (\A u \in Threads : Progress(u))
      BY <2>1 DEF IInv
    <3>3. Kind(t)
      BY <3>1, <3>2, Kinds
    <3>4. LocalTypes' /\ \A u \in Threads : Progress(u)'
      BY <3>2, <3>3, LocalTypesPreserved, ProgressPreserved
    <3>5. \A u \in Threads : AboutKnown(u)'
      BY <3>1, <3>2, AboutPreserved
    <3>6. WordTypes' /\ SignalsConserved'
      BY <3>1, <3>2, WordsPreserved
    <3>7. MutantTypes' /\ MutantLedger'
      BY <3>1, <3>2, MutantsPreserved
    <3>8. FlagTypes' /\ FlagsFollow'
      BY <3>1, <3>2, FlagsPreserved
    <3>9. TakenThreadsOver'
      BY <3>1, <3>2, TakenThreadsPreserved
    <3>10. SleepersBlocked' /\ NoStrandedWaiter'
      BY <3>1, <3>2, SleepersPreserved
    <3> QED BY <3>4, <3>5, <3>6, <3>7, <3>8, <3>9, <3>10 DEF IInv
  <2> QED BY <2>1, NothingHappens
<1> QED BY <1>1, <1>2, PTL DEF Spec

\* The variables of the dispatcher objects keep their types.
THEOREM TypeCorrect == Spec => []TypeOK
<1>1. IInv => TypeOK
  <2> SUFFICES ASSUME IInv PROVE TypeOK
    OBVIOUS
  <2>1. \A t \in Threads : k[t] \in DOMAIN request[t].objs
    BY RequestShape DEF IInv, LocalTypes
  <2>2. {suspended, finished, joined, closed} \subseteq SUBSET Spawned
    BY DEF IInv, FlagTypes
  <2> QED BY <2>1, <2>2 DEF IInv, LocalTypes, WordTypes, MutantTypes, FlagTypes, TypeOK
<1> QED BY <1>1, Invariance, PTL

\* No unit of a semaphore and no signal of an auto-reset event is made up by
\* the guest's waits or satisfies two of them.
THEOREM Conservation == Spec => []SignalsConserved
<1>1. IInv => SignalsConserved
  BY DEF IInv
<1> QED BY <1>1, Invariance, PTL

\* KeWaitForSingleObject and KeWaitForMultipleObjects report what they took, and
\* a thread that was waited for is over.
THEOREM Results == Spec => []ResultTellsWhatWasTaken
<1>1. IInv => ResultTellsWhatWasTaken
  <2> SUFFICES ASSUME IInv PROVE ResultTellsWhatWasTaken
    OBVIOUS
  <2>1. \A c \in closed : pc[c] = "gone"
    BY DEF IInv, FlagsFollow
  <2>2. \A t \in Threads, c \in Spawned :
           c \in Range(got[t]) => pc[c] = "gone" \/ (pc[c] = "end" /\ ~Joins(request[t]))
    BY DEF IInv, TakenThreadsOver
  <2>3. ASSUME NEW t \in Threads
        PROVE  /\ result[t] = "timeout" => got[t] = <<>>
               /\ result[t] = "success" /\ ~request[t].all => Len(got[t]) = 1
               /\ result[t] = "success" /\ request[t].all /\ request[t].timeout = "infinite" =>
                     got[t] = request[t].objs
    <3>1. Progress(t) /\ got[t] \in Seq(Object) /\ request[t] \in Requests
      BY DEF IInv, LocalTypes
    <3>2. request[t].objs \in Seq(Object)
      BY <3>1, RequestShape
    <3>3. ASSUME result[t] = "success", request[t].all, request[t].timeout = "infinite"
          PROVE  got[t] = request[t].objs
      BY <3>1, <3>2, <3>3, SeqEqual DEF Progress
    <3> QED BY <3>1, <3>3 DEF Progress
  <2> QED BY <2>1, <2>2, <2>3 DEF ResultTellsWhatWasTaken
<1> QED BY <1>1, Invariance, PTL

\* Who holds a mutant owns it and owes as many releases as the recursion count
\* says, although owner and count are two words.
THEOREM MutantAccount == Spec => []MutantExact
<1>1. IInv => MutantExact
  <2> SUFFICES ASSUME IInv, NEW t \in Threads, NEW m \in Mutants, held[t][m] > 0
               PROVE  owner[m] = t /\ recursion[m] = held[t][m]
    BY DEF MutantExact
  <2>1. owner[m] = t
    BY DEF IInv, MutantLedger
  <2> QED BY <2>1, ThreadsAssumption DEF IInv, MutantLedger
<1> QED BY <1>1, Invariance, PTL

\* No wake-up is lost between the test of an object, the sleep in atomic::wait,
\* the store and notify_all, whatever the numbers of waiters and signallers.
THEOREM NoLostWakeup == Spec => []NoStrandedWaiter
<1>1. IInv => NoStrandedWaiter
  BY DEF IInv
<1> QED BY <1>1, Invariance, PTL

------------------------------------------------------------------------------
(* Each mutant as a recursive lock *)

\* A mutant begins as a free lock.
LEMMA InitRefines ==
  ASSUME Init, NEW m \in Mutants
  PROVE  MutantLock(m)!Init
<1>1. owner[m] = Nobody /\ recursion[m] = 0
  BY DEF Init
<1>2. Depth(m) = [t \in Threads |-> 0]
  BY <1>1 DEF Depth
<1> QED BY <1>2 DEF MutantLock!Init

\* The lock is taken with the count and given back with it; the owner word
\* changes where the count is 0.
LEMMA StepRefines ==
  ASSUME MutantTypes, MutantLedger, \A u \in Threads : AboutKnown(u),
         NEW t \in Threads, Action(t), NEW m \in Mutants
  PROVE  [MutantLock(m)!Next]_(Depth(m))
<1> USE ThreadsAssumption
<1>1. CASE TakeOwner(t)
  <2>1. /\ Obj(t) \in Mutants /\ owner[Obj(t)] \in {Nobody, t}
        /\ owner' = [owner EXCEPT ![Obj(t)] = t] /\ recursion' = recursion
    BY <1>1 DEF TakeOwner
  <2>2. owner[Obj(t)] = Nobody => recursion[Obj(t)] = 0
    BY <2>1 DEF MutantLedger
  <2>3. ASSUME NEW u \in Threads
        PROVE  (IF owner'[m] = u THEN recursion'[m] ELSE 0) = (IF owner[m] = u THEN recursion[m] ELSE 0)
    BY <2>1, <2>2 DEF MutantTypes
  <2> QED BY <2>3 DEF Depth
<1>2. CASE IncrementRecursion(t)
  <2>1. PICK n \in Mutants : n = Obj(t) /\ owner[n] = t /\ recursion' = [recursion EXCEPT ![n] = @ + 1]
    BY <1>2 DEF IncrementRecursion, AboutKnown, MutantLedger
  <2>2. owner' = owner
    BY <1>2 DEF IncrementRecursion
  <2>3. CASE m = n
    <3>1. Depth(m)' = [Depth(m) EXCEPT ![t] = @ + 1]
      BY <2>1, <2>2, <2>3 DEF Depth, MutantTypes
    <3>2. \A u \in Threads \ {t} : Depth(m)[u] = 0
      BY <2>1, <2>3 DEF Depth
    <3> QED BY <3>1, <3>2 DEF MutantLock!Next, MutantLock!Acquire
  <2>4. CASE m # n
    BY <2>1, <2>2, <2>4 DEF Depth, MutantTypes
  <2> QED BY <2>3, <2>4
<1>3. CASE ReleaseMutant(t)
  <2>1. PICK n \in Mutants : held[t][n] > 0 /\ recursion' = [recursion EXCEPT ![n] = @ - 1]
    BY <1>3 DEF ReleaseMutant
  <2>2. owner' = owner /\ owner[n] = t /\ recursion[n] = held[t][n] /\ recursion[n] > 0
    BY <1>3, <2>1 DEF ReleaseMutant, MutantLedger, MutantTypes
  <2>3. CASE m = n
    <3>1. Depth(m)' = [Depth(m) EXCEPT ![t] = @ - 1]
      BY <2>1, <2>2, <2>3 DEF Depth, MutantTypes
    <3>2. Depth(m)[t] > 0
      BY <2>2, <2>3 DEF Depth
    <3> QED BY <3>1, <3>2 DEF MutantLock!Next, MutantLock!Release
  <2>4. CASE m # n
    BY <2>1, <2>2, <2>4 DEF Depth, MutantTypes
  <2> QED BY <2>3, <2>4
<1>4. CASE FreeMutant(t)
  <2>1. /\ target[t] \in Mutants /\ owner[target[t]] = t /\ recursion[target[t]] = 0
        /\ owner' = [owner EXCEPT ![target[t]] = Nobody] /\ recursion' = recursion
    BY <1>4 DEF FreeMutant, AboutKnown, MutantLedger
  <2>2. ASSUME NEW u \in Threads
        PROVE  (IF owner'[m] = u THEN recursion'[m] ELSE 0) = (IF owner[m] = u THEN recursion[m] ELSE 0)
    BY <2>1 DEF MutantTypes
  <2> QED BY <2>2 DEF Depth
<1>5. CASE ~MutantStep(t)
  <2>1. UNCHANGED <<owner, recursion>>
    BY <1>5, Frames
  <2> QED BY <2>1 DEF Depth
<1> QED BY <1>1, <1>2, <1>3, <1>4, <1>5 DEF MutantStep

\* Whatever the threads, the objects and the waits: NtReleaseMutant and every
\* kind of wait make of a mutant's two words the lock that a guest critical
\* section is too.
THEOREM MutantsRefine == Spec => MutantsAreLocks
<1> DEFINE Steps == \A m \in Mutants : [MutantLock(m)!Next]_(Depth(m))
           Free == \A m \in Mutants : MutantLock(m)!Init
<1>1. Init => Free
  BY InitRefines
<1>2. IInv /\ [Next]_vars => [Steps]_vars
  <2> SUFFICES ASSUME IInv, Next PROVE Steps
    OBVIOUS
  <2>1. PICK t \in Threads : Action(t)
    BY DEF Next, Action
  <2> QED BY <2>1, StepRefines DEF IInv
<1> HIDE DEF Steps, Free
<1>3. Spec => Free /\ [][Steps]_vars
  BY <1>1, <1>2, Invariance, PTL DEF Spec
<1> QED BY <1>3 DEF MutantsAreLocks, Steps, Free
==============================================================================
