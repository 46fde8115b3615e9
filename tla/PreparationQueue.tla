--------------------------- MODULE PreparationQueue ---------------------------
(* RunBounded of gpu/shader/preparation_queue.h: workers prepare shader jobs  *)
(* and hand the results to the caller over a bounded queue; the caller        *)
(* consumes them and may stop early.                                          *)
(*                                                                            *)
(* Steps are those between which another thread can be seen: the atomics next *)
(* and cancelled are accessed outside the mutex, everything else under it.    *)
(* The predicate of the workers' wait and the sleep that follows it are two   *)
(* steps, the mutex held across both.  The caller's wait_for(10 ms) is a poll *)
(* that always comes back: a round that finds nothing runs idle and repeats.  *)
(* A job's result is the job's index.  Prepare, consume and idle may throw.   *)
EXTENDS Integers, Sequences, FiniteSets

CONSTANTS
    Workers,    \* the threads RunBounded tries to start (requestedWorkers)
    Jobs,       \* how many jobs
    Capacity,   \* most results waiting in the queue
    Nobody      \* the mutex is free

ASSUME WorkersAssumption == IsFiniteSet(Workers) /\ Nobody \notin Workers
ASSUME SizesAssumption   == Jobs \in Nat \ {0} /\ Capacity \in Nat \ {0}
ASSUME CallerAssumption  == "caller" \notin Workers /\ Nobody # "caller"

Caller == "caller"
Job == 0 .. Jobs - 1

VARIABLES
    next, cancelled,        \* the two atomics
    mutex,                  \* its holder
    ready,                  \* results in the queue
    asleep,                 \* workers blocked in changed.wait
    workerFailure,          \* a worker's exception was recorded
    at,                     \* where each worker is
    job,                    \* the job a worker has claimed
    caller,                 \* where the caller is
    taken,                  \* results consume has been given, in order
    consumed, statsCancelled, threw     \* stats.consumed, stats.cancelled, an exception is in flight

shared == <<next, cancelled, mutex, ready, asleep, workerFailure>>
workerVars == <<at, job>>
callerVars == <<caller, taken, consumed, statsCancelled, threw>>
vars == <<shared, workerVars, callerVars>>

WorkerGoto(w, place) == at' = [at EXCEPT ![w] = place]

Started == {w \in Workers : at[w] # "notStarted"}
Ended == {"returned", "threw"}

Init ==
    /\ next = 0 /\ cancelled = FALSE /\ mutex = Nobody
    /\ ready = <<>> /\ asleep = {} /\ workerFailure = FALSE
    /\ at = [w \in Workers |-> "notStarted"]
    /\ job = [w \in Workers |-> 0]
    /\ caller = "launch" /\ taken = <<>>
    /\ consumed = 0 /\ statsCancelled = FALSE /\ threw = FALSE

------------------------------------------------------------------------------
(* A worker *)

CheckCancelled(w) ==
    /\ at[w] = "check"
    /\ WorkerGoto(w, IF cancelled THEN "done" ELSE "claim")
    /\ UNCHANGED <<shared, job, callerVars>>

\* fault: the index is read and advanced in two steps
ClaimUnadvanced(w) ==
    /\ at[w] = "claim"
    /\ job' = [job EXCEPT ![w] = next]
    /\ next' = IF \E v \in Workers \ {w} : at[v] = "claim" THEN next ELSE next + 1
    /\ WorkerGoto(w, IF next < Jobs THEN "prepare" ELSE "done")
    /\ UNCHANGED <<cancelled, mutex, ready, asleep, workerFailure, callerVars>>

Claim(w) ==
    /\ at[w] = "claim"
    /\ job' = [job EXCEPT ![w] = next]
    /\ next' = next + 1
    /\ WorkerGoto(w, IF next < Jobs THEN "prepare" ELSE "done")
    /\ UNCHANGED <<cancelled, mutex, ready, asleep, workerFailure, callerVars>>

Prepare(w) ==
    /\ at[w] = "prepare"
    /\ WorkerGoto(w, "lock")
    /\ UNCHANGED <<shared, job, callerVars>>

PrepareThrows(w) ==
    /\ at[w] = "prepare"
    /\ WorkerGoto(w, "fail")
    /\ UNCHANGED <<shared, job, callerVars>>

\* Also how a woken worker comes back: changed.wait takes the mutex again.
Lock(w) ==
    /\ at[w] = "lock" /\ w \notin asleep /\ mutex = Nobody
    /\ mutex' = w
    /\ WorkerGoto(w, "test")
    /\ UNCHANGED <<next, cancelled, ready, asleep, workerFailure, job, callerVars>>

\* fault: one result too many
HasRoomPlusOne == Len(ready) <= Capacity

HasRoom == Len(ready) < Capacity

\* The predicate is false: the worker is going to sleep, but still holds the mutex.
TestFails(w) ==
    /\ at[w] = "test" /\ ~cancelled /\ ~HasRoom
    /\ WorkerGoto(w, "fallAsleep")
    /\ UNCHANGED <<shared, job, callerVars>>

\* Releasing the mutex and going to sleep are one step of the condition variable.
FallAsleep(w) ==
    /\ at[w] = "fallAsleep"
    /\ asleep' = asleep \cup {w}
    /\ mutex' = Nobody
    /\ WorkerGoto(w, "lock")
    /\ UNCHANGED <<next, cancelled, ready, workerFailure, job, callerVars>>

TestCancelled(w) ==
    /\ at[w] = "test" /\ cancelled
    /\ mutex' = Nobody
    /\ WorkerGoto(w, "done")
    /\ UNCHANGED <<next, cancelled, ready, asleep, workerFailure, job, callerVars>>

Push(w) ==
    /\ at[w] = "test" /\ ~cancelled /\ HasRoom
    /\ ready' = Append(ready, job[w])
    /\ mutex' = Nobody
    /\ WorkerGoto(w, "notify")
    /\ UNCHANGED <<next, cancelled, asleep, workerFailure, job, callerVars>>

PushNotifies(w) ==
    /\ at[w] = "notify"
    /\ asleep' = {}
    /\ WorkerGoto(w, "check")
    /\ UNCHANGED <<next, cancelled, mutex, ready, workerFailure, job, callerVars>>

\* fault: the exception is swallowed
FailSilently(w) ==
    /\ at[w] = "fail" /\ mutex = Nobody
    /\ cancelled' = TRUE /\ asleep' = {}
    /\ WorkerGoto(w, "done")
    /\ UNCHANGED <<next, mutex, ready, workerFailure, job, callerVars>>

\* fail() holds the mutex over the store and the notification.
Fail(w) ==
    /\ at[w] = "fail" /\ mutex = Nobody
    /\ workerFailure' = TRUE
    /\ cancelled' = TRUE /\ asleep' = {}
    /\ WorkerGoto(w, "done")
    /\ UNCHANGED <<next, mutex, ready, job, callerVars>>

Worker(w) ==
    \/ CheckCancelled(w) \/ Claim(w) \/ Prepare(w) \/ PrepareThrows(w)
    \/ Lock(w) \/ TestFails(w) \/ FallAsleep(w) \/ TestCancelled(w)
    \/ Push(w) \/ PushNotifies(w) \/ Fail(w)

------------------------------------------------------------------------------
(* The caller *)

LaunchOne ==
    /\ caller = "launch"
    /\ \E w \in Workers \ Started : WorkerGoto(w, "check")
    /\ UNCHANGED <<shared, job, callerVars>>

\* Every worker runs, or starting one failed; with none at all the caller does
\* the jobs itself.
LaunchEnds ==
    /\ caller = "launch"
    /\ caller' = IF Started = {} THEN "serial" ELSE "loop"
    /\ UNCHANGED <<shared, workerVars, taken, consumed, statsCancelled, threw>>

\* An exception other than system_error: CancelBeforeWorkersJoin cancels, and
\* the threads started so far are joined on the way out.
LaunchThrows ==
    /\ caller = "launch"
    /\ threw' = TRUE
    /\ caller' = "cancel"
    /\ UNCHANGED <<shared, workerVars, taken, consumed, statsCancelled>>

SerialThrows ==
    /\ caller = "serial" /\ consumed < Jobs
    /\ threw' = TRUE
    /\ caller' = "cancel"
    /\ UNCHANGED <<shared, workerVars, taken, consumed, statsCancelled>>

\* prepare and consume of the next job; consume may ask to stop.
SerialJob ==
    /\ caller = "serial" /\ consumed < Jobs
    /\ taken' = Append(taken, consumed)
    /\ \/ consumed' = consumed + 1 /\ UNCHANGED <<caller, statsCancelled>>
       \/ statsCancelled' = TRUE /\ caller' = "join" /\ UNCHANGED consumed
    /\ UNCHANGED <<shared, workerVars, threw>>

SerialEnds ==
    /\ caller = "serial" /\ consumed = Jobs
    /\ caller' = "join"
    /\ UNCHANGED <<shared, workerVars, taken, consumed, statsCancelled, threw>>

LoopTest ==
    /\ caller = "loop"
    /\ caller' = IF consumed < Jobs /\ ~cancelled THEN "lock" ELSE "join"
    /\ UNCHANGED <<shared, workerVars, taken, consumed, statsCancelled, threw>>

\* Nothing came within the 10 ms: idle, which may throw.
PollIdles ==
    /\ caller = "lock" /\ mutex = Nobody /\ ready = <<>> /\ ~cancelled
    /\ \/ caller' = "loop" /\ UNCHANGED threw
       \/ caller' = "cancel" /\ threw' = TRUE
    /\ UNCHANGED <<shared, workerVars, taken, consumed, statsCancelled>>

\* Cancelled and nothing left: break.
PollStops ==
    /\ caller = "lock" /\ mutex = Nobody /\ ready = <<>> /\ cancelled
    /\ caller' = "join"
    /\ UNCHANGED <<shared, workerVars, taken, consumed, statsCancelled, threw>>

Pop ==
    /\ caller = "lock" /\ mutex = Nobody /\ ready # <<>>
    /\ taken' = Append(taken, Head(ready))
    /\ ready' = Tail(ready)
    /\ caller' = "popNotify"
    /\ UNCHANGED <<next, cancelled, mutex, asleep, workerFailure, workerVars,
                   consumed, statsCancelled, threw>>

\* fault: room was made and nobody is told
PopForgetsNotify ==
    /\ caller = "popNotify"
    /\ caller' = "consume"
    /\ UNCHANGED <<shared, workerVars, taken, consumed, statsCancelled, threw>>

PopNotifies ==
    /\ caller = "popNotify"
    /\ asleep' = {}
    /\ caller' = "consume"
    /\ UNCHANGED <<next, cancelled, mutex, ready, workerFailure, workerVars,
                   taken, consumed, statsCancelled, threw>>

Consume ==
    /\ caller = "consume"
    /\ consumed' = consumed + 1
    /\ caller' = "loop"
    /\ UNCHANGED <<shared, workerVars, taken, statsCancelled, threw>>

ConsumeDeclines ==
    /\ caller = "consume"
    /\ statsCancelled' = TRUE
    /\ caller' = "cancel"
    /\ UNCHANGED <<shared, workerVars, taken, consumed, threw>>

ConsumeThrows ==
    /\ caller = "consume"
    /\ threw' = TRUE
    /\ caller' = "cancel"
    /\ UNCHANGED <<shared, workerVars, taken, consumed, statsCancelled>>

\* cancelled = true and changed.notify_all(), neither under the mutex.
Cancel ==
    /\ caller = "cancel"
    /\ cancelled' = TRUE
    /\ caller' = "cancelNotify"
    /\ UNCHANGED <<next, mutex, ready, asleep, workerFailure, workerVars,
                   taken, consumed, statsCancelled, threw>>

CancelNotifies ==
    /\ caller = "cancelNotify"
    /\ asleep' = {}
    /\ caller' = "join"
    /\ UNCHANGED <<next, cancelled, mutex, ready, workerFailure, workerVars,
                   taken, consumed, statsCancelled, threw>>

Join ==
    /\ caller = "join"
    /\ \A w \in Started : at[w] = "done"
    /\ caller' = IF threw \/ workerFailure THEN "threw" ELSE "returned"
    /\ UNCHANGED <<shared, workerVars, taken, consumed, statsCancelled, threw>>

CallerStep ==
    \/ LaunchOne \/ LaunchEnds \/ LaunchThrows
    \/ SerialJob \/ SerialThrows \/ SerialEnds
    \/ LoopTest \/ PollIdles \/ PollStops \/ Pop \/ PopNotifies
    \/ Consume \/ ConsumeDeclines \/ ConsumeThrows
    \/ Cancel \/ CancelNotifies \/ Join

Next == CallerStep \/ \E w \in Workers : Worker(w)

Spec == Init /\ [][Next]_vars

\* Host threads are scheduled, and a thread that keeps finding the mutex free
\* for a moment gets it in the end (strong fairness of taking it); prepare,
\* consume and idle return or throw.
FairSpec ==
    /\ Spec
    /\ WF_vars(CallerStep) /\ SF_vars(Pop)
    /\ \A w \in Workers : WF_vars(Worker(w)) /\ SF_vars(Lock(w)) /\ SF_vars(Fail(w))

------------------------------------------------------------------------------
(* Properties *)

Places == {"notStarted", "check", "claim", "prepare", "lock", "test",
           "fallAsleep", "notify", "fail", "done"}

\* Memory held by prepared shaders stays bounded however far the workers run
\* ahead of the caller.
QueueBounded == Len(ready) <= Capacity

\* The variables have their types, and the queue of prepared results its bound.
TypeOK ==
    /\ next \in Nat /\ cancelled \in BOOLEAN
    /\ mutex \in Workers \cup {Nobody}
    /\ ready \in Seq(Job) /\ QueueBounded
    /\ asleep \in SUBSET Workers
    /\ workerFailure \in BOOLEAN
    /\ at \in [Workers -> Places]
    /\ job \in [Workers -> Nat]
    /\ caller \in {"launch", "serial", "loop", "lock", "popNotify", "consume",
                   "cancel", "cancelNotify", "join"} \cup Ended
    /\ taken \in Seq(Job)
    /\ consumed \in 0 .. Jobs
    /\ statsCancelled \in BOOLEAN /\ threw \in BOOLEAN

\* A worker has claimed the job and has not handed over its result yet.
Holding(w) == at[w] \in {"prepare", "lock", "test", "fallAsleep"}

\* Everything handed over so far, whether or not the caller has had it.
Queue == taken \o ready

\* No job is prepared by two workers, queued twice or consumed twice.
EachJobOnce ==
    /\ \A i, j \in DOMAIN Queue : i # j => Queue[i] # Queue[j]
    /\ \A v, w \in Workers : Holding(v) /\ Holding(w) /\ v # w => job[v] # job[w]
    /\ \A w \in Workers, i \in DOMAIN Queue : Holding(w) => Queue[i] # job[w]

\* The caller's frame, which the workers refer to, is not left while one runs.
NoWorkerOutlivesCall ==
    caller \in Ended => \A w \in Workers : at[w] \in {"notStarted", "done"}

\* A RunBounded that returns without reporting a cancellation has consumed every
\* job, and one in which a worker's prepare failed does not return: the failure
\* reaches the caller even when it had already stopped consuming.  Returned or
\* thrown, it has joined every worker.
ReturnMeansDone ==
    /\ NoWorkerOutlivesCall
    /\ caller = "returned" =>
        /\ ~workerFailure
        /\ statsCancelled \/ (consumed = Jobs /\ {taken[i] : i \in DOMAIN taken} = Job)

\* "The bounded queue and cancellation wakeups keep both sides from waiting on
\* each other": the caller never waits in join for a worker that sleeps with
\* nobody left to wake it.
NeitherSideWaitsOnTheOther ==
    ~ /\ caller = "join"
      /\ asleep # {}
      /\ \A w \in Started : at[w] = "done" \/ w \in asleep

\* Unless the caller itself cancels, RunBounded ends: a full queue, an empty
\* queue and a failing worker never leave both sides waiting.
EndsUnlessCallerCancels ==
    <>(caller \in Ended \/ caller = "cancel")
==============================================================================
