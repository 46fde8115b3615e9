------------------------ MODULE PreparationQueueProofs ------------------------
(* For any number of workers and jobs and any capacity: the queue stays within *)
(* its capacity, no job is done twice, no worker outlives the call, a call     *)
(* that returns without a cancellation has consumed every job, and only one    *)
(* whose caller has cancelled can be waiting for a worker that is asleep.      *)
EXTENDS PreparationQueue, SequenceTheorems, FiniteSetTheorems, TLAPS

\* Which claims are out: below next and a job; everything queued was claimed.
ClaimsBelowNext ==
    /\ \A w \in Workers : Holding(w) => job[w] < next /\ job[w] < Jobs
    /\ Started # {} => \A i \in DOMAIN Queue : Queue[i] < next

\* The caller does the jobs itself only when no worker was started, and then in order.
SerialAlone ==
    /\ caller = "launch" => taken = <<>> /\ consumed = 0
    /\ caller \in {"loop", "lock", "popNotify", "consume"} => Started # {}
    /\ caller = "serial" => Started = {} /\ \A i \in DOMAIN Queue : Queue[i] < consumed
    /\ Started = {} => ready = <<>>

\* How far the caller is, and why it left its loop.
ConsumedExact ==
    /\ caller \in {"lock", "popNotify", "consume"} => consumed < Jobs
    /\ ~statsCancelled /\ ~threw =>
          Len(taken) = consumed + (IF caller \in {"popNotify", "consume"} THEN 1 ELSE 0)
    /\ caller \in {"cancel", "cancelNotify"} => statsCancelled \/ threw
    /\ cancelled => workerFailure \/ statsCancelled \/ threw
    /\ caller \in {"join"} \cup Ended =>
          consumed = Jobs \/ statsCancelled \/ threw \/ workerFailure
    /\ caller = "returned" => ~threw /\ ~workerFailure

IInv ==
    /\ TypeOK /\ EachJobOnce /\ NoWorkerOutlivesCall
    /\ ClaimsBelowNext /\ SerialAlone /\ ConsumedExact

------------------------------------------------------------------------------
(* The queue as one sequence *)

\* Taking the front from ready to taken does not change the sequence of both.
LEMMA QueueAfterPop ==
  ASSUME NEW S, NEW t \in Seq(S), NEW r \in Seq(S), r # <<>>
  PROVE  Append(t, Head(r)) \o Tail(r) = t \o r
<1>1. /\ Append(t, Head(r)) \in Seq(S) /\ Len(Append(t, Head(r))) = Len(t) + 1
      /\ Tail(r) \in Seq(S) /\ Len(Tail(r)) = Len(r) - 1
      /\ \A i \in 1 .. Len(Tail(r)) : Tail(r)[i] = r[i + 1]
  BY HeadTailProperties
<1>2. /\ Append(t, Head(r)) \o Tail(r) \in Seq(S) /\ t \o r \in Seq(S)
      /\ Len(Append(t, Head(r)) \o Tail(r)) = Len(t \o r)
  BY <1>1
<1>3. ASSUME NEW i \in 1 .. Len(t \o r)
      PROVE  (Append(t, Head(r)) \o Tail(r))[i] = (t \o r)[i]
  BY <1>1, <1>3
<1> QED BY <1>2, <1>3, SeqEqual

\* A result pushed is the last of the sequence of both.
LEMMA QueueAfterPush ==
  ASSUME NEW S, NEW t \in Seq(S), NEW r \in Seq(S), NEW x \in S
  PROVE  t \o Append(r, x) = Append(t \o r, x)
  OBVIOUS

\* What is in the queue, and where its elements are.
LEMMA QueueType ==
  ASSUME TypeOK
  PROVE  Queue \in Seq(Job) /\ Len(Queue) = Len(taken) + Len(ready)
         /\ DOMAIN Queue = 1 .. Len(Queue)
  BY DEF TypeOK, Queue

------------------------------------------------------------------------------
(* Steps *)

\* Before anything has started the invariant holds.
LEMMA InitEstablishes == Init => IInv
<1> SUFFICES ASSUME Init PROVE IInv
  OBVIOUS
<1>1. TypeOK /\ Queue = <<>> /\ Started = {} /\ DOMAIN Queue = {}
  <2>1. TypeOK
    <3>1. <<>> \in Seq(Job) /\ 0 \in 0 .. Jobs /\ 0 \in Nat
      BY SizesAssumption, EmptySeq
    <3>2. at \in [Workers -> Places] /\ job \in [Workers -> Nat]
      BY <3>1 DEF Init, Places
    <3>3. QueueBounded
      BY SizesAssumption DEF Init, QueueBounded
    <3> QED BY <3>1, <3>2, <3>3 DEF Init, TypeOK
  <2>2. Queue = <<>>
    BY DEF Init, Queue
  <2>3. Started = {}
    BY DEF Init, Started
  <2> QED BY <2>1, <2>2, <2>3
<1>2. EachJobOnce /\ NoWorkerOutlivesCall
  BY <1>1 DEF Init, EachJobOnce, Holding, NoWorkerOutlivesCall, Ended
<1>3. ClaimsBelowNext /\ SerialAlone /\ ConsumedExact
  BY <1>1 DEF Init, ClaimsBelowNext, SerialAlone, ConsumedExact, Holding, Ended
<1> QED BY <1>1, <1>2, <1>3 DEF IInv

\* The steps of a worker that claim nothing and hand over nothing.
QuietStep(w) ==
    \/ CheckCancelled(w) \/ Prepare(w) \/ PrepareThrows(w)
    \/ Lock(w) \/ TestFails(w) \/ FallAsleep(w) \/ TestCancelled(w)
    \/ PushNotifies(w) \/ Fail(w)

LEMMA QuietPreserves ==
  ASSUME IInv, NEW w \in Workers, QuietStep(w)
  PROVE  IInv'
<1> USE DEF QuietStep, CheckCancelled, Prepare, PrepareThrows, Lock, TestFails, FallAsleep,
        TestCancelled, PushNotifies, Fail, WorkerGoto, shared, callerVars, workerVars
<1>1. TypeOK'
  BY WorkersAssumption DEF IInv, TypeOK, QueueBounded, Places
<1>2. /\ taken' = taken /\ ready' = ready /\ next' = next /\ job' = job
      /\ caller' = caller /\ consumed' = consumed
      /\ statsCancelled' = statsCancelled /\ threw' = threw
      /\ \A v \in Workers : Holding(v)' => Holding(v)
      /\ at[w] \notin {"notStarted", "done"}
      /\ \A v \in Workers \ {w} : at'[v] = at[v]
      /\ at'[w] # "notStarted"
  BY DEF IInv, TypeOK, Holding
<1>3. Queue' = Queue /\ Started' = Started
  BY <1>2 DEF Queue, Started
<1>4. EachJobOnce'
  BY <1>2, <1>3 DEF IInv, EachJobOnce
<1>5. NoWorkerOutlivesCall'
  BY <1>2 DEF IInv, NoWorkerOutlivesCall
<1>6. ClaimsBelowNext' /\ SerialAlone'
  BY <1>2, <1>3 DEF IInv, ClaimsBelowNext, SerialAlone
<1>7. ConsumedExact'
  BY <1>2 DEF IInv, ConsumedExact, NoWorkerOutlivesCall, Ended
<1> QED BY <1>1, <1>4, <1>5, <1>6, <1>7 DEF IInv

\* A claim takes the next index, which nobody holds and nobody has handed over.
LEMMA ClaimPreserves ==
  ASSUME IInv, NEW w \in Workers, Claim(w)
  PROVE  IInv'
<1>1. TypeOK'
  BY DEF IInv, TypeOK, QueueBounded, Places, Claim, WorkerGoto, callerVars
<1>2. /\ taken' = taken /\ ready' = ready /\ caller' = caller /\ consumed' = consumed
      /\ statsCancelled' = statsCancelled /\ threw' = threw
      /\ cancelled' = cancelled /\ workerFailure' = workerFailure
      /\ next \in Nat /\ next' = next + 1 /\ job'[w] = next
      /\ at[w] = "claim" /\ at'[w] \in {"prepare", "done"}
      /\ Holding(w)' => next < Jobs
      /\ \A v \in Workers \ {w} : job'[v] = job[v] /\ at'[v] = at[v]
  BY DEF IInv, TypeOK, Claim, WorkerGoto, callerVars, Holding
<1>3. Queue' = Queue /\ Started' = Started /\ w \in Started
  BY <1>2 DEF Queue, Started
<1>4. \A v \in Workers \ {w} : Holding(v)' => Holding(v) /\ job[v] < next /\ job[v] < Jobs
  BY <1>2 DEF IInv, ClaimsBelowNext, Holding
<1>5. Queue \in Seq(Job) /\ \A i \in DOMAIN Queue : Queue[i] \in Nat /\ Queue[i] < next
  <2>1. Queue \in Seq(Job) /\ DOMAIN Queue = 1 .. Len(Queue)
    BY QueueType DEF IInv
  <2>2. \A i \in DOMAIN Queue : Queue[i] \in Job
    BY <2>1
  <2>3. \A i \in DOMAIN Queue : Queue[i] < next
    BY <1>3 DEF IInv, ClaimsBelowNext
  <2> QED BY <2>1, <2>2, <2>3, SizesAssumption DEF Job
<1>6. job \in [Workers -> Nat]
  BY DEF IInv, TypeOK
<1>7. EachJobOnce'
  BY <1>2, <1>3, <1>4, <1>5, <1>6 DEF IInv, EachJobOnce
<1>8. ClaimsBelowNext'
  BY <1>2, <1>3, <1>4, <1>5, <1>6, SizesAssumption DEF ClaimsBelowNext
<1>9. NoWorkerOutlivesCall' /\ SerialAlone' /\ ConsumedExact'
  BY <1>2, <1>3 DEF IInv, NoWorkerOutlivesCall, SerialAlone, ConsumedExact, Ended
<1> QED BY <1>1, <1>7, <1>8, <1>9 DEF IInv

\* A push hands over the job its worker holds, and finds room.
LEMMA PushPreserves ==
  ASSUME IInv, NEW w \in Workers, Push(w)
  PROVE  IInv'
<1>1. /\ taken' = taken /\ ready' = Append(ready, job[w]) /\ job' = job /\ next' = next
      /\ caller' = caller /\ consumed' = consumed
      /\ statsCancelled' = statsCancelled /\ threw' = threw
      /\ cancelled' = cancelled /\ workerFailure' = workerFailure
      /\ at[w] = "test" /\ at'[w] = "notify"
      /\ \A v \in Workers \ {w} : at'[v] = at[v]
      /\ Len(ready) < Capacity
  BY DEF IInv, TypeOK, Push, HasRoom, WorkerGoto, callerVars
<1>2. job[w] \in Job /\ job[w] < next /\ Holding(w) /\ ~Holding(w)'
      /\ \A v \in Workers : Holding(v)' => Holding(v) /\ v # w
  BY <1>1, SizesAssumption DEF IInv, TypeOK, ClaimsBelowNext, Holding, Job
<1>3. TypeOK'
  <2>1. QueueBounded'
    BY <1>1, SizesAssumption DEF IInv, TypeOK, QueueBounded
  <2> QED BY <1>2, <2>1, WorkersAssumption DEF IInv, TypeOK, Places, Push, WorkerGoto, callerVars
<1>4. Queue' = Append(Queue, job[w])
  BY <1>1, <1>2, QueueAfterPush DEF IInv, TypeOK, Queue
<1>5. Queue \in Seq(Job) /\ DOMAIN Queue = 1 .. Len(Queue) /\ Len(Queue) \in Nat
  BY QueueType DEF IInv
<1>6. /\ DOMAIN Queue' = 1 .. Len(Queue) + 1 /\ Queue'[Len(Queue) + 1] = job[w]
      /\ \A i \in DOMAIN Queue : Queue'[i] = Queue[i]
  BY <1>2, <1>4, <1>5
<1>7. Started' = Started /\ w \in Started
  BY <1>1 DEF Started
<1>8. EachJobOnce'
  BY <1>1, <1>2, <1>5, <1>6, SMTT(30) DEF IInv, EachJobOnce
<1>9. ClaimsBelowNext'
  BY <1>1, <1>2, <1>5, <1>6, <1>7 DEF IInv, ClaimsBelowNext
<1>10. NoWorkerOutlivesCall' /\ ConsumedExact'
  BY <1>1 DEF IInv, NoWorkerOutlivesCall, ConsumedExact, Ended
<1>11. caller # "serial"
  BY <1>7 DEF IInv, SerialAlone
<1>12. SerialAlone'
  BY <1>1, <1>7, <1>11 DEF IInv, SerialAlone
<1> QED BY <1>3, <1>8, <1>9, <1>10, <1>12 DEF IInv

\* Starting a worker: nothing is queued or consumed yet if it is the first.
LEMMA LaunchPreserves ==
  ASSUME IInv, LaunchOne
  PROVE  IInv'
<1>1. PICK w \in Workers \ Started : at' = [at EXCEPT ![w] = "check"]
  BY DEF LaunchOne, WorkerGoto
<1>2. /\ UNCHANGED <<shared, job, callerVars>> /\ caller = "launch"
      /\ at[w] = "notStarted" /\ at'[w] = "check"
      /\ \A v \in Workers \ {w} : at'[v] = at[v]
  BY <1>1 DEF LaunchOne, IInv, TypeOK, Started
<1>3. TypeOK'
  BY <1>1, <1>2 DEF IInv, TypeOK, QueueBounded, Places, shared, callerVars
<1>4. /\ Queue' = Queue /\ Started' = Started \cup {w}
      /\ \A v \in Workers : Holding(v)' => Holding(v)
  BY <1>2 DEF Queue, Started, Holding, shared, callerVars
<1>5. Started = {} => DOMAIN Queue = {}
  <2>1. Started = {} => taken = <<>> /\ ready = <<>>
    BY <1>2 DEF IInv, SerialAlone
  <2> QED BY <2>1 DEF Queue
<1>6. EachJobOnce' /\ ClaimsBelowNext'
  BY <1>2, <1>4, <1>5 DEF IInv, EachJobOnce, ClaimsBelowNext, shared
<1>7. NoWorkerOutlivesCall' /\ SerialAlone' /\ ConsumedExact'
  BY <1>2, <1>4 DEF IInv, NoWorkerOutlivesCall, SerialAlone, ConsumedExact,
     shared, callerVars, Ended
<1> QED BY <1>3, <1>6, <1>7 DEF IInv

\* With no worker the caller's next job is its consumed count, above all it has done.
LEMMA SerialPreserves ==
  ASSUME IInv, SerialJob
  PROVE  IInv'
<1>1. /\ UNCHANGED <<shared, workerVars, threw>> /\ caller = "serial"
      /\ consumed \in Job /\ taken' = Append(taken, consumed)
      /\ \/ consumed' = consumed + 1 /\ caller' = "serial" /\ statsCancelled' = statsCancelled
         \/ consumed' = consumed /\ caller' = "join" /\ statsCancelled' = TRUE
  BY SizesAssumption DEF IInv, TypeOK, SerialJob, Job
<1>2. TypeOK'
  <2>1. taken' \in Seq(Job) /\ consumed' \in 0 .. Jobs
    BY <1>1, SizesAssumption DEF IInv, TypeOK, Job
  <2> QED BY <1>1, <2>1 DEF IInv, TypeOK, QueueBounded, shared, workerVars
<1>3. /\ Started = {} /\ Started' = {} /\ ready = <<>> /\ ready' = <<>>
      /\ \A i \in DOMAIN Queue : Queue[i] < consumed
      /\ \A v \in Workers : ~Holding(v) /\ ~Holding(v)'
  BY <1>1 DEF IInv, SerialAlone, Started, Holding, shared, workerVars
<1>4. Queue = taken /\ Queue' = Append(taken, consumed) /\ taken \in Seq(Job)
  BY <1>1, <1>3 DEF IInv, TypeOK, Queue, Job
<1>5. \A i \in DOMAIN Queue : Queue[i] \in Job
  BY <1>4
<1>6. EachJobOnce'
  BY <1>1, <1>3, <1>4, <1>5 DEF IInv, EachJobOnce, Job
<1>7. SerialAlone'
  BY <1>1, <1>3, <1>4, <1>5, SizesAssumption DEF SerialAlone, Job
<1>8. ConsumedExact'
  BY <1>1, <1>4 DEF IInv, ConsumedExact, shared, Ended, Job
<1>9. ClaimsBelowNext' /\ NoWorkerOutlivesCall'
  BY <1>1, <1>3 DEF IInv, ClaimsBelowNext, NoWorkerOutlivesCall,
     shared, workerVars, Ended
<1> QED BY <1>2, <1>6, <1>7, <1>8, <1>9 DEF IInv

\* Popping moves a result from ready to taken; the sequence of both stays.
LEMMA PopPreserves ==
  ASSUME IInv, Pop
  PROVE  IInv'
<1>1. /\ UNCHANGED <<next, cancelled, mutex, asleep, workerFailure, workerVars,
                     consumed, statsCancelled, threw>>
      /\ caller = "lock" /\ caller' = "popNotify" /\ ready # <<>>
      /\ taken' = Append(taken, Head(ready)) /\ ready' = Tail(ready)
      /\ taken \in Seq(Job) /\ ready \in Seq(Job)
  BY DEF Pop, IInv, TypeOK
<1>2. /\ taken' \in Seq(Job) /\ Len(taken') = Len(taken) + 1
      /\ ready' \in Seq(Job) /\ Len(ready') = Len(ready) - 1
  BY <1>1, HeadTailProperties
<1>3. TypeOK'
  <2>1. QueueBounded'
    BY <1>2, SizesAssumption DEF IInv, TypeOK, QueueBounded
  <2> QED BY <1>1, <1>2, <2>1 DEF IInv, TypeOK, workerVars
<1>4. Queue' = Queue
  BY <1>1, QueueAfterPop DEF Queue
<1>5. Started' = Started /\ \A v \in Workers : Holding(v)' = Holding(v)
  BY <1>1 DEF Started, Holding, workerVars
<1>6. EachJobOnce' /\ ClaimsBelowNext'
  BY <1>1, <1>4, <1>5 DEF IInv, EachJobOnce, ClaimsBelowNext, workerVars
<1>7. NoWorkerOutlivesCall' /\ SerialAlone'
  BY <1>1, <1>5 DEF IInv, NoWorkerOutlivesCall, SerialAlone, Ended
<1>8. ConsumedExact'
  <2>1. /\ cancelled' = cancelled /\ workerFailure' = workerFailure /\ consumed' = consumed
        /\ statsCancelled' = statsCancelled /\ threw' = threw
    BY <1>1
  <2>2. consumed \in Nat /\ Len(taken) \in Nat
    BY SizesAssumption DEF IInv, TypeOK
  <2>3. ~statsCancelled /\ ~threw => Len(taken') = consumed + 1
    BY <1>1, <1>2, <2>2 DEF IInv, ConsumedExact
  <2> QED BY <1>1, <2>1, <2>2, <2>3 DEF IInv, ConsumedExact, Ended
<1> QED BY <1>3, <1>6, <1>7, <1>8 DEF IInv

\* The caller's steps that touch neither the queue nor a worker.
QuietCallerStep ==
    \/ LaunchEnds \/ LaunchThrows \/ SerialThrows \/ SerialEnds
    \/ LoopTest \/ PollIdles \/ PollStops \/ PopNotifies
    \/ Consume \/ ConsumeDeclines \/ ConsumeThrows
    \/ Cancel \/ CancelNotifies \/ Join

LEMMA QuietCallerPreserves ==
  ASSUME IInv, QuietCallerStep
  PROVE  IInv'
<1>1. /\ UNCHANGED <<next, ready, workerFailure, at, job, taken>>
      /\ cancelled => cancelled'
      /\ ~(caller' \in Ended) => ~(caller \in Ended)
  BY DEF QuietCallerStep, LaunchEnds, LaunchThrows, SerialThrows, SerialEnds, LoopTest,
     PollIdles, PollStops, PopNotifies, Consume, ConsumeDeclines, ConsumeThrows,
     Cancel, CancelNotifies, Join, shared, workerVars, Ended
<1>2. consumed \in 0 .. Jobs /\ (caller = "consume" => consumed < Jobs) /\ Jobs \in Nat
  BY SizesAssumption DEF IInv, TypeOK, ConsumedExact
<1>3. TypeOK'
  <2>1. consumed' \in 0 .. Jobs
    BY <1>2 DEF QuietCallerStep, LaunchEnds, LaunchThrows,
       SerialThrows, SerialEnds, LoopTest, PollIdles, PollStops, PopNotifies, Consume,
       ConsumeDeclines, ConsumeThrows, Cancel, CancelNotifies, Join
  <2>3. mutex' = mutex /\ (asleep' = asleep \/ asleep' = {})
    BY DEF QuietCallerStep, LaunchEnds, LaunchThrows,
       SerialThrows, SerialEnds, LoopTest, PollIdles, PollStops, PopNotifies, Consume,
       ConsumeDeclines, ConsumeThrows, Cancel, CancelNotifies, Join, shared
  <2>4. /\ cancelled' = cancelled \/ cancelled' = TRUE
        /\ statsCancelled' = statsCancelled \/ statsCancelled' = TRUE
        /\ threw' = threw \/ threw' = TRUE
    BY DEF QuietCallerStep, LaunchEnds, LaunchThrows,
       SerialThrows, SerialEnds, LoopTest, PollIdles, PollStops, PopNotifies, Consume,
       ConsumeDeclines, ConsumeThrows, Cancel, CancelNotifies, Join, shared
  <2>2. caller' \in {"serial", "loop", "lock", "consume", "cancel", "cancelNotify", "join"} \cup Ended
    BY DEF QuietCallerStep, LaunchEnds, LaunchThrows,
       SerialThrows, SerialEnds, LoopTest, PollIdles, PollStops, PopNotifies, Consume,
       ConsumeDeclines, ConsumeThrows, Cancel, CancelNotifies, Join, Ended
  <2>5. /\ cancelled' \in BOOLEAN /\ statsCancelled' \in BOOLEAN /\ threw' \in BOOLEAN
        /\ asleep' \in SUBSET Workers
    BY <2>3, <2>4 DEF IInv, TypeOK
  <2> QED BY <1>1, <2>1, <2>2, <2>3, <2>5 DEF IInv, TypeOK, QueueBounded
<1>4. Queue' = Queue /\ Started' = Started /\ \A v \in Workers : Holding(v)' = Holding(v)
  BY <1>1 DEF Queue, Started, Holding
<1>5. EachJobOnce' /\ ClaimsBelowNext'
  BY <1>1, <1>4 DEF IInv, EachJobOnce, ClaimsBelowNext
<1>6. NoWorkerOutlivesCall'
  BY <1>1 DEF IInv, NoWorkerOutlivesCall, QuietCallerStep, LaunchEnds, LaunchThrows,
     SerialThrows, SerialEnds, LoopTest, PollIdles, PollStops, PopNotifies, Consume,
     ConsumeDeclines, ConsumeThrows, Cancel, CancelNotifies, Join, Started, Ended
<1>7. SerialAlone'
  <2>1. caller = "launch" /\ Started = {} => DOMAIN Queue = {}
    BY DEF IInv, SerialAlone, Queue
  <2> QED BY <1>1, <1>4, <2>1 DEF IInv, SerialAlone, QuietCallerStep, LaunchEnds, LaunchThrows,
     SerialThrows, SerialEnds, LoopTest, PollIdles, PollStops, PopNotifies, Consume,
     ConsumeDeclines, ConsumeThrows, Cancel, CancelNotifies, Join, Ended
<1>8. ConsumedExact'
  <2>1. Len(taken) \in Nat /\ consumed \in Nat
    BY <1>2 DEF IInv, TypeOK
  <2>2. CASE LaunchEnds \/ LaunchThrows \/ SerialThrows \/ SerialEnds
    BY <1>1, <1>2, <2>2 DEF IInv, ConsumedExact, SerialAlone, LaunchEnds, LaunchThrows,
       SerialThrows, SerialEnds, shared, Ended
  <2>3. CASE LoopTest \/ PollIdles \/ PollStops \/ PopNotifies
    BY <1>1, <1>2, <2>3 DEF IInv, ConsumedExact, LoopTest, PollIdles, PollStops, PopNotifies,
       shared, Ended
  <2>4. CASE Consume
    BY <1>1, <1>2, <2>1, <2>4 DEF IInv, ConsumedExact, Consume, shared, Ended
  <2>5. CASE ConsumeDeclines \/ ConsumeThrows \/ Cancel \/ CancelNotifies \/ Join
    BY <1>1, <1>2, <2>5 DEF IInv, ConsumedExact, ConsumeDeclines, ConsumeThrows, Cancel,
       CancelNotifies, Join, shared, Ended
  <2> QED BY <2>2, <2>3, <2>4, <2>5 DEF QuietCallerStep
<1> QED BY <1>3, <1>5, <1>6, <1>7, <1>8 DEF IInv

------------------------------------------------------------------------------
(* Theorems *)

\* The invariant holds in every reachable state of RunBounded.
THEOREM Invariance == Spec => []IInv
<1>1. IInv /\ [Next]_vars => IInv'
  <2> SUFFICES ASSUME IInv, [Next]_vars PROVE IInv'
    OBVIOUS
  <2>1. CASE CallerStep
    BY <2>1, LaunchPreserves, SerialPreserves, PopPreserves, QuietCallerPreserves
    DEF CallerStep, QuietCallerStep
  <2>2. ASSUME NEW w \in Workers, Worker(w) PROVE IInv'
    BY <2>2, QuietPreserves, ClaimPreserves, PushPreserves DEF Worker, QuietStep
  <2>3. CASE UNCHANGED vars
    BY <2>3, SMTT(30) DEF vars, shared, workerVars, callerVars, IInv, TypeOK, QueueBounded, EachJobOnce,
       NoWorkerOutlivesCall, ClaimsBelowNext, SerialAlone, ConsumedExact, Queue, Holding, Started
  <2> QED BY <2>1, <2>2, <2>3 DEF Next
<1> QED BY InitEstablishes, <1>1, PTL DEF Spec

\* The variables always have their types.
THEOREM TypeCorrect == Spec => []TypeOK
<1>1. IInv => TypeOK
  BY DEF IInv
<1> QED BY <1>1, Invariance, PTL

\* The queue of prepared results never exceeds its capacity, whatever the workers' pace.
THEOREM Bounded == Spec => []QueueBounded
<1>1. IInv => QueueBounded
  BY DEF IInv, TypeOK
<1> QED BY <1>1, Invariance, PTL

\* No job is ever held by two workers, queued twice or consumed twice.
THEOREM JobsOnce == Spec => []EachJobOnce
<1>1. IInv => EachJobOnce
  BY DEF IInv
<1> QED BY <1>1, Invariance, PTL

\* Once RunBounded has returned or thrown, none of its workers runs.
THEOREM WorkersJoined == Spec => []NoWorkerOutlivesCall
<1>1. IInv => NoWorkerOutlivesCall
  BY DEF IInv
<1> QED BY <1>1, Invariance, PTL

\* As many different jobs consumed as there are jobs: every job was consumed.
LEMMA AllJobsTaken ==
  ASSUME NEW s \in Seq(Job), Len(s) = Jobs,
         \A i, j \in DOMAIN s : i # j => s[i] # s[j]
  PROVE  {s[i] : i \in DOMAIN s} = Job
<1>1. DOMAIN s = 1 .. Jobs /\ s \in [1 .. Jobs -> Job]
  OBVIOUS
<1>2. IsFiniteSet(1 .. Jobs) /\ Cardinality(1 .. Jobs) = Jobs
  BY FS_Interval, SizesAssumption
<1>3. IsFiniteSet(Job) /\ Cardinality(Job) = Jobs
  BY FS_Interval, SizesAssumption DEF Job
<1>4. s \in Injection(1 .. Jobs, Job)
  BY <1>1 DEF Injection, IsInjective
<1>5. s \in Surjection(1 .. Jobs, Job)
  BY <1>2, <1>3, <1>4, FS_Injection
<1> QED BY <1>1, <1>5 DEF Surjection

\* A RunBounded that returns without a cancellation has consumed every job, and
\* one with a failed worker does not return.
THEOREM ReturnIsComplete == Spec => []ReturnMeansDone
<1>1. IInv => ReturnMeansDone
  <2> SUFFICES ASSUME IInv, caller = "returned", ~statsCancelled
               PROVE  consumed = Jobs /\ {taken[i] : i \in DOMAIN taken} = Job
    BY DEF ReturnMeansDone, IInv, ConsumedExact
  <2>1. consumed = Jobs /\ Len(taken) = Jobs /\ taken \in Seq(Job)
    BY SizesAssumption DEF IInv, TypeOK, ConsumedExact, Ended
  <2>2. DOMAIN taken \subseteq DOMAIN Queue /\ \A i \in DOMAIN taken : Queue[i] = taken[i]
    BY DEF IInv, TypeOK, Queue
  <2>3. \A i, j \in DOMAIN taken : i # j => taken[i] # taken[j]
    BY <2>2 DEF IInv, EachJobOnce
  <2> QED BY <2>1, <2>3, AllJobsTaken
<1> QED BY <1>1, Invariance, PTL

------------------------------------------------------------------------------
(* Nobody is left asleep, unless the caller has cancelled *)

\* Whoever evaluates the predicate, or is about to sleep on it, holds the mutex.
MutexHeld == \A w \in Workers : at[w] \in {"test", "fallAsleep"} <=> mutex = w

SleepersHold == \A w \in asleep : at[w] = "lock"

CallerCancels == statsCancelled \/ threw

\* As long as only workers cancel, which they do under the mutex, a sleeper sleeps
\* behind a full queue or is about to be woken by the pop that made room.
SleepJustified ==
    ~CallerCancels =>
        /\ \A w \in Workers : at[w] = "fallAsleep" => ~cancelled /\ Len(ready) = Capacity
        /\ asleep # {} => ~cancelled /\ (Len(ready) = Capacity \/ caller = "popNotify")

SleepInv ==
    /\ MutexHeld /\ SleepersHold /\ SleepJustified
    /\ workerFailure => cancelled

\* What of a worker's step the others and the caller can see.
LEMMA SleepAfterWorker ==
  ASSUME IInv, SleepInv, NEW w \in Workers, Worker(w)
  PROVE  SleepInv'
<1> USE WorkersAssumption, SizesAssumption DEF Worker, CheckCancelled, Claim, Prepare, PrepareThrows,
        Lock, TestFails, FallAsleep, TestCancelled, Push, PushNotifies, Fail, WorkerGoto,
        shared, callerVars
<1>1. /\ at \in [Workers -> Places] /\ mutex \in Workers \cup {Nobody}
      /\ asleep \subseteq Workers /\ ready \in Seq(Job) /\ Len(ready) \in Nat
      /\ Capacity \in Nat /\ Len(ready) <= Capacity
  BY DEF IInv, TypeOK, QueueBounded
<1>2. MutexHeld'
  BY <1>1 DEF SleepInv, MutexHeld
<1>3. SleepersHold'
  BY <1>1 DEF SleepInv, SleepersHold
<1>4. (workerFailure => cancelled)'
  BY DEF SleepInv
<1>5. SleepJustified'
  <2>1. SUFFICES ASSUME ~CallerCancels PROVE SleepJustified'
    BY DEF SleepJustified, CallerCancels
  <2>2. /\ caller' = caller /\ ~CallerCancels'
        /\ \A v \in Workers \ {w} : at'[v] = at[v]
    BY <1>1, <2>1 DEF CallerCancels
  <2>3. CASE Push(w)
    <3>1. /\ at[w] = "test" /\ Len(ready) < Capacity
          /\ at'[w] = "notify" /\ asleep' = asleep /\ cancelled' = cancelled
      BY <1>1, <2>3 DEF HasRoom
    <3>2. \A v \in Workers : at'[v] # "fallAsleep"
      BY <2>2, <3>1 DEF SleepInv, MutexHeld
    <3>3. asleep # {} => ~cancelled /\ caller = "popNotify"
      BY <1>1, <2>1, <3>1 DEF SleepInv, SleepJustified
    <3> QED BY <2>2, <3>1, <3>2, <3>3 DEF SleepJustified
  <2>4. CASE Fail(w)
    <3>1. mutex = Nobody /\ asleep' = {} /\ at'[w] = "done"
      BY <1>1, <2>4
    <3>2. \A v \in Workers : at'[v] # "fallAsleep"
      BY <2>2, <3>1 DEF SleepInv, MutexHeld
    <3> QED BY <3>1, <3>2 DEF SleepJustified
  <2>5. CASE TestFails(w)
    <3>1. ~cancelled /\ Len(ready) = Capacity /\ UNCHANGED <<cancelled, ready, asleep>>
      BY <1>1, <2>5 DEF HasRoom
    <3> QED BY <3>1 DEF SleepJustified
  <2>6. CASE FallAsleep(w)
    <3>1. at[w] = "fallAsleep" /\ UNCHANGED <<cancelled, ready>>
      BY <2>6
    <3>2. ~cancelled /\ Len(ready) = Capacity
      BY <2>1, <3>1 DEF SleepInv, SleepJustified
    <3> QED BY <3>1, <3>2 DEF SleepJustified
  <2>7. CASE ~Push(w) /\ ~Fail(w) /\ ~TestFails(w) /\ ~FallAsleep(w)
    <3>1. /\ UNCHANGED <<cancelled, ready>> /\ asleep' \in {asleep, {}}
          /\ at'[w] # "fallAsleep"
      BY <1>1, <2>7
    <3> QED BY <2>1, <2>2, <3>1 DEF SleepInv, SleepJustified
  <2> QED BY <2>3, <2>4, <2>5, <2>6, <2>7
<1> QED BY <1>2, <1>3, <1>4, <1>5 DEF SleepInv

\* The caller makes room and then wakes everybody; what else it does to the
\* sleepers follows a cancellation of its own.
LEMMA SleepAfterCaller ==
  ASSUME IInv, SleepInv, CallerStep
  PROVE  SleepInv'
<1>1. CASE LaunchOne
  <2>1. PICK w \in Workers \ Started : at' = [at EXCEPT ![w] = "check"]
    BY <1>1 DEF LaunchOne, WorkerGoto
  <2>2. /\ UNCHANGED <<shared, job, callerVars>> /\ at[w] = "notStarted"
        /\ at'[w] = "check" /\ \A v \in Workers \ {w} : at'[v] = at[v]
    BY <1>1, <2>1 DEF LaunchOne, Started, IInv, TypeOK
  <2>3. w \notin asleep
    BY <2>2 DEF SleepInv, SleepersHold
  <2>4. MutexHeld' /\ SleepersHold' /\ (workerFailure => cancelled)'
    BY <2>2, <2>3 DEF SleepInv, MutexHeld, SleepersHold, shared, IInv, TypeOK
  <2>5. SleepJustified'
    BY <2>2 DEF SleepInv, SleepJustified, CallerCancels, shared, callerVars
  <2> QED BY <2>4, <2>5 DEF SleepInv
<1>2. CASE Pop
  <2>1. /\ mutex = Nobody /\ caller' = "popNotify"
        /\ UNCHANGED <<cancelled, mutex, asleep, workerFailure, at, statsCancelled, threw>>
    BY <1>2 DEF Pop, workerVars
  <2>2. \A v \in Workers : at[v] # "fallAsleep"
    BY <2>1, WorkersAssumption DEF SleepInv, MutexHeld
  <2> QED BY <2>1, <2>2 DEF SleepInv, MutexHeld, SleepersHold, SleepJustified, CallerCancels
<1>3. CASE ~LaunchOne /\ ~Pop
  <2>1. /\ UNCHANGED <<mutex, ready, workerFailure, at>>
        /\ asleep' \in {asleep, {}} /\ (caller = "popNotify" => asleep' = {})
        /\ cancelled' = cancelled \/ (cancelled' = TRUE /\ caller = "cancel")
        /\ statsCancelled' = statsCancelled \/ statsCancelled' = TRUE
        /\ threw' = threw \/ threw' = TRUE
    BY <1>3 DEF CallerStep, LaunchEnds, LaunchThrows, SerialJob, SerialThrows, SerialEnds,
       LoopTest, PollIdles, PollStops, PopNotifies, Consume, ConsumeDeclines, ConsumeThrows,
       Cancel, CancelNotifies, Join, shared, workerVars
  <2>2. CallerCancels => CallerCancels'
    BY <2>1 DEF CallerCancels
  <2>3. caller = "cancel" => CallerCancels
    BY DEF IInv, ConsumedExact, CallerCancels
  <2>4. MutexHeld' /\ SleepersHold' /\ (workerFailure => cancelled)'
    BY <2>1 DEF SleepInv, MutexHeld, SleepersHold
  <2>5. SleepJustified'
    BY <2>1, <2>3, <2>2 DEF SleepInv, SleepJustified
  <2> QED BY <2>4, <2>5 DEF SleepInv
<1> QED BY <1>1, <1>2, <1>3

\* The sleepers' invariant holds in every reachable state.
LEMMA SleepInvariance == Spec => []SleepInv
<1>1. Init => SleepInv
  BY WorkersAssumption DEF Init, SleepInv, MutexHeld, SleepersHold, SleepJustified
<1>2. IInv /\ SleepInv /\ [Next]_vars => SleepInv'
  <2>1. ASSUME SleepInv, UNCHANGED vars PROVE SleepInv'
    BY <2>1 DEF vars, shared, workerVars, callerVars, SleepInv, MutexHeld, SleepersHold,
       SleepJustified, CallerCancels
  <2> QED BY <2>1, SleepAfterWorker, SleepAfterCaller DEF Next
<1> QED BY <1>1, <1>2, Invariance, PTL DEF Spec

\* The promise that the two sides never wait on each other, as far as it is kept:
\* a caller that has not cancelled is not in join with a worker asleep, so that
\* whatever fails in the workers, join comes back once they have run.  (A caller
\* that has cancelled may be: MCPreparationQueueCancel.)
THEOREM NobodyStranded ==
  Spec => [](~CallerCancels => NeitherSideWaitsOnTheOther /\ (caller = "join" => asleep = {}))
<1>1. IInv /\ SleepInv => (~CallerCancels /\ caller = "join" => asleep = {})
  <2> SUFFICES ASSUME IInv, SleepInv, ~CallerCancels, caller = "join", asleep # {}
               PROVE  FALSE
    OBVIOUS
  <2>1. ~cancelled /\ consumed = Jobs
    BY DEF SleepInv, SleepJustified, IInv, ConsumedExact, CallerCancels
  <2>2. Len(taken) = Jobs /\ taken \in Seq(Job)
    BY <2>1, SizesAssumption DEF IInv, TypeOK, ConsumedExact, CallerCancels
  <2>3. DOMAIN taken \subseteq DOMAIN Queue /\ \A i \in DOMAIN taken : Queue[i] = taken[i]
    BY DEF IInv, TypeOK, Queue
  <2>4. {taken[i] : i \in DOMAIN taken} = Job
    <3>1. \A i, j \in DOMAIN taken : i # j => taken[i] # taken[j]
      BY <2>3 DEF IInv, EachJobOnce
    <3> QED BY <2>2, <3>1, AllJobsTaken
  <2>5. PICK w \in Workers : Holding(w)
    BY DEF SleepInv, SleepersHold, Holding, IInv, TypeOK
  <2>6. job[w] \in Job
    BY <2>5, SizesAssumption DEF IInv, TypeOK, ClaimsBelowNext, Job
  <2> QED BY <2>3, <2>4, <2>5, <2>6 DEF IInv, EachJobOnce
<1>2. (~CallerCancels /\ caller = "join" => asleep = {})
         => (~CallerCancels => NeitherSideWaitsOnTheOther /\ (caller = "join" => asleep = {}))
  BY DEF NeitherSideWaitsOnTheOther
<1> QED BY <1>1, <1>2, Invariance, SleepInvariance, PTL
==============================================================================
