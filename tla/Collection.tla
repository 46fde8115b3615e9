------------------------------- MODULE Collection -------------------------------
(* Optional data collection: the player's consent, the shader summaries the    *)
(* renderer observes, and the detached worker that uploads them                *)
(* (gpu/taa_collection.cpp), with the request gate and the semaphore of        *)
(* gpu/collection_worker.h.                                                    *)
(*                                                                             *)
(* consent and generation are atomic words read without a lock; each load of   *)
(* theirs on which something depends is a step of its own.  Of the worker's    *)
(* five streams the summaries are modelled: the others take the epoch of the   *)
(* summaries' snapshot and check it again under the lock.                      *)
EXTENDS Integers

CONSTANTS
    Producers,      \* threads that ask for an upload at once (F1)
    Keys,           \* summaries
    MaxGeneration   \* bound: revocations and device changes

None == -1

VARIABLES
    consent, generation,
    requested,                  \* UploadRequestGate
    signaled, tokens, stopped,  \* CollectionWorker::Control; tokens is its semaphore
    summaries, sent,            \* the queue's keys, and those marked as sent
    locked,                     \* the worker holds State::mutex
    at, epochOf, queued,        \* producers: where, and their locals
    menu,                       \* SetConsent and Shutdown
    pc, requestedEpoch, epoch, batch, forceUpload,  \* Run
    round, batchRound           \* how often the queue was reset, now and at the snapshot

state == <<consent, generation, requested>>
control == <<signaled, tokens, stopped>>
queue == <<summaries, sent, locked, round>>
producers == <<at, epochOf, queued>>
run == <<pc, requestedEpoch, epoch, batch, forceUpload, batchRound>>
vars == <<state, control, queue, producers, menu, run>>

Goto(place) == pc' = place
MenuGoto(place) == menu' = place
ProducerGoto(p, place) == at' = [at EXCEPT ![p] = place]

Enabled == consent = 1

Init ==
    /\ consent \in {-1, 0, 1} /\ generation = 0 /\ requested = None
    /\ signaled = FALSE /\ tokens = 0 /\ stopped = FALSE
    /\ summaries = {} /\ sent = {} /\ locked = FALSE /\ round = 0
    /\ at = [p \in Producers |-> "idle"]
    /\ epochOf = [p \in Producers |-> 0] /\ queued = [p \in Producers |-> None]
    /\ menu = "idle"
    /\ pc = "wait" /\ requestedEpoch = None /\ epoch = 0 /\ batch = {} /\ forceUpload = FALSE
    /\ batchRound = 0

------------------------------------------------------------------------------
(* Control::Notify: the exchange, and the release of who made it true *)

Exchange(quiet, release) ==
    /\ signaled' = TRUE
    /\ IF signaled THEN quiet ELSE release

Release == tokens' = tokens + 1

------------------------------------------------------------------------------
(* UploadRequestGate::Request and RequestUpload *)

LoadGeneration(p) ==
    /\ at[p] = "idle"
    /\ epochOf' = [epochOf EXCEPT ![p] = generation]
    /\ ProducerGoto(p, "consent")
    /\ UNCHANGED <<state, control, queue, queued, menu, run>>

LoadConsent(p) ==
    /\ at[p] = "consent"
    /\ ProducerGoto(p, IF Enabled THEN "load" ELSE "idle")
    /\ UNCHANGED <<state, control, queue, epochOf, queued, menu, run>>

LoadRequested(p) ==
    /\ at[p] = "load"
    /\ queued' = [queued EXCEPT ![p] = requested]
    /\ ProducerGoto(p, "compare")
    /\ UNCHANGED <<state, control, queue, epochOf, menu, run>>

\* An older epoch's producer leaves a newer request alone; the exchange fails
\* where the request is no longer what was loaded, or for no reason.
CompareExchange(p) ==
    /\ at[p] = "compare"
    /\ \/ /\ queued[p] # None /\ queued[p] >= epochOf[p]
          /\ ProducerGoto(p, IF queued[p] = epochOf[p] THEN "notify" ELSE "idle")
          /\ UNCHANGED <<requested, queued>>
       \/ /\ queued[p] = None \/ queued[p] < epochOf[p]
          /\ \/ /\ requested = queued[p] /\ requested' = epochOf[p]
                /\ ProducerGoto(p, "notify") /\ UNCHANGED queued
             \/ queued' = [queued EXCEPT ![p] = requested] /\ UNCHANGED <<requested, at>>
    /\ UNCHANGED <<consent, generation, control, queue, epochOf, menu, run>>

ProducerNotifies(p) ==
    \/ /\ at[p] = "notify"
       /\ Exchange(ProducerGoto(p, "idle"), ProducerGoto(p, "release"))
       /\ UNCHANGED <<state, tokens, stopped, queue, epochOf, queued, menu, run>>
    \/ /\ at[p] = "release"
       /\ Release /\ ProducerGoto(p, "idle")
       /\ UNCHANGED <<state, signaled, stopped, queue, epochOf, queued, menu, run>>

------------------------------------------------------------------------------
(* The renderer *)

\* Queue::TryObserve: nothing happens without consent or while the mutex is held.
Observe(k) ==
    /\ Enabled /\ ~locked
    /\ summaries' = summaries \cup {k}
    /\ UNCHANGED <<state, control, sent, locked, round, producers, menu, run>>

Reset == summaries' = {} /\ sent' = {} /\ round' = round + 1

SetDevice ==
    /\ ~locked /\ generation < MaxGeneration
    /\ generation' = generation + 1 /\ Reset
    /\ UNCHANGED <<consent, requested, control, locked, producers, menu, run>>

------------------------------------------------------------------------------
(* SetConsent and Shutdown *)

\* The preference file may not be written: then nothing changes.
Enable ==
    /\ menu = "idle" /\ ~locked
    /\ consent' = 1
    /\ UNCHANGED <<generation, requested, control, queue, producers, menu, run>>

Revoke ==
    \/ /\ menu = "idle" /\ generation < MaxGeneration
       /\ consent' = 0 /\ MenuGoto("revoking")
       /\ UNCHANGED <<generation, requested, control, queue, producers, run>>
    \/ /\ menu = "revoking"
       /\ generation' = generation + 1 /\ MenuGoto("reset")
       /\ UNCHANGED <<consent, requested, control, queue, producers, run>>
    \/ /\ menu = "reset" /\ ~locked
       /\ Reset /\ MenuGoto("idle")
       /\ UNCHANGED <<state, control, locked, producers, run>>

Shutdown ==
    \/ /\ menu = "idle"
       /\ consent' = 0 /\ MenuGoto("leaving")
       /\ UNCHANGED <<generation, requested, control, queue, producers, run>>
    \/ /\ menu = "leaving"
       /\ generation' = generation + 1 /\ MenuGoto("stop")
       /\ UNCHANGED <<consent, requested, control, queue, producers, run>>
    \/ /\ menu = "stop"
       /\ stopped' = TRUE /\ MenuGoto("notify")
       /\ UNCHANGED <<state, signaled, tokens, queue, producers, run>>
    \/ /\ menu = "notify"
       /\ Exchange(MenuGoto("gone"), MenuGoto("release"))
       /\ UNCHANGED <<state, tokens, stopped, queue, producers, run>>
    \/ /\ menu = "release"
       /\ Release /\ MenuGoto("gone")
       /\ UNCHANGED <<state, signaled, stopped, queue, producers, run>>

------------------------------------------------------------------------------
(* The worker: Control::Wait *)

\* A token, or ten seconds without one.
Wait ==
    /\ pc = "wait"
    /\ IF stopped THEN Goto("done") /\ UNCHANGED tokens
       ELSE \/ tokens > 0 /\ tokens' = tokens - 1 /\ Goto("clear")
            \/ Goto("woken") /\ UNCHANGED tokens
    /\ UNCHANGED <<state, signaled, stopped, queue, producers, menu,
                   requestedEpoch, epoch, batch, forceUpload, batchRound>>

Clear ==
    /\ pc = "clear"
    /\ signaled' = FALSE /\ Goto("woken")
    /\ UNCHANGED <<state, tokens, stopped, queue, producers, menu,
                   requestedEpoch, epoch, batch, forceUpload, batchRound>>

\* UploadRequestGate::Consume: the exchange, then the two loads.
Consume ==
    \/ /\ pc = "woken"
       /\ IF stopped THEN Goto("done") /\ UNCHANGED <<requested, requestedEpoch>>
          ELSE requestedEpoch' = requested /\ requested' = None /\ Goto("requested")
       /\ UNCHANGED <<consent, generation, control, queue, producers, menu,
                      epoch, batch, forceUpload, batchRound>>
    \/ /\ pc = "requested"
       /\ requestedEpoch' = IF requestedEpoch = generation THEN requestedEpoch ELSE None
       /\ Goto("consent")
       /\ UNCHANGED <<state, control, queue, producers, menu, epoch, batch, forceUpload, batchRound>>
    \/ /\ pc = "consent"
       /\ requestedEpoch' = IF Enabled THEN requestedEpoch ELSE None
       /\ Goto("enabled")
       /\ UNCHANGED <<state, control, queue, producers, menu, epoch, batch, forceUpload, batchRound>>

Again == Goto("wait")
Locals == UNCHANGED <<requestedEpoch, epoch, batch, forceUpload, batchRound>>

\* The snapshot, under the mutex: consent first, then generation.
Snapshot ==
    \/ /\ pc = "enabled"
       /\ IF Enabled THEN Goto("lock") ELSE Again
       /\ Locals /\ UNCHANGED <<state, control, queue, producers, menu>>
    \/ /\ pc = "lock" /\ ~locked
       /\ IF Enabled THEN locked' = TRUE /\ Goto("epoch") ELSE Again /\ UNCHANGED locked
       /\ Locals /\ UNCHANGED <<state, control, summaries, sent, round, producers, menu>>
    \/ /\ pc = "epoch"
       /\ epoch' = generation /\ Goto("snapshot")
       /\ forceUpload' = (requestedEpoch # None /\ requestedEpoch = generation)
       /\ UNCHANGED <<state, control, queue, producers, menu, requestedEpoch, batch, batchRound>>
    \/ /\ pc = "snapshot"
       \* What is not due and not urgent waits, unless the upload is forced.
       /\ batch' \in IF forceUpload THEN {summaries \ sent} ELSE SUBSET (summaries \ sent)
       /\ batchRound' = round /\ locked' = FALSE /\ Goto("begin")
       /\ UNCHANGED <<state, control, summaries, sent, round, producers, menu,
                      requestedEpoch, epoch, forceUpload>>

EndRound ==
    /\ IF stopped THEN Goto("done") ELSE Again
    /\ requestedEpoch' = None /\ batch' = {} /\ forceUpload' = FALSE
    /\ UNCHANGED <<epoch, batchRound>>

Check(condition, place) ==
    /\ IF condition THEN Goto(place) /\ Locals ELSE EndRound
    /\ UNCHANGED <<state, control, queue, producers, menu>>

\* Upload.  Of its many looks at whether the request is current the one before
\* the request is sent and the one after its answer are kept.
Upload ==
    \/ pc = "begin" /\ Check(batch # {} /\ epoch = generation, "begin2")
    \/ pc = "begin2" /\ Check(Enabled, "send")
    \/ pc = "send" /\ Check(~stopped /\ Enabled, "send2")
    \/ pc = "send2" /\ Check(epoch = generation, "sent")
    \/ pc = "sent" /\ \E accepted \in BOOLEAN : Check(accepted, "answered")
    \/ pc = "answered" /\ Check(~stopped /\ Enabled, "answered2")
    \/ pc = "answered2" /\ Check(epoch = generation, "accepted")

\* The answer is applied under the mutex.
Apply ==
    \/ /\ pc = "accepted" /\ ~locked
       /\ IF epoch = generation THEN locked' = TRUE /\ Goto("mark") /\ Locals
          ELSE EndRound /\ UNCHANGED locked
       /\ UNCHANGED <<state, control, summaries, sent, round, producers, menu>>
    \/ /\ pc = "mark"
       /\ sent' = IF Enabled THEN sent \cup (batch \cap summaries) ELSE sent
       /\ locked' = FALSE /\ EndRound
       /\ UNCHANGED <<state, control, summaries, round, producers, menu>>

Worker == Wait \/ Clear \/ Consume \/ Snapshot \/ Upload \/ Apply

Next ==
    \/ \E p \in Producers :
          LoadGeneration(p) \/ LoadConsent(p) \/ LoadRequested(p) \/ CompareExchange(p) \/ ProducerNotifies(p)
    \/ \E k \in Keys : Observe(k)
    \/ SetDevice \/ Enable \/ Revoke \/ Shutdown
    \/ Worker

Spec == Init /\ [][Next]_vars

------------------------------------------------------------------------------
(* Properties *)

\* The variables have their types.
TypeOK ==
    /\ consent \in {-1, 0, 1} /\ generation \in Nat /\ requested \in Nat \cup {None}
    /\ signaled \in BOOLEAN /\ stopped \in BOOLEAN /\ locked \in BOOLEAN /\ forceUpload \in BOOLEAN
    /\ tokens \in Nat
    /\ epochOf \in [Producers -> Nat] /\ queued \in [Producers -> Nat \cup {None}]
    /\ at \in [Producers -> {"idle", "consent", "load", "compare", "notify", "release"}]
    /\ menu \in {"idle", "revoking", "reset", "leaving", "stop", "notify", "release", "gone"}
    /\ requestedEpoch \in Nat \cup {None} /\ epoch \in Nat /\ round \in Nat /\ batchRound \in Nat

\* The binary semaphore never gets a second token, however many threads notify
\* and whenever the worker's wait times out.
SemaphoreBinary == tokens <= 1

\* The gate never forgets a request for one of an older epoch; only the worker
\* takes it away.
KeepsNewest == requested # None /\ requested' # requested => pc = "woken" \/ requested' > requested
NewestRequestKept == [][KeepsNewest]_vars

\* What the worker's checks are worth: an answer is applied only if no revocation
\* came between the snapshot's look at the generation and the answer, so that the
\* batch is at most one reset of the queue old, the one of a revocation that was
\* half done at the snapshot.
AnswerChecked ==
    pc = "mark" /\ sent' # sent => epoch = generation /\ batchRound \in {round - 1, round}
AnswersOfThisGeneration == [][AnswerChecked]_vars

\* A revocation invalidates what is in flight: the answer to an upload of what
\* was observed before the queue was reset marks nothing observed since as sent.
RevocationInvalidatesReplies ==
    [][pc = "mark" /\ sent' # sent => batchRound = round]_vars
==============================================================================
