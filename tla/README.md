# Lost Odyssey Recompiled: a TLA+ model

Lost Odyssey Recompiled runs the statically recompiled PowerPC code of an Xbox 360 game on a PC.
The recompiled functions call into a host layer (`LostOdysseyRecomp/`) that stands in for the
console's kernel, graphics and audio hardware. The guest's threads are host threads, the guest's
memory is shared by all of them, and the parts of the host run threads of their own: this project
models the places where those threads meet, and the one place where a crash must not cost the user
the installation.

Paths below are relative to `LostOdysseyRecomp/` unless they begin with `tools/` or `docs/`.

## 1. Inventory

### Components that are modelled

| Component | State | Operations | Meets | Hard behaviour | What makes it correct |
|---|---|---|---|---|---|
| Critical sections (`kernel/critical_section.h`, `kernel/imports.cpp` 602-633) | two words of guest memory: owner (atomic), recursion count (plain) | initialise, enter, try-enter, leave | all guest threads, which also read the words themselves | a plain word beside an atomic one; compare, then sleep; one sleeper woken | one owner, exact count, no lost wake-up, no starvation by sleep |
| Dispatcher objects (`kernel/imports.cpp` 170-600) | event flag, semaphore count, mutant owner and recursion, event generation | set, pulse, reset, release; wait for one, any, all; timeouts | guest threads, through handles or guest object headers | waits that poll and waits that sleep on one object; a wait for all takes objects one by one | signals neither made up nor spent twice, no thread asleep beside a signalled object |
| Guest threads (`cpu/guest_thread.cpp` 55-134, `kernel/imports.cpp` 701-811, 844) | handle with a suspended and a finished flag, joinable host thread | create, suspend, resume, exit, wait by the flag or by join, close | the guest's waits | the flag is stored before the thread has ended, and into the handle | a resumed thread runs, a wait is not over before the thread, the handle outlives it |
| Shader preparation queue (`gpu/shader/preparation_queue.h`) | claim counter, bounded queue, failure, cancellation | prepare in workers, consume in the caller, cancel, join | start-up and the shader cache | exceptions on both sides, cancellation, a full queue | each job once, bounded, complete when it says so, ends |
| Command ring (`gpu/command_processor.cpp`, `gpu/mmio.cpp`) | write pointer in two copies, read pointer and its writeback, sleep flag | guest register store, worker's poll, batch, sleep, wake | guest render thread, worker thread | relaxed flag, two copies stored one after the other, slots used again | packets once and in order, slots not reused too early, nothing left unexecuted |
| GPU interrupts (`gpu/command_processor.cpp` 472-560, 679-700, WAIT_REG_MEM) | queue of (number, CPU), signal counter, handler | push, pop, call the guest's handler, vertical blank | worker, interrupt and vertical blank threads, guest handler | three threads that may wait for each other | order, no sleep on a pending interrupt, the worker comes back |
| Update transaction (`updater/apply.cpp`, `standalone.cpp`, `windows_http.cpp`, `settings/restart.h`, `tools/updater/helper_main.cpp`) | files installed, staged and kept for rollback; handshake event; two processes | prepare, launch the helper, wait, hand over, replace, undo | game, standalone updater, helper, operating system | death of either process, power loss between two file operations, failing moves, timeout against a late answer | all or nothing as reported, no old file lost, nothing touched while the game runs |
| Guest page allocator (`kernel/memory.cpp` 96-250, `kernel/imports.cpp` 876-988) | page map, table of sizes, quarantine | allocate, commit, free, decommit | guest threads | two mutexes taken in opposite orders, so the two tables are never updated together on release | allocations disjoint, no page lost or freed early |
| XMA decoder (`apu/xma.cpp`, `apu/xma_loop.h`) | 64-byte contexts in guest memory, enabled and allocated flags, a frame being assembled, a frame being put out | kick, lock, clear, allocate, release; take a kick, read packets, decode, write PCM, store the context back | guest audio threads, in memory both write | the worker changes a copy and stores part of it back while the guest reads PCM and moves its cursor; frames across packets and buffers; ring full or empty | the guest hears the voice, once and in order; a locked context is the guest's; the voice ends |
| Start-up shader cache (`gpu/shader/startup_cache.h`, `gpu/renderer.cpp` 1900-2290) | source files, manifests, binaries, the bundle that certifies them; shaders installed | look at the inputs, take the bundle, scan, expand, prepare, publish, re-check; shaders met in play | the preparation queue, the game's files, the user | crash at any step, files that cannot be read or written, inputs that change between two looks at them | a bundle in force is true and complete; a start that takes it ends like one that does not; a load that fails leaves nothing; later starts are spared the work |
| Collection worker (`gpu/taa_collection.cpp`, `gpu/collection_worker.h`) | consent, generation, summaries, upload request, wake-up semaphore | observe, ask for an upload, consent, revoke, upload, stop | renderer, menu, input thread, a detached worker | atomics read one after the other without the lock; replies in flight when consent goes | a revocation invalidates what is in flight, the newest request is kept, the semaphore stays binary |

### Components that are not modelled

| Component | State and operations | Why, or when |
|---|---|---|
| User APCs, thread-local storage (`kernel/imports.cpp` 130-168, 664-692) | a queue and slots private to a thread | nothing another thread can see, but for the index allocator |
| Audio output (`apu/audio.cpp`) | client callback, frames submitted, semaphore of free frames | planned |
| File system, content, overlapped completion (`kernel/io/*`, `kernel/xam.cpp`, `kernel/dlc_content.cpp`) | open files, mounted content, overlapped results | completion is planned; path mapping is string work |
| Kernel handles (`kernel/xdm.*`) | a handle is the address of its object; a host object is made on first use of a guest header, under a lock | use of a closed handle is the guest's fault and an access to freed memory |
| Pipeline cache (`gpu/renderer.cpp`) | driver data in a file | opaque to the program |
| Main thread tasks (`os/main_thread.cpp`), log rotation (`os/log_file.cpp`), display changes (`gpu/display_change.h`) | small hand-over protocols | planned |
| Frame pacing (`gpu/frame_pacer.h`), guest poll back-off (`cpu/poll_wait.h`), update versions (`updater/update.cpp`) | pure functions | planned as operators checked against reference definitions |
| Renderer, video, temporal anti-aliasing, shader translation | thousands of lines whose meaning lies in a graphics API, in floating point, or in generated HLSL | outside a model checker's reach |
| Address space and heap, loader, function table, printf | operating-system mappings, an external allocator, sequential conversion | no protocol to check |
| Settings, menus, input, debug windows, start-up, installer, collectors | user interface, I/O, separate Python and JavaScript programs | no protocol to check, or another program |

`PROJECT.json` lists every component with its sources, and the hazards of this code line by line,
those no property covers yet with the reason.

### How the components meet

* Guest code calls imports; each import runs in the calling guest thread. Critical sections and
  dispatcher objects are the only ways guest threads block on each other.
* The guest's render thread stores the command ring's write pointer through a hooked MMIO store
  (or a plain one); the worker executes packets, writes the read pointer back into guest memory and
  queues interrupts; the interrupt and vertical blank threads call guest code, which sets
  dispatcher events and writes the memory that WAIT_REG_MEM packets wait for.
* Everything the guest allocates comes from the page allocator, from any guest thread.
* The guest's audio threads and the XMA worker share the contexts and the PCM rings in guest memory;
  only the commands (lock, kick, clear, release) wait for the worker.
* At start-up the cache decides whether shaders must be prepared at all; the preparation queue
  prepares them before the game runs, and shaders met in play are added to the same files.
* The renderer and the menu share summaries and consent with the collection worker. It is detached, so
  nobody waits for its replies; they are checked against a generation number instead.
* The updater runs before the game and replaces the files after it has exited.

## 2. The modules

Each module's head comment says what a step is and what was left out; the comment over an action
names what the code does there, and `PROJECT.json` maps every definition to its lines. Operators
marked `fault:` are not part of a specification: they are plausible bugs of the code in the form of
an altered definition, and each property is known to catch one of them (`mutants`).

* **`RecursiveLock`** is the abstract specification of a critical section, and of a mutant: how often
  each thread holds it. **`CriticalSection`** has the two guest words and the place of each thread between the
  atomic operations and the plain accesses of `Enter`, `TryEnter` and `Leave`. An acquisition takes
  effect at the compare-exchange and a release at the store that gives up the last claim: that is
  the refinement mapping `Claims`. Sleeping on the owner word is modelled as the library does it:
  compare again, sleep until notified or for no reason.
* **`Dispatcher`** has one atomic word for each event and semaphore and owner plus recursion for each
  mutant. A wait is a loop over the objects of its request; `test` takes the object or not in one
  step, as the compare-exchange does. Infinite waits on one object sleep, all others poll. Ghosts
  count the signals given, the waits they satisfied and what each thread holds. Each mutant is a
  `RecursiveLock` again (`MutantsAreLocks`), under the mapping `Depth`: the recursion word for the owner,
  nothing for the others. It is the words' own behaviour that is mapped, not the ghosts, whichever kind of wait
  takes the mutant. Guest threads are in
  the same module, since they are waited for in the same calls: a thread created in play sleeps on its
  `suspended` flag, runs, exits, stores `finished` and is gone, three steps apart; an infinite wait and
  `NtClose` join it, other waits look at the flag.
* **`PreparationQueue`** has the caller and the workers of one `RunBounded` call, with the mutex, the
  condition variable and the two atomics outside the mutex. Prepare, consume, idle and the creation
  of a thread may throw.
* **`CommandRing`** has the guest that stores the write pointer, in both its copies, and the worker
  that loads, adopts, sleeps, executes and writes back. A packet is a number and takes one slot.
  **`PacketStream`** is what the ring promises: a queue without slots, pointers or laps, from which each
  packet is executed in its turn. The mapping takes the packets
  published from the guest's side and those taken from what the worker has done with them.
* **`GpuInterrupts`** has the worker at PM4_INTERRUPT and WAIT_REG_MEM, the interrupt thread with
  the guest's handler, and the vertical blank.
* **`UpdateTransaction`** has the program that prepares an update, the helper, the handshake event
  and the files, each abstracted to the version it holds and the directory it lies in. Both
  processes may die and the machine may stop in any state; the next attempt starts from the files.
* **`PageAllocator`** has one region under the allocate and free calls of several threads. A page's
  address is its number. The size table and the page map change in different steps, as they are
  guarded by different mutexes. **`Reservations`** is the guest's view: a set of disjoint blocks in the
  region, to which one is added or from which one is taken away. The mapping `Held` reads the blocks
  from the size table, so a block comes into being when its size is recorded, long after its pages were
  marked, and goes when its size is erased, long before they are released.
* **`XmaDecoder`** has one context, the guest that plays a voice through it and the worker. `ctx` is the
  context in guest memory, `data` the worker's copy, of which it stores four words one by one. Bits of
  the compressed stream are named by their frame and their place in it, blocks of PCM by their frame and
  theirs, so that a frame put together from the wrong bits, or a block played twice, shows. The
  decoder library is a black box that turns a frame made of its own bits into PCM. `VoicesAssumption`
  says what kind of thing a voice is (buffers, packets, frames, loop), not that it is well formed. The
  names are prefixed with `Xma` where `CriticalSection` has the same, as one module proves about both.
* **`StartupCache`** has the files on disk, which outlive the program, and one start after the other: look
  at the inputs, take the bundle or scan, expand and prepare, then re-check and publish. A snapshot is
  the files it looks at. A load has its two passes: `Load` is the one that only reads, `Consume` installs the
  records of the second one by one, and where that fails (`ConsumeFails`) or the inputs have changed
  (`Validate`), `RollBack` takes the shaders back before the start does the work itself. Sources are written in
  place, by `SaveSource` only if they are not whole, by `ExtractIndexed` (`Write`) in any case. Files change
  from outside at any moment. The ghost `unseen` notes, for the start that is running, that a change came
  at a place where none of its later looks at the files shows it, and each bundle keeps the note;
  the program knows nothing of it. Failures, crashes and changes by the user share one budget
  (`MaxTroubles`).
* **`Collection`** has every atomic load and store of `consent` and `generation` in its own step: the
  worker's, the producers' that ask for an upload, and the menu's that revoke. The ghost `round`
  counts the resets of the summaries, `batchRound` is the one the batch in flight was taken in.

The MC modules give the constants that are not plain values, and say why the instance is large
enough. The proofs are in modules of their own, which extend the component's: `CriticalSectionProofs`,
`DispatcherProofs`, `PreparationQueueProofs`, `PageAllocatorProofs`, `CommandRingProofs`, `GpuProofs`
(the interrupts), `UpdateTransactionProofs` and `StartupCacheProofs`. Two stand beside another's: the
XMA decoder, the other place where the guest locks out who shares its memory, in
`CriticalSectionProofs`; and the collection worker, the other thread of `gpu/` that sleeps until it is
called, in `GpuProofs` (as the instance `Coll`).

## 3. What the runs show

| Run | Instance | States | Result |
|---|---|---|---|
| MCCriticalSection | 3 threads, 2 calls each, nested twice | 91 170 | one owner with an exact recursion word, no stranded sleeper, refinement of `RecursiveLock`, every Enter returns |
| MCDispatcher | 2 threads, one created by the other, one object of each kind, 11 kinds of wait, 2 calls each, count up to 2 | 442 813 | signals conserved, results true, threads ended when reported so, mutants exact and refining `RecursiveLock`, no stranded waiter, a signal that stays is not ignored, a resumed thread runs |
| MCPreparationQueue | 2 workers, 4 jobs, capacity 1 | 60 277 | bounded, each job once, complete on return, joined, ends unless the caller cancels |
| MCPreparationQueueCancel | the same | | **violation**: see Findings |
| MCPageAllocator | 2 threads, 4 pages, alignments 1 and 2 | 801 332 | allocations disjoint, every used page accounted for, refinement of `Reservations` |
| MCCommandRing | 4 slots, 6 packets, both kinds of store | 5 074 | refinement of `PacketStream`: once, in order and as written; everything executed |
| MCGpuInterrupts | 2 CPUs, 3 packets | 26 847 | interrupts in order, no sleep on a pending one, WAIT_REG_MEM ends |
| MCUpdateTransaction | 3 files, one of them new, 3 attempts | 8 382 | all or nothing as reported, old files survive, the helper waits for the exit |
| MCXmaDecoder | 6 voices, a ring of 3 blocks, one clear or release | 112 454 | what is heard is the voice, a locked context is left alone, no unread block is touched, everything is heard |
| MCStartupCache | 3 shaders, 3 troubles, any number of starts | 1 454 729 | a bundle's records are true, and complete unless a change came unseen; a warm start ends as a cold one, a failed load leaves nothing, later starts are warm |
| MCStartupCacheUnseen | 3 shaders, 1 trouble | | **violation**: see Findings |
| MCCollection | 1 producer, 1 key, 2 generations | | **violation**: see Findings |

Why the bounds are enough for what the runs ask:

* *Critical section.* Two sleepers and an owner are the least in which one notification can go to the
  wrong thread or to nobody, and a late thread can take the section before the one that was woken;
  nesting of two separates the last Leave from the others. The proofs lift the bound.
* *Dispatcher.* Every object kind meets every kind of wait, and the wait for all competes with a
  wait for each of its objects, in both orders. With two calls a thread can hold one object and wait
  for another, and can suspend and resume, or resume and wait for, the thread it created; creation,
  exit and close come on top of the calls. Three threads would mainly add repetitions of two-party
  races, and a second joiner, which the guest must not be. The proofs lift the bound.
* *Preparation queue.* With capacity one and two workers the queue is full with a worker waiting,
  emptied by the caller and filled by the other worker behind its back; four jobs let that happen
  and leave jobs for the end. The proofs lift the bound.
* *Page allocator.* Four pages hold a block, a block of the other size and a gap too small for either;
  the quarantine grows to four blocks, of which two are released and two shift. The proofs lift the
  bound.
* *Command ring.* Six packets in four slots wrap once and fill the ring, in batches of one to three. The
  proofs lift the bound.
* *Interrupts.* Three packets with one or two bits each queue up behind a spinning handler, and the
  queue also runs empty between two. The proofs lift the bound.
* *Update.* Three files give a replaced first file, a new one in the middle and the version file that
  must come last; three attempts let a second one start from a half-finished first, and a third from
  what the second made of it. The proofs lift the bound.
* *XMA.* A packet has 7 bits behind a header of 2, a length field 2, so that the voices' frames of three
  to ten bits split in every way: inside a length field, at a packet's end, across packets and
  across buffers. The voices (`Shared`, `Long`, `Interleaved`, `Refused`, `Loop`, `Endless`) also
  bring foreign packets to skip, frames the library refuses, and loops, finite and endless. A ring of
  three blocks runs full, runs empty and wraps in the middle of a frame; the endless loop is cut at 16
  blocks heard; no other voice is longer.
* *Start-up cache.* A shader of the game's files, a refused variant of it and a shader met in play give
  each kind of source; three troubles let a crash meet a change and a failed write, over any number of
  starts, and one is enough for the violation. The proofs lift the bound.
* *Collection.* One revocation between two agreements is what the violation needs.

Deadlock is checked except where the configuration says why the system may stop: a guest that waits
for a signal nobody gives, a call that has returned, no packets left, an installation up to date.

### Fairness

Host threads are scheduled by the operating system, so each thread's steps are weakly fair. The
guest owes nothing: no fairness of new calls, new packets or spurious wake-ups. It is assumed that
it gives back a critical section or a mutant it holds and finishes a register store it began, that
vertical blanks keep coming (`VsyncMain` is an endless timed loop), and that prepare, consume and
idle return. Strong fairness stands in two places for a mutex that is found free again and again: the preparation queue's, and the
wake mutex of the command ring. Without it a thread could try for ever at the wrong moments, which
the mutexes of the supported systems do not do. For the same reason the XMA guest's Lock, Kick, Submit
and Revalidate are strongly fair: the guest plays its voice, and gets the worker's mutex in the end; its
Start, allocation and reads are weakly fair, clears and releases are not fair at all. The start-up
cache's program goes on, and is started again after it ended.

### Findings

* `gpu/shader/preparation_queue.h:143` stores `cancelled` and notifies without the mutex. A worker
  between its predicate and its sleep misses both, and the caller then waits for it in `join` for
  ever. The comment at lines 50-51 promises that cancellation wake-ups keep both sides from waiting
  on each other (`MCPreparationQueueCancel`, `NeitherSideWaitsOnTheOther`). A *worker's* failure is
  stored under the mutex and has no such gap, which is why `EndsUnlessCallerCancels` holds.
* `gpu/renderer.cpp:1991` looks at the sources for the first time after the scan and the expansion have
  passed them, and line 2189 at everything once more after the last check. A source that disappears in
  the first window is in neither of the two looks that are compared, nor among those prepared: the bundle is
  published and certifies a listing that lacks a shader of the game's files; a change in the second window
  is certified without having been prepared. The check between (2187-2188) is there to publish no bundle when
  "source/resource inputs changed during preparation". Every later start takes the bundle and does
  not scan, until a file changes or the game meets the shader (`MCStartupCacheUnseen`,
  `CertifiedIsComplete`). `BundleFaithful` says what holds nevertheless: the records are true,
  and the bundle is complete when no change came in these windows.
* `gpu/taa_collection.cpp:116` reads the consent and then the generation for the snapshot. A revocation
  between the two (line 263 stores both, before it waits for the lock) leaves a batch of the revoked
  round with the new generation; if the player then agrees again before the worker looks next, all later
  checks pass, the batch is uploaded, and a record observed since then is marked as sent, where the
  comment at 261-262 says that a revocation invalidates in-flight replies (`MCCollection`,
  `RevocationInvalidatesReplies`). The window is a few instructions, and uploads exist on Windows only.
  `UploadRequestGate::Request` reads the two in the order that is safe.

One remark besides. `gpu/command_processor.cpp:380` publishes and notifies before the MMIO word is stored. A
worker that loads in between takes the old word for a direct store, goes back to it and spends the
wake-up, so that the 500 microsecond timeout brings it back where the comment at 442-443 says that
UpdateWritePointer wakes it immediately. Nothing is lost by it: `EverySubmissionExecuted` and `ImplementsStream`
hold in the model, which has these steps.

## 4. What is proved

The proofs hold for every value of the constants under the modules' named assumptions. These say that
the "nobody" values are not threads, that sizes are positive (the ring's more than one) and sets of
workers finite, that the requests of the dispatcher's guest are about its objects and there is one, that
a plan names each file once, that what the start-up cache is given are shaders, and that a voice of the XMA
context is a record of buffers, packets and frames with a first packet for each buffer.

**`CriticalSectionProofs`** (any number of threads, any nesting). `IInv` strengthens the checked
invariants by where each thread is: whoever touches the plain word is the owner (`OwnerPlaced`), the
count agrees with what the guest holds also in the middle of an Enter or Leave (`CountsAgree`), a
value loaded is still current when it is stored (`LoadsCurrent`), and only waiting threads sleep.
Exclusion alone is not inductive, since it says nothing of the load and store of the count that lead
to the release. From it: `MutualExclusion`, `RecursionExact` (`SectionExact`), `NobodyStranded`, and
`Refinement`, that every step of the two words is a step of `RecursiveLock` or leaves it alone.

**`PreparationQueueProofs`** (any number of workers and jobs, any capacity). `IInv` adds which job
indices are out (all below `next`), that the serial fallback runs only when no worker was started,
and how many results the caller has at each point and why it left its loop. `JobsOnce` rests on the
first, `ReturnIsComplete` on the last: the caller reaches the end of its loop with all jobs consumed
or with a reason that makes it throw or report a cancellation, and the results are distinct job
indices, so that as many as there are jobs are all of them (a counting argument over finite sets).
`NobodyStranded` is what is left of the comment that `MCPreparationQueueCancel` refutes: a caller that
has not cancelled itself is never in `join` while a worker sleeps, whatever fails in the workers. For it, `SleepInv`
says that a worker evaluates its predicate and falls asleep under the mutex, and that while only workers cancel,
which they do under the mutex too, a sleeper has a full queue before it or a pop about to wake it; in `join`, where
all jobs are consumed, there is no job left for a sleeper to hold. The caller's store of `cancelled`
without the mutex is the one step that would break `SleepInv`.

**`PageAllocatorProofs`** (any number of threads and pages, any alignments). Types, disjointness and
the account of the pages are inductive together: a search gives out pages nobody claims because all
claimed pages are marked, and freeing a block's pages takes nobody else's because claims are
disjoint. Every step but a take or a final release only renames claims (lemma `Rename`): pending to
recorded, recorded to pending, pending to quarantined, and a quarantined one to its new place when
the older half leaves. `Refinement` (`ImplementsReservations`) rests on the same invariant: a block that is
about to be recorded has a claim to its pages, and so meets no block the guest holds (`RecordReserves`);
erasing a size takes away exactly one block (`EraseFrees`); searching, marking, the quarantine and the
release of pages are stutters.

**`DispatcherProofs`** (any number of threads and objects, any requests). A wait takes its objects one by
one, and another thread may act between two of its steps, so that no checked invariant is
inductive. `IInv` adds: which kind of object a thread is at, at each place (`AboutKnown`); what a
wait has taken by now, nothing or the objects up to its position (`Progress`); that `finished`, joined and
closed follow a thread's end (`FlagsFollow`, `TakenThreadsOver`); and that a mutant's recursion word is
what its owner holds, in the two steps between owner and count too (`MutantLedger`). `Conservation` is an
account: a step that takes a unit gives it to one wait. `NoLostWakeup` rests on `SleepersBlocked`
and on what `notify_all` follows: whoever makes a sleeper's object signalled goes to the notification
next (lemma `SignalsAnnounced`). `MutantsRefine` proves `MutantsAreLocks`: a depth rises where the owner
counts up and falls where the release counts down. The owner word is set before the first and cleared
after the last, both at depth zero, so neither shows; that nobody else holds the mutant at the first, and
that the count is the owner's to lower, is `MutantLedger`.

**`CommandRingProofs`** (any size of the ring above one, any packets and stores past the hook).
The variables hold slots, and slots repeat, so the invariant counts packets from the first and says there
are counts with back <= read <= shown <= submitted <= written < back + Size of which the write-back, the
read pointer, the MMIO word, the guest's submissions and its tail are the slots (`Layout`). The worker's
batch lies between what it has read and what the word shows now (`Batch`): that is why an old word,
taken for a direct store, loses nothing. Lemmas `NextSlot` and `SameSlot` are the arithmetic of a lap.
`Order`: what was published is executed once and in order. `Refinement` (`ImplementsStream`): the packet
the worker is at is the one behind all that are done, so that executing it is a step of `PacketStream`; the
guest's two ways to publish are its other, and no other step shows.

**`GpuProofs`** (any CPUs, masks and packets). Interrupts handled, in hand and pending are one increasing run of
numbers (`Increasing`), and each number given out is in one of the three or was ignored for want of a
handler (`Accounted`): `InterruptOrder`. `NoLostWakeup` needs `SignalComes`: if `InterruptMain` has loaded a
signal that is still the same and something is pending, the worker is just about to change it.

**`UpdateTransactionProofs`** (any plan, any number of attempts, a crash at any step). Before position i every
file is replaced and behind it none is touched (`Forward`); undoing goes the other way (`Undoing`). With
`Fresh`, that nothing is touched before the helper begins, this gives `Atomicity` and `ExitFirst`. For
`NothingLost` the old version of every file is installed, in the backup, or in the backup directory of an
attempt that was broken off (`OldKept`), until an update is complete.

**`StartupCacheProofs`** (any shaders, variants and discs, any failures, crashes and changes, at any moment).
What a bundle certifies is said of the bundle alone (`Certified`: the sources its snapshot lists hold the game's
files, the executable's shaders and what is derived from each source, and its records are theirs), so no
later change can disturb it, and the invariant follows the files from look to look up to its publication: a
manifest lists what the files of its stamp held; the scan has found what it has visited, unless the files
changed; then all is whole (`Expanding`); sources only disappear while they are prepared, so that an equal
second look means none did (`Preparing`, `Rechecked`). Stamps only grow, so that an equal one means equal
resources (`Resources`). What a change behind a look can spoil has the premise `~unseen`, and no more: what
is installed and recorded is true in any case (`Installing`), a manifest tells the truth, and what a
load has consumed is in the bundle (`Loaded`), or gone again where the load failed. From it `Faithful` and
`WarmStart`, without a hypothesis.

**The XMA decoder** (in `CriticalSectionProofs`; any voices, ring and packet sizes). `XmaInv` says that the guest's lock
keeps the decoder out because a locked context is not enabled either (`OwnershipInv`: the worker's first look
at `enabled`, outside the mutex, decides nothing, its second, inside, does); that a context without a voice
has nothing to read (`Stopped`); that the decoder reads buffers of the voice, within them (`Buffers`); and, in
`RingAccount`, where the blocks of the ring are. They lie in this order from the guest's cursor: blocks to
be read, blocks of this round, blocks free in the decoder's copy of the context, blocks the guest has read
since that copy was made. The copy of the cursor is old, but the cursor only moves away from it, so the
decoder fills less than is free, and never the whole ring unless the guest has read nothing since the
copy; that settles the case in which the cursors meet and the ring may be full or empty, which
`outputValid` decides. From it: `XmaTypeCorrect`, `OwnershipTheorem` (`LockKeepsDecoderOut`) and `UnreadKept`
(`UnreadBlocksKept`): no step changes a published block that the guest has not read.

**The collection worker** (`Coll` in `GpuProofs`; any number of producers and keys). `SemaphoreTheorem` is the comment at
`gpu/collection_worker.h` 50-52: the wake-up semaphore never holds more than its one permit, because
who releases it is the one whose exchange found it quiet, and it becomes quiet only after the permit is
taken. `OneWakeUp` counts the permits and the releases on their way. `RequestTheorem` is about the
request gate (lines 14-15, 23-24): a request is replaced by newer ones only, whatever the order
in which the producers come to store theirs. `AnswersTheorem` says how far the worker's checks go where the
run finds its violation: an answer is applied only if no revocation came between the snapshot's look at the
generation and the answer, so that the batch is of the present round or of the one before, the one that a
revocation half done at the snapshot was about to end. `RoundInv` relates the generation to the resets, and
has no consent while the two differ.

Left to the model checker: all liveness properties (`EveryEnterReturns`, `EndsUnlessCallerCancels`,
`EverySubmissionExecuted`, `WaitRegMemEnds`, `NobodyIgnoresSignal`, `EverythingHeard`, `WarmInTheEnd`), since
fairness is beyond the prover; and `HeardIsTheVoice`, which holds for the voices given and not for every
sequence of packets: what a well-formed voice is would have to be assumed, and frames are put together
bit by bit, an induction over data. Of what it says, that no block is overwritten before it was read is proved
(`UnreadKept`); that the decoder writes the right blocks is not. Every other invariant or action property a run
checks, and each of the four refinements, is a theorem.

## 5. What the models leave out

* Memory is sequentially consistent, except for `m_workerSleeping`, which is accessed relaxed: the
  guest may read the old value until the worker has released the wake mutex.
* *Dispatcher*: user APCs in alertable waits, closing an object under a waiter; the spurious failure of
  `compare_exchange_weak`. Spin locks, which are one compare-exchange. A guest thread that waits for or
  closes itself by handle, and two that join one thread at a time, do what the thread library leaves
  undefined, and are left out. Suspending a thread that runs does nothing, here as in the code.
  `NtCreateMutant` with an initial owner (`kernel/imports.cpp` 579-583) is a creation followed by the creator's
  first wait, since nobody else has the handle before it returns.
* *Command ring*: what packets do; indirect buffers; a ring initialised a second time under a
  running worker (listed as a hazard). Packets are well formed: `ExecutePacket` never returns false, so the
  branch for a malformed one (`gpu/command_processor.cpp` 573-582) is dead, and a packet whose length passes
  the write offset would be read past it. The worker's test of its predicate and the release of the wake mutex
  are one step of `FallAsleep`; the timeout, always enabled, does what a wake-up missed in between would.
* *Update*: download, checksum and archive, which come down to the choice whether an update is
  offered; the user's answers; a `stat` that fails on a file that is there (`updater/apply.cpp` 46, 68),
  which the code takes for an absent file (listed as a hazard). An attempt starts when no helper of an earlier
  one is left; what the game may do while one works is listed as a hazard too.
* *XMA*: other contexts, which share nothing but the worker; the guards against endless loops (4096 and
  8192 rounds); `errorStatus`; what the library makes of a frame. The guest's side is its protocol (lock,
  change, kick, as `docs/notes/audio-output.md` describes it), and that it can tell a full ring from an
  empty one. The tail of a packet shorter than a length field (`apu/xma.cpp` 318) and a seek into a
  half-assembled frame (470) do not occur in the voices.
* *Start-up cache*: a snapshot's listing is one step; a change that shows neither in size nor in time is
  not a change; file formats are left out.
* *Collection*: four of the worker's five streams, which follow the summaries' epoch; retry times. There is
  no passing run beside the violation: what holds is proved.
* *Page allocator*: the guest that commits or frees inside another thread's allocation is right or
  wrong by itself; physical sizes within a page of 2^32, whose rounding wraps (`kernel/memory.cpp:116`; no
  caller in the repository asks for one).

## 6. Plan

In this order, with the questions each run is to answer:

1. `MainThreadTasks`, `AudioFrames`, `OverlappedCompletion`: hand-over protocols, one small run each, or
   one for those that are alike. `MainThreadTasks` has the task queued after the last drain.
2. Pure algorithms: version comparison, frame schedule and poll back-off, each checked against a
   reference definition over bounded inputs.
3. Composition of `CommandRing` and `GpuInterrupts`: a handler that submits packets.
4. An abstract specification of the start-up cache (the last published bundle or nothing), with
   `StartupCache` shown to implement it.
5. Proofs: `HeardIsTheVoice` for one class of voices, frames that never cross a packet, where no bits have
   to be put together.
