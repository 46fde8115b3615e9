---------------------------- MODULE PageAllocator ----------------------------
(* One region of the guest page allocator (kernel/memory.cpp) under the        *)
(* NtAllocate/NtFreeVirtualMemory and MmAllocate/MmFreePhysicalMemory calls of *)
(* several guest threads (kernel/imports.cpp).                                 *)
(*                                                                             *)
(* The page map is guarded by the region's mutex, the table of allocation      *)
(* sizes by another one, taken inside it by Alloc but before it by Free: the   *)
(* two are updated in different steps.  A page's address is its number; a      *)
(* block is a run of pages.  The guest may free a block from any thread, and    *)
(* free it twice: the second call finds no entry and changes nothing.          *)
EXTENDS Integers, Sequences

CONSTANTS
    Threads, Nobody,    \* guest threads; the region's mutex is free
    NPages,             \* pages of the region
    Alignments,         \* in pages: 1 and that of large pages
    NoHint              \* base address 0

Page == 0 .. NPages - 1

ASSUME ThreadsAssumption == Nobody \notin Threads
ASSUME PagesAssumption == NPages \in Nat \ {0} /\ Alignments \subseteq Nat \ {0}
ASSUME HintAssumption == NoHint \notin Page

Block == [first : Page, count : 1 .. NPages]
Pages(b) == b.first .. b.first + b.count - 1

VARIABLES
    used,           \* pages marked in region.used
    sizes,          \* m_allocationSizes, 0 for no entry
    quarantine,     \* freed blocks that wait for reuse
    quarantining,   \* LO_PAGE_QUARANTINE is set
    mutex,          \* holder of region.mutex
    pc,             \* where each thread is
    request,        \* its request: [count, align, hint]
    block           \* the block it is allocating or releasing

vars == <<used, sizes, quarantine, quarantining, mutex, pc, request, block>>

NoRequest == [count |-> 1, align |-> 1, hint |-> NoHint]
NoBlock   == [first |-> 0, count |-> 1]

Goto(t, place) == pc' = [pc EXCEPT ![t] = place]

\* The call returns; its locals are gone.
Return(t) ==
    /\ Goto(t, "idle")
    /\ request' = [request EXCEPT ![t] = NoRequest]
    /\ block' = [block EXCEPT ![t] = NoBlock]

Init ==
    /\ used = {} /\ sizes = [p \in Page |-> 0]
    /\ quarantine = <<>> /\ quarantining \in BOOLEAN
    /\ mutex = Nobody
    /\ pc = [t \in Threads |-> "idle"]
    /\ request = [t \in Threads |-> NoRequest]
    /\ block = [t \in Threads |-> NoBlock]

------------------------------------------------------------------------------
(* Allocation *)

\* A virtual request is rounded to its alignment, base and size; a physical one
\* has an alignment of its own and no base.
Request ==
    {r \in [count : 1 .. NPages, align : Alignments, hint : Page \cup {NoHint}] :
        r.hint # NoHint => r.hint % r.align = 0 /\ r.count % r.align = 0}

Allocate(t) ==
    /\ pc[t] = "idle"
    /\ \E r \in Request :
          /\ request' = [request EXCEPT ![t] = r]
          /\ Goto(t, IF r.hint = NoHint THEN "any" ELSE "find")
    /\ UNCHANGED <<used, sizes, quarantine, quarantining, mutex, block>>

\* Some recorded allocation contains the page.
Recorded(p) == \E base \in Page : base <= p /\ p < base + sizes[base]

\* A request inside an existing allocation commits part of it: nothing to do.
FindAllocation(t) ==
    /\ pc[t] = "find"
    /\ IF Recorded(request[t].hint)
       THEN Return(t)
       ELSE Goto(t, "exact") /\ UNCHANGED <<request, block>>
    /\ UNCHANGED <<used, sizes, quarantine, quarantining, mutex>>

\* fault: looks at the first and the last page only
FitsEnds(U, p, n) == p + n <= NPages /\ p \notin U /\ p + n - 1 \notin U

\* fault: one page too many at the end of the region
FitsBeyond(U, p, n) == p + n <= NPages + 1 /\ \A q \in p .. p + n - 1 : q \notin U

\* tryRange
Fits(U, p, n) == p + n <= NPages /\ \A q \in p .. p + n - 1 : q \notin U

\* Marks the pages; the mutex is kept until the size is recorded.
Take(t, U, p) ==
    LET b == [first |-> p, count |-> request[t].count]
    IN  /\ used' = U \cup Pages(b)
        /\ block' = [block EXCEPT ![t] = b]
        /\ mutex' = t
        /\ Goto(t, "record")

AllocExact(t) ==
    /\ pc[t] = "exact" /\ mutex = Nobody
    /\ Fits(used, request[t].hint, request[t].count)
    /\ Take(t, used, request[t].hint)
    /\ UNCHANGED <<sizes, quarantine, quarantining, request>>

\* Exact address unavailable: any address.  A base outside the region fares
\* like one whose pages are taken.
AllocExactFails(t) ==
    /\ pc[t] = "exact" /\ mutex = Nobody
    /\ ~Fits(used, request[t].hint, request[t].count)
    /\ Goto(t, "any")
    /\ UNCHANGED <<used, sizes, quarantine, quarantining, mutex, request, block>>

\* Where the request fits while the pages U are in use; the lowest is taken.
Candidates(t, U) ==
    {p \in Page : p % request[t].align = 0 /\ Fits(U, p, request[t].count)}

FirstFit(t, U) == {p \in Candidates(t, U) : \A q \in Candidates(t, U) : p <= q}

AllocFirstFit(t) ==
    /\ pc[t] = "any" /\ mutex = Nobody
    /\ \E p \in FirstFit(t, used) : Take(t, used, p)
    /\ UNCHANGED <<sizes, quarantine, quarantining, request>>

\* Out of fresh pages: the older half of the quarantine is released and the
\* search made once more.
Released == IF Len(quarantine) = 1 THEN 1 ELSE Len(quarantine) \div 2
Unquarantined == used \ UNION {Pages(quarantine[k]) : k \in 1 .. Released}

AllocFromQuarantine(t) ==
    /\ pc[t] = "any" /\ mutex = Nobody
    /\ Candidates(t, used) = {} /\ quarantine # <<>>
    /\ quarantine' = SubSeq(quarantine, Released + 1, Len(quarantine))
    /\ IF Candidates(t, Unquarantined) # {}
       THEN /\ \E p \in FirstFit(t, Unquarantined) : Take(t, Unquarantined, p)
            /\ UNCHANGED request
       ELSE used' = Unquarantined /\ Return(t) /\ UNCHANGED mutex
    /\ UNCHANGED <<sizes, quarantining>>

AllocFails(t) ==
    /\ pc[t] = "any" /\ mutex = Nobody
    /\ Candidates(t, used) = {} /\ quarantine = <<>>
    /\ Return(t)
    /\ UNCHANGED <<used, sizes, quarantine, quarantining, mutex>>

\* The size is recorded and the mutex released: the guest has the block.
RecordSize(t) ==
    /\ pc[t] = "record"
    /\ sizes' = [sizes EXCEPT ![block[t].first] = block[t].count]
    /\ mutex' = Nobody
    /\ Return(t)
    /\ UNCHANGED <<used, quarantine, quarantining>>

------------------------------------------------------------------------------
(* Release, and a decommit of a whole allocation, which behaves the same *)

\* fault: the entry stays
EraseSizeForgets(t) ==
    /\ pc[t] = "idle"
    /\ \E p \in Page :
          /\ sizes[p] > 0
          /\ block' = [block EXCEPT ![t] = [first |-> p, count |-> sizes[p]]]
    /\ Goto(t, "release")
    /\ UNCHANGED <<used, sizes, quarantine, quarantining, mutex, request>>

\* The size is looked up and its entry erased; the pages are still in use.
EraseSize(t) ==
    /\ pc[t] = "idle"
    /\ \E p \in Page :
          /\ sizes[p] > 0
          /\ block' = [block EXCEPT ![t] = [first |-> p, count |-> sizes[p]]]
          /\ sizes' = [sizes EXCEPT ![p] = 0]
    /\ Goto(t, "release")
    /\ UNCHANGED <<used, quarantine, quarantining, mutex, request>>

\* fault: quarantines the block and frees its pages as well
ReleasePagesAnyway(t) ==
    /\ pc[t] = "release" /\ mutex = Nobody
    /\ quarantine' = IF quarantining THEN Append(quarantine, block[t]) ELSE quarantine
    /\ used' = used \ Pages(block[t])
    /\ Return(t)
    /\ UNCHANGED <<sizes, quarantining, mutex>>

ReleasePages(t) ==
    /\ pc[t] = "release" /\ mutex = Nobody
    /\ IF quarantining
       THEN quarantine' = Append(quarantine, block[t]) /\ UNCHANGED used
       ELSE used' = used \ Pages(block[t]) /\ UNCHANGED quarantine
    /\ Return(t)
    /\ UNCHANGED <<sizes, quarantining, mutex>>

Step(t) ==
    \/ Allocate(t) \/ FindAllocation(t) \/ AllocExact(t) \/ AllocExactFails(t)
    \/ AllocFirstFit(t) \/ AllocFromQuarantine(t) \/ AllocFails(t) \/ RecordSize(t)
    \/ EraseSize(t) \/ ReleasePages(t)

Next == \E t \in Threads : Step(t)

Spec == Init /\ [][Next]_vars

------------------------------------------------------------------------------
(* Properties *)

\* The variables have their types; no block reaches beyond the region, and the
\* mutex is held by the thread that marks pages and records their size.
TypeOK ==
    /\ used \subseteq Page
    /\ sizes \in [Page -> 0 .. NPages]
    /\ quarantine \in Seq(Block) /\ quarantining \in BOOLEAN
    /\ pc \in [Threads -> {"idle", "find", "exact", "any", "record", "release"}]
    /\ request \in [Threads -> [count : 1 .. NPages, align : Nat \ {0}, hint : Page \cup {NoHint}]]
    /\ block \in [Threads -> Block]
    /\ mutex \in Threads \cup {Nobody}
    /\ \A t \in Threads : pc[t] = "record" <=> mutex = t
    /\ \A t \in Threads : pc[t] \in {"find", "exact"} => request[t].hint \in Page

\* Who has a claim to pages: the guest to each recorded block, Alloc and Free to
\* the block they are at, the quarantine to its blocks.
Claims ==
    ({"recorded"} \X {p \in Page : sizes[p] > 0})
        \cup ({"moving"} \X {t \in Threads : pc[t] \in {"record", "release"}})
        \cup ({"quarantined"} \X DOMAIN quarantine)

Extent == [c \in Claims |->
    CASE c[1] = "recorded"    -> c[2] .. c[2] + sizes[c[2]] - 1
      [] c[1] = "moving"      -> Pages(block[c[2]])
      [] c[1] = "quarantined" -> Pages(quarantine[c[2]])]

\* The guest is never given pages that belong to another of its allocations, to
\* one that is being made or released by another thread, or to the quarantine:
\* what Alloc's search of region.used has to mean although Free erases the size
\* under another mutex, before it takes the region's.
AllocationsDisjoint ==
    \A c, d \in Claims : c # d => Extent[c] \cap Extent[d] = {}

\* A page is marked used exactly while somebody has a claim to it: no page leaks
\* through the two-step release or the quarantine, and none is free too early.
PagesAccounted == used = UNION {Extent[c] : c \in Claims}

\* Seen by the guest, whose blocks are those with a recorded size, all that Alloc
\* and Free do is to reserve and to free one block at a time, although a search,
\* the quarantine, two mutexes and other calls lie between the steps.
Held == {[first |-> p, count |-> sizes[p]] : p \in {q \in Page : sizes[q] > 0}}

Reservation == INSTANCE Reservations WITH held <- Held

ImplementsReservations == Reservation!Spec
==============================================================================
