------------------------- MODULE PageAllocatorProofs -------------------------
(* For any number of threads and pages and any alignments: allocations never   *)
(* overlap, and a page is marked used exactly while somebody has a claim to it. *)
EXTENDS PageAllocator, SequenceTheorems, TLAPS

\* Where a thread's block is a claim.
Moves(t) == pc[t] \in {"record", "release"}

Apart(C, E) == \A c, d \in C : c # d => E[c] \cap E[d] = {}
Total(C, E) == UNION {E[c] : c \in C}

\* b takes the claims D with extents F one to one onto the claims C with extents E.
Renames(b, D, F, C, E) ==
  /\ b \in [D -> C]
  /\ \A c \in C : \E d \in D : b[d] = c
  /\ \A d, e \in D : d # e => b[d] # b[e]
  /\ \A d \in D : F[d] = E[b[d]]

IInv == TypeOK /\ AllocationsDisjoint /\ PagesAccounted

------------------------------------------------------------------------------
(* Claims in general *)

\* Claims that go by other names cover the same pages.
LEMMA Rename ==
  ASSUME NEW C, NEW E, NEW D, NEW F, NEW b, Renames(b, D, F, C, E), Apart(C, E)
  PROVE  Apart(D, F) /\ Total(D, F) = Total(C, E)
<1> USE DEF Renames
<1>1. Apart(D, F)
  <2> SUFFICES ASSUME NEW d \in D, NEW e \in D, d # e PROVE F[d] \cap F[e] = {}
    BY DEF Apart
  <2>1. b[d] \in C /\ b[e] \in C /\ b[d] # b[e]
    OBVIOUS
  <2> QED BY <2>1 DEF Apart
<1>2. Total(D, F) = Total(C, E)
  <2>1. ASSUME NEW q PROVE q \in Total(D, F) <=> \E d \in D : q \in E[b[d]]
    BY DEF Total
  <2>2. ASSUME NEW q PROVE q \in Total(C, E) <=> \E c \in C : q \in E[c]
    BY DEF Total
  <2>3. ASSUME NEW q
        PROVE  (\E d \in D : q \in E[b[d]]) <=> (\E c \in C : q \in E[c])
    BY b \in [D -> C]
  <2> QED BY <2>1, <2>2, <2>3
<1> QED BY <1>1, <1>2

\* Claims given up free exactly their pages.
LEMMA Drop ==
  ASSUME NEW C, NEW E, NEW X \in SUBSET C, Apart(C, E)
  PROVE  /\ Apart(C \ X, E)
         /\ Total(C \ X, E) = Total(C, E) \ Total(X, E)
<1>1. Apart(C \ X, E)
  BY DEF Apart
<1>2. ASSUME NEW q
      PROVE  q \in Total(C \ X, E) <=> q \in Total(C, E) \ Total(X, E)
  <2>1. q \in Total(C \ X, E) <=> \E c \in C \ X : q \in E[c]
    BY DEF Total
  <2>2. q \in Total(C, E) <=> \E c \in C : q \in E[c]
    BY DEF Total
  <2>3. q \in Total(X, E) <=> \E c \in X : q \in E[c]
    BY DEF Total
  <2>4. ASSUME NEW c \in C \ X, q \in E[c], NEW x \in X, q \in E[x] PROVE FALSE
    BY <2>4 DEF Apart
  <2> QED BY <2>1, <2>2, <2>3, <2>4
<1> QED BY <1>1, <1>2

------------------------------------------------------------------------------
(* The claims of a state *)

\* Which claims there are, and what they are to.
ClaimsRead ==
    /\ \A p : <<"recorded", p>> \in Claims <=> p \in Page /\ sizes[p] > 0
    /\ \A t : <<"moving", t>> \in Claims <=> t \in Threads /\ Moves(t)
    /\ \A i : <<"quarantined", i>> \in Claims <=> i \in 1 .. Len(quarantine)
    /\ \A c \in Claims : \/ \E p \in Page : c = <<"recorded", p>>
                         \/ \E t \in Threads : c = <<"moving", t>>
                         \/ \E i \in 1 .. Len(quarantine) : c = <<"quarantined", i>>
    /\ \A p \in Page : sizes[p] > 0 => Extent[<<"recorded", p>>] = p .. p + sizes[p] - 1
    /\ \A t \in Threads : Moves(t) => Extent[<<"moving", t>>] = Pages(block[t])
    /\ \A i \in 1 .. Len(quarantine) : Extent[<<"quarantined", i>>] = Pages(quarantine[i])

LEMMA Reading == TypeOK => ClaimsRead
<1> SUFFICES ASSUME TypeOK PROVE ClaimsRead
  OBVIOUS
<1>1. DOMAIN quarantine = 1 .. Len(quarantine)
  BY DEF TypeOK
<1>2. \A p : <<"recorded", p>> \in Claims <=> p \in Page /\ sizes[p] > 0
  BY DEF Claims
<1>3. \A t : <<"moving", t>> \in Claims <=> t \in Threads /\ Moves(t)
  BY DEF Claims, Moves
<1>4. \A i : <<"quarantined", i>> \in Claims <=> i \in 1 .. Len(quarantine)
  BY <1>1 DEF Claims
<1>5. \A c \in Claims : \/ \E p \in Page : c = <<"recorded", p>>
                        \/ \E t \in Threads : c = <<"moving", t>>
                        \/ \E i \in 1 .. Len(quarantine) : c = <<"quarantined", i>>
  BY <1>1 DEF Claims
<1>6. ASSUME NEW p \in Page, sizes[p] > 0
      PROVE  Extent[<<"recorded", p>>] = p .. p + sizes[p] - 1
  BY <1>2, <1>6 DEF Extent
<1>7. ASSUME NEW t \in Threads, Moves(t)
      PROVE  Extent[<<"moving", t>>] = Pages(block[t])
  BY <1>3, <1>7 DEF Extent
<1>8. ASSUME NEW i \in 1 .. Len(quarantine)
      PROVE  Extent[<<"quarantined", i>>] = Pages(quarantine[i])
  BY <1>4 DEF Extent
<1> QED BY <1>2, <1>3, <1>4, <1>5, <1>6, <1>7, <1>8 DEF ClaimsRead

------------------------------------------------------------------------------
(* Types *)

LEMMA TypeInit == Init => TypeOK
BY PagesAssumption, ThreadsAssumption DEF Init, TypeOK, Block, NoBlock, NoRequest, Page

\* The block a search finds is one, and nobody has its pages.
LEMMA Found ==
  ASSUME PagesAssumption, TypeOK, NEW t \in Threads, NEW U, NEW p \in Page,
         Fits(U, p, request[t].count)
  PROVE  /\ [first |-> p, count |-> request[t].count] \in Block
         /\ p .. p + request[t].count - 1 \subseteq Page
         /\ (p .. p + request[t].count - 1) \cap U = {}
<1>1. request[t].count \in 1 .. NPages
  BY DEF TypeOK
<1> QED BY <1>1 DEF PagesAssumption, Fits, Block, Page

\* The mutex is the caller's from the marking of the pages on.
LEMMA TypeTake ==
  ASSUME PagesAssumption, ThreadsAssumption, TypeOK, NEW t \in Threads, mutex = Nobody,
         NEW U \in SUBSET Page, NEW p \in Page, Fits(U, p, request[t].count), Take(t, U, p),
         UNCHANGED <<sizes, quarantining, request>>, quarantine' \in Seq(Block)
  PROVE  TypeOK'
<1>1. /\ [first |-> p, count |-> request[t].count] \in Block
      /\ p .. p + request[t].count - 1 \subseteq Page
  BY Found
<1>2. used' \subseteq Page
  BY <1>1 DEF Take, Pages
<1>3. block' \in [Threads -> Block]
  BY <1>1 DEF Take, TypeOK
<1>4. /\ pc' \in [Threads -> {"idle", "find", "exact", "any", "record", "release"}]
      /\ mutex' \in Threads \cup {Nobody}
      /\ \A u \in Threads : pc'[u] = "record" <=> mutex' = u
      /\ \A u \in Threads : pc'[u] \in {"find", "exact"} => request'[u].hint \in Page
  BY DEF Take, Goto, TypeOK, ThreadsAssumption
<1> QED BY <1>2, <1>3, <1>4 DEF TypeOK

\* A call that returns without the mutex.
LEMMA TypeReturn ==
  ASSUME PagesAssumption, ThreadsAssumption, TypeOK, NEW t \in Threads, Return(t),
         pc[t] # "record", UNCHANGED <<sizes, quarantining, mutex>>,
         used' \subseteq Page, quarantine' \in Seq(Block)
  PROVE  TypeOK'
<1>1. /\ NoBlock \in Block
      /\ NoRequest \in [count : 1 .. NPages, align : Nat \ {0}, hint : Page \cup {NoHint}]
  BY DEF PagesAssumption, Block, Page, NoBlock, NoRequest
<1>2. /\ block' \in [Threads -> Block]
      /\ request' \in [Threads -> [count : 1 .. NPages, align : Nat \ {0}, hint : Page \cup {NoHint}]]
  BY <1>1 DEF Return, TypeOK
<1>3. /\ pc' \in [Threads -> {"idle", "find", "exact", "any", "record", "release"}]
      /\ \A u \in Threads : pc'[u] = "record" <=> mutex' = u
      /\ \A u \in Threads : pc'[u] \in {"find", "exact"} => request'[u].hint \in Page
  BY DEF Return, Goto, TypeOK
<1> QED BY <1>2, <1>3 DEF TypeOK

\* The quarantine after the older half of it is released.
LEMMA Older ==
  ASSUME TypeOK, quarantine # <<>>
  PROVE  /\ Released \in 1 .. Len(quarantine)
         /\ SubSeq(quarantine, Released + 1, Len(quarantine)) \in Seq(Block)
         /\ Len(SubSeq(quarantine, Released + 1, Len(quarantine))) = Len(quarantine) - Released
         /\ \A i \in 1 .. Len(quarantine) - Released :
               SubSeq(quarantine, Released + 1, Len(quarantine))[i] = quarantine[i + Released]
<1>1. quarantine \in Seq(Block) /\ Len(quarantine) \in Nat /\ Len(quarantine) # 0
  BY DEF TypeOK
<1>2. Released \in 1 .. Len(quarantine)
  BY <1>1 DEF Released
<1> QED BY <1>1, <1>2

\* Every step keeps the types.
LEMMA TypeStep ==
  ASSUME PagesAssumption, ThreadsAssumption, TypeOK, NEW t \in Threads, Step(t)
  PROVE  TypeOK'
<1>1. CASE Allocate(t)
  <2>1. PICK r \in Request :
          /\ request' = [request EXCEPT ![t] = r]
          /\ Goto(t, IF r.hint = NoHint THEN "any" ELSE "find")
    BY <1>1 DEF Allocate
  <2>2. r \in [count : 1 .. NPages, align : Nat \ {0}, hint : Page \cup {NoHint}]
    BY DEF Request, PagesAssumption
  <2>3. request' \in [Threads -> [count : 1 .. NPages, align : Nat \ {0}, hint : Page \cup {NoHint}]]
    BY <2>1, <2>2 DEF TypeOK
  <2>4. /\ pc' \in [Threads -> {"idle", "find", "exact", "any", "record", "release"}]
        /\ \A u \in Threads : pc'[u] = "record" <=> mutex' = u
        /\ \A u \in Threads : pc'[u] \in {"find", "exact"} => request'[u].hint \in Page
    BY <1>1, <2>1, <2>2 DEF Goto, TypeOK, Allocate
  <2> QED BY <1>1, <2>3, <2>4 DEF Allocate, TypeOK
<1>2. CASE FindAllocation(t)
  <2>1. CASE Return(t)
    BY <1>2, <2>1, TypeReturn DEF FindAllocation, TypeOK
  <2>2. CASE Goto(t, "exact") /\ UNCHANGED <<request, block>>
    BY <1>2, <2>2 DEF FindAllocation, Goto, TypeOK
  <2> QED BY <1>2, <2>1, <2>2 DEF FindAllocation
<1>3. CASE AllocExact(t)
  <2>1. request[t].hint \in Page
    BY <1>3 DEF AllocExact, TypeOK
  <2> QED BY <1>3, <2>1, TypeTake DEF AllocExact, TypeOK
<1>4. CASE AllocExactFails(t)
  BY <1>4 DEF AllocExactFails, Goto, TypeOK
<1>5. CASE AllocFirstFit(t)
  <2>1. PICK p \in FirstFit(t, used) : Take(t, used, p)
    BY <1>5 DEF AllocFirstFit
  <2>2. p \in Page /\ Fits(used, p, request[t].count)
    BY DEF FirstFit, Candidates
  <2> QED BY <1>5, <2>1, <2>2, TypeTake DEF AllocFirstFit, TypeOK
<1>6. CASE AllocFromQuarantine(t)
  <2>1. quarantine' \in Seq(Block)
    BY <1>6, Older DEF AllocFromQuarantine
  <2>2. Unquarantined \subseteq Page
    BY DEF Unquarantined, TypeOK
  <2>3. CASE Candidates(t, Unquarantined) # {}
    <3>1. PICK p \in FirstFit(t, Unquarantined) : Take(t, Unquarantined, p)
      BY <1>6, <2>3 DEF AllocFromQuarantine
    <3>2. p \in Page /\ Fits(Unquarantined, p, request[t].count)
      BY DEF FirstFit, Candidates
    <3> QED BY <1>6, <2>1, <2>2, <2>3, <3>1, <3>2, TypeTake DEF AllocFromQuarantine
  <2>4. CASE Candidates(t, Unquarantined) = {}
    BY <1>6, <2>1, <2>2, <2>4, TypeReturn DEF AllocFromQuarantine
  <2> QED BY <2>3, <2>4
<1>7. CASE AllocFails(t)
  BY <1>7, TypeReturn DEF AllocFails, TypeOK
<1>8. CASE RecordSize(t)
  <2>1. sizes' \in [Page -> 0 .. NPages]
    BY <1>8 DEF RecordSize, TypeOK, Block, PagesAssumption
  <2>2. /\ NoBlock \in Block
        /\ NoRequest \in [count : 1 .. NPages, align : Nat \ {0}, hint : Page \cup {NoHint}]
    BY DEF PagesAssumption, Block, Page, NoBlock, NoRequest
  <2>3. /\ block' \in [Threads -> Block]
        /\ request' \in [Threads -> [count : 1 .. NPages, align : Nat \ {0}, hint : Page \cup {NoHint}]]
    BY <1>8, <2>2 DEF RecordSize, Return, TypeOK
  <2>4. /\ pc' \in [Threads -> {"idle", "find", "exact", "any", "record", "release"}]
        /\ mutex' \in Threads \cup {Nobody}
        /\ \A u \in Threads : pc'[u] = "record" <=> mutex' = u
        /\ \A u \in Threads : pc'[u] \in {"find", "exact"} => request'[u].hint \in Page
    BY <1>8 DEF RecordSize, Return, Goto, TypeOK, ThreadsAssumption
  <2> QED BY <1>8, <2>1, <2>3, <2>4 DEF RecordSize, TypeOK
<1>9. CASE EraseSize(t)
  <2>1. PICK p \in Page :
          /\ sizes[p] > 0
          /\ block' = [block EXCEPT ![t] = [first |-> p, count |-> sizes[p]]]
          /\ sizes' = [sizes EXCEPT ![p] = 0]
    BY <1>9 DEF EraseSize
  <2>2. sizes' \in [Page -> 0 .. NPages] /\ block' \in [Threads -> Block]
    BY <2>1 DEF TypeOK, Block, PagesAssumption
  <2>3. /\ pc' \in [Threads -> {"idle", "find", "exact", "any", "record", "release"}]
        /\ \A u \in Threads : pc'[u] = "record" <=> mutex' = u
        /\ \A u \in Threads : pc'[u] \in {"find", "exact"} => request'[u].hint \in Page
    BY <1>9 DEF EraseSize, Goto, TypeOK
  <2> QED BY <1>9, <2>2, <2>3 DEF EraseSize, TypeOK
<1>10. CASE ReleasePages(t)
  <2>1. CASE quarantining
    <3>1. quarantine' \in Seq(Block) /\ used' \subseteq Page /\ pc[t] # "record"
      <4>1. quarantine' = Append(quarantine, block[t]) /\ used' = used /\ pc[t] = "release"
        BY <1>10, <2>1 DEF ReleasePages
      <4>2. block[t] \in Block /\ quarantine \in Seq(Block) /\ used \subseteq Page
        BY DEF TypeOK
      <4> QED BY <4>1, <4>2
    <3> QED BY <1>10, <3>1, TypeReturn DEF ReleasePages
  <2>2. CASE ~quarantining
    BY <1>10, <2>2, TypeReturn DEF ReleasePages, TypeOK
  <2> QED BY <2>1, <2>2
<1> QED BY <1>1, <1>2, <1>3, <1>4, <1>5, <1>6, <1>7, <1>8, <1>9, <1>10 DEF Step

------------------------------------------------------------------------------
(* Claims *)

\* The claims keep apart and account for the pages when each of the new ones is
\* an old one under the same or another name.
LEMMA SameClaims ==
  ASSUME AllocationsDisjoint, PagesAccounted, used' = used,
         NEW b \in [Claims' -> Claims],
         \A c \in Claims : \E d \in Claims' : b[d] = c,
         \A d, e \in Claims' : d # e => b[d] # b[e],
         \A d \in Claims' : Extent'[d] = Extent[b[d]]
  PROVE  AllocationsDisjoint' /\ PagesAccounted'
<1>1. Renames(b, Claims', Extent', Claims, Extent)
  BY DEF Renames
<1>2. Apart(Claims, Extent) /\ Total(Claims, Extent) = used
  BY DEF Apart, Total, AllocationsDisjoint, PagesAccounted
<1>3. Apart(Claims', Extent') /\ Total(Claims', Extent') = Total(Claims, Extent)
  BY <1>1, <1>2, Rename
<1> QED BY <1>2, <1>3 DEF Apart, Total, AllocationsDisjoint, PagesAccounted

\* What a thread does outside of record and release moves no claim.
LEMMA QuietStep ==
  ASSUME IInv, TypeOK', NEW t \in Threads,
         UNCHANGED <<used, sizes, quarantine>>, ~Moves(t), ~Moves(t)',
         \A u \in Threads \ {t} : pc'[u] = pc[u] /\ block'[u] = block[u]
  PROVE  AllocationsDisjoint' /\ PagesAccounted'
<1>1. ClaimsRead /\ ClaimsRead'
  BY Reading, PTL DEF IInv
<1>2. Claims' = Claims
  BY DEF Claims, Moves
<1>3. \A u \in Threads : Moves(u) => u # t
  OBVIOUS
<1>4. ASSUME NEW c \in Claims PROVE Extent'[c] = Extent[c]
  <2>1. CASE \E p \in Page : c = <<"recorded", p>>
    BY <1>1, <1>2, <2>1 DEF ClaimsRead
  <2>2. CASE \E u \in Threads : c = <<"moving", u>>
    BY <1>1, <1>2, <1>3, <2>2 DEF ClaimsRead, Pages, Moves
  <2>3. CASE \E i \in 1 .. Len(quarantine) : c = <<"quarantined", i>>
    BY <1>1, <1>2, <2>3 DEF ClaimsRead, Pages
  <2> QED BY <1>1, <2>1, <2>2, <2>3 DEF ClaimsRead
<1> DEFINE b == [c \in Claims |-> c]
<1>5. b \in [Claims' -> Claims]
  BY <1>2
<1> QED BY <1>2, <1>4, <1>5, SameClaims DEF IInv

\* A recorded block is one the thread was at; nothing recorded began there, for
\* the two would have shared that page.
LEMMA RecordStep ==
  ASSUME IInv, TypeOK', NEW t \in Threads, RecordSize(t)
  PROVE  AllocationsDisjoint' /\ PagesAccounted'
<1> DEFINE m == <<"moving", t>>
           p == block[t].first
           r == <<"recorded", p>>
<1>1. ClaimsRead /\ ClaimsRead'
  BY Reading, PTL DEF IInv
<1>2. /\ used' = used /\ quarantine' = quarantine
      /\ sizes' = [sizes EXCEPT ![p] = block[t].count]
      /\ Moves(t) /\ ~Moves(t)'
      /\ \A u \in Threads \ {t} : pc'[u] = pc[u] /\ block'[u] = block[u]
  BY DEF RecordSize, Return, Goto, Moves, IInv, TypeOK
<1>3. /\ p \in Page /\ block[t].count \in 1 .. NPages
      /\ \A q \in Page : sizes[q] \in 0 .. NPages
  BY DEF IInv, TypeOK, Block
<1>4. m \in Claims /\ Extent[m] = p .. p + block[t].count - 1
  BY <1>1, <1>2 DEF ClaimsRead, Pages
<1>5. sizes[p] = 0
  <2> SUFFICES ASSUME sizes[p] # 0 PROVE FALSE
    OBVIOUS
  <2>1. sizes[p] > 0 /\ r \in Claims
    BY <1>1, <1>3 DEF ClaimsRead
  <2>2. p \in Extent[r]
    BY <1>1, <1>3, <2>1 DEF ClaimsRead, Page
  <2>3. p \in Extent[m]
    BY <1>3, <1>4 DEF Page
  <2> QED BY <1>4, <2>1, <2>2, <2>3 DEF IInv, AllocationsDisjoint
<1>6. sizes' \in [Page -> 0 .. NPages] /\ sizes'[p] = block[t].count
      /\ \A q \in Page \ {p} : sizes'[q] = sizes[q]
  BY <1>2, <1>3 DEF IInv, TypeOK
<1>7. Claims' = (Claims \ {m}) \cup {r} /\ r \notin Claims
  <2>1. r \notin Claims
    BY <1>1, <1>5 DEF ClaimsRead
  <2>2. ASSUME NEW c \in Claims' PROVE c \in (Claims \ {m}) \cup {r}
    <3>1. CASE \E q \in Page : c = <<"recorded", q>>
      BY <1>1, <1>6, <3>1 DEF ClaimsRead
    <3>2. CASE \E u \in Threads : c = <<"moving", u>>
      BY <1>1, <1>2, <3>2 DEF ClaimsRead, Moves
    <3>3. CASE \E i \in 1 .. Len(quarantine') : c = <<"quarantined", i>>
      BY <1>1, <1>2, <3>3 DEF ClaimsRead
    <3> QED BY <1>1, <3>1, <3>2, <3>3 DEF ClaimsRead
  <2>3. ASSUME NEW c \in Claims \ {m} PROVE c \in Claims'
    <3>1. CASE \E q \in Page : c = <<"recorded", q>>
      BY <1>1, <1>5, <1>6, <3>1 DEF ClaimsRead
    <3>2. CASE \E u \in Threads : c = <<"moving", u>>
      BY <1>1, <1>2, <3>2 DEF ClaimsRead, Moves
    <3>3. CASE \E i \in 1 .. Len(quarantine) : c = <<"quarantined", i>>
      BY <1>1, <1>2, <3>3 DEF ClaimsRead
    <3> QED BY <1>1, <3>1, <3>2, <3>3 DEF ClaimsRead
  <2>4. r \in Claims'
    BY <1>1, <1>3, <1>6 DEF ClaimsRead
  <2> QED BY <2>1, <2>2, <2>3, <2>4
<1>8. ASSUME NEW c \in Claims \ {m} PROVE Extent'[c] = Extent[c]
  <2>1. CASE \E q \in Page : c = <<"recorded", q>>
    BY <1>1, <1>5, <1>6, <2>1 DEF ClaimsRead
  <2>2. CASE \E u \in Threads : c = <<"moving", u>>
    BY <1>1, <1>2, <2>2 DEF ClaimsRead, Pages, Moves
  <2>3. CASE \E i \in 1 .. Len(quarantine) : c = <<"quarantined", i>>
    BY <1>1, <1>2, <2>3 DEF ClaimsRead, Pages
  <2> QED BY <1>1, <2>1, <2>2, <2>3 DEF ClaimsRead
<1>9. Extent'[r] = Extent[m]
  BY <1>1, <1>3, <1>4, <1>6 DEF ClaimsRead
<1> DEFINE b == [c \in Claims' |-> IF c = r THEN m ELSE c]
<1>10. b \in [Claims' -> Claims]
  BY <1>4, <1>7
<1>11. \A c \in Claims : \E d \in Claims' : b[d] = c
  BY <1>7
<1>12. \A d, e \in Claims' : d # e => b[d] # b[e]
  BY <1>7
<1>13. \A d \in Claims' : Extent'[d] = Extent[b[d]]
  BY <1>7, <1>8, <1>9
<1> HIDE DEF b
<1> QED BY <1>2, <1>10, <1>11, <1>12, <1>13, SameClaims DEF IInv

\* A block whose size is erased becomes the thread's own.
LEMMA EraseStep ==
  ASSUME IInv, TypeOK', NEW t \in Threads, EraseSize(t)
  PROVE  AllocationsDisjoint' /\ PagesAccounted'
<1>1. ClaimsRead /\ ClaimsRead'
  BY Reading, PTL DEF IInv
<1>2. PICK p \in Page :
        /\ sizes[p] > 0
        /\ block' = [block EXCEPT ![t] = [first |-> p, count |-> sizes[p]]]
        /\ sizes' = [sizes EXCEPT ![p] = 0]
  BY DEF EraseSize
<1> DEFINE m == <<"moving", t>>
           r == <<"recorded", p>>
<1>3. /\ used' = used /\ quarantine' = quarantine
      /\ ~Moves(t) /\ Moves(t)'
      /\ \A u \in Threads \ {t} : pc'[u] = pc[u] /\ block'[u] = block[u]
      /\ block'[t] = [first |-> p, count |-> sizes[p]]
  BY <1>2 DEF EraseSize, Goto, Moves, IInv, TypeOK
<1>4. sizes'[p] = 0 /\ \A q \in Page \ {p} : sizes'[q] = sizes[q]
  BY <1>2 DEF IInv, TypeOK
<1>5. Claims' = (Claims \ {r}) \cup {m} /\ m \notin Claims /\ r \in Claims
  <2>1. m \notin Claims /\ r \in Claims
    BY <1>1, <1>2, <1>3 DEF ClaimsRead
  <2>2. ASSUME NEW c \in Claims' PROVE c \in (Claims \ {r}) \cup {m}
    <3>1. CASE \E q \in Page : c = <<"recorded", q>>
      BY <1>1, <1>4, <3>1 DEF ClaimsRead
    <3>2. CASE \E u \in Threads : c = <<"moving", u>>
      BY <1>1, <1>3, <3>2 DEF ClaimsRead, Moves
    <3>3. CASE \E i \in 1 .. Len(quarantine') : c = <<"quarantined", i>>
      BY <1>1, <1>3, <3>3 DEF ClaimsRead
    <3> QED BY <1>1, <3>1, <3>2, <3>3 DEF ClaimsRead
  <2>3. ASSUME NEW c \in Claims \ {r} PROVE c \in Claims'
    <3>1. CASE \E q \in Page : c = <<"recorded", q>>
      BY <1>1, <1>4, <3>1 DEF ClaimsRead
    <3>2. CASE \E u \in Threads : c = <<"moving", u>>
      BY <1>1, <1>3, <3>2 DEF ClaimsRead, Moves
    <3>3. CASE \E i \in 1 .. Len(quarantine) : c = <<"quarantined", i>>
      BY <1>1, <1>3, <3>3 DEF ClaimsRead
    <3> QED BY <1>1, <3>1, <3>2, <3>3 DEF ClaimsRead
  <2>4. m \in Claims'
    BY <1>1, <1>3 DEF ClaimsRead
  <2> QED BY <2>1, <2>2, <2>3, <2>4
<1>6. ASSUME NEW c \in Claims \ {r} PROVE Extent'[c] = Extent[c]
  <2>1. CASE \E q \in Page : c = <<"recorded", q>>
    BY <1>1, <1>4, <1>5, <2>1 DEF ClaimsRead
  <2>2. CASE \E u \in Threads : c = <<"moving", u>>
    BY <1>1, <1>3, <2>2 DEF ClaimsRead, Pages, Moves
  <2>3. CASE \E i \in 1 .. Len(quarantine) : c = <<"quarantined", i>>
    BY <1>1, <1>3, <2>3 DEF ClaimsRead, Pages
  <2> QED BY <1>1, <2>1, <2>2, <2>3 DEF ClaimsRead
<1>7. Extent'[m] = Extent[r]
  BY <1>1, <1>2, <1>3 DEF ClaimsRead, Pages
<1> DEFINE b == [c \in Claims' |-> IF c = m THEN r ELSE c]
<1>8. b \in [Claims' -> Claims]
  BY <1>5
<1>9. \A c \in Claims : \E d \in Claims' : b[d] = c
  BY <1>5
<1>10. \A d, e \in Claims' : d # e => b[d] # b[e]
  BY <1>5
<1>11. \A d \in Claims' : Extent'[d] = Extent[b[d]]
  BY <1>5, <1>6, <1>7
<1> HIDE DEF b
<1> QED BY <1>3, <1>8, <1>9, <1>10, <1>11, SameClaims DEF IInv

\* A released block joins the quarantine, or its pages are free and the claim
\* is gone.
LEMMA ReleaseStep ==
  ASSUME IInv, TypeOK', NEW t \in Threads, ReleasePages(t)
  PROVE  AllocationsDisjoint' /\ PagesAccounted'
<1> DEFINE m == <<"moving", t>>
           n == Len(quarantine) + 1
           r == <<"quarantined", n>>
<1>1. ClaimsRead /\ ClaimsRead'
  BY Reading, PTL DEF IInv
<1>2. /\ sizes' = sizes
      /\ Moves(t) /\ ~Moves(t)'
      /\ \A u \in Threads \ {t} : pc'[u] = pc[u] /\ block'[u] = block[u]
  BY DEF ReleasePages, Return, Goto, Moves, IInv, TypeOK
<1>3. m \in Claims /\ Extent[m] = Pages(block[t])
  BY <1>1, <1>2 DEF ClaimsRead
<1>4. quarantine \in Seq(Block) /\ Len(quarantine) \in Nat /\ block[t] \in Block
  BY DEF IInv, TypeOK
<1>5. CASE quarantining
  <2>1. quarantine' = Append(quarantine, block[t]) /\ used' = used
    BY <1>5 DEF ReleasePages
  <2>2. /\ Len(quarantine') = n /\ quarantine'[n] = block[t]
        /\ \A i \in 1 .. Len(quarantine) : quarantine'[i] = quarantine[i]
    BY <1>4, <2>1
  <2>3. Claims' = (Claims \ {m}) \cup {r} /\ r \notin Claims
    <3>1. r \notin Claims
      BY <1>1, <1>4 DEF ClaimsRead
    <3>2. ASSUME NEW c \in Claims' PROVE c \in (Claims \ {m}) \cup {r}
      <4>1. CASE \E q \in Page : c = <<"recorded", q>>
        BY <1>1, <1>2, <4>1 DEF ClaimsRead
      <4>2. CASE \E u \in Threads : c = <<"moving", u>>
        BY <1>1, <1>2, <4>2 DEF ClaimsRead, Moves
      <4>3. CASE \E i \in 1 .. Len(quarantine') : c = <<"quarantined", i>>
        BY <1>1, <1>4, <2>2, <4>3 DEF ClaimsRead
      <4> QED BY <1>1, <4>1, <4>2, <4>3 DEF ClaimsRead
    <3>3. ASSUME NEW c \in Claims \ {m} PROVE c \in Claims'
      <4>1. CASE \E q \in Page : c = <<"recorded", q>>
        BY <1>1, <1>2, <4>1 DEF ClaimsRead
      <4>2. CASE \E u \in Threads : c = <<"moving", u>>
        BY <1>1, <1>2, <4>2 DEF ClaimsRead, Moves
      <4>3. CASE \E i \in 1 .. Len(quarantine) : c = <<"quarantined", i>>
        BY <1>1, <1>4, <2>2, <4>3 DEF ClaimsRead
      <4> QED BY <1>1, <4>1, <4>2, <4>3 DEF ClaimsRead
    <3>4. r \in Claims'
      BY <1>1, <1>4, <2>2 DEF ClaimsRead
    <3> QED BY <3>1, <3>2, <3>3, <3>4
  <2>4. ASSUME NEW c \in Claims \ {m} PROVE Extent'[c] = Extent[c]
    <3>1. CASE \E q \in Page : c = <<"recorded", q>>
      BY <1>1, <1>2, <3>1 DEF ClaimsRead
    <3>2. CASE \E u \in Threads : c = <<"moving", u>>
      BY <1>1, <1>2, <3>2 DEF ClaimsRead, Pages, Moves
    <3>3. CASE \E i \in 1 .. Len(quarantine) : c = <<"quarantined", i>>
      BY <1>1, <1>4, <2>2, <3>3 DEF ClaimsRead, Pages
    <3> QED BY <1>1, <3>1, <3>2, <3>3 DEF ClaimsRead
  <2>5. Extent'[r] = Extent[m]
    BY <1>1, <1>3, <1>4, <2>2 DEF ClaimsRead, Pages
  <2> DEFINE b == [c \in Claims' |-> IF c = r THEN m ELSE c]
  <2>6. b \in [Claims' -> Claims]
    BY <1>3, <2>3
  <2>7. \A c \in Claims : \E d \in Claims' : b[d] = c
    BY <2>3
  <2>8. \A d, e \in Claims' : d # e => b[d] # b[e]
    BY <2>3
  <2>9. \A d \in Claims' : Extent'[d] = Extent[b[d]]
    BY <2>3, <2>4, <2>5
  <2> HIDE DEF b
  <2> QED BY <2>1, <2>6, <2>7, <2>8, <2>9, SameClaims DEF IInv
<1>6. CASE ~quarantining
  <2>1. quarantine' = quarantine /\ used' = used \ Pages(block[t])
    BY <1>6 DEF ReleasePages
  <2>2. Claims' = Claims \ {m}
    <3>1. ASSUME NEW c \in Claims' PROVE c \in Claims \ {m}
      <4>1. CASE \E q \in Page : c = <<"recorded", q>>
        BY <1>1, <1>2, <4>1 DEF ClaimsRead
      <4>2. CASE \E u \in Threads : c = <<"moving", u>>
        BY <1>1, <1>2, <4>2 DEF ClaimsRead, Moves
      <4>3. CASE \E i \in 1 .. Len(quarantine') : c = <<"quarantined", i>>
        BY <1>1, <2>1, <4>3 DEF ClaimsRead
      <4> QED BY <1>1, <4>1, <4>2, <4>3 DEF ClaimsRead
    <3>2. ASSUME NEW c \in Claims \ {m} PROVE c \in Claims'
      <4>1. CASE \E q \in Page : c = <<"recorded", q>>
        BY <1>1, <1>2, <4>1 DEF ClaimsRead
      <4>2. CASE \E u \in Threads : c = <<"moving", u>>
        BY <1>1, <1>2, <4>2 DEF ClaimsRead, Moves
      <4>3. CASE \E i \in 1 .. Len(quarantine) : c = <<"quarantined", i>>
        BY <1>1, <2>1, <4>3 DEF ClaimsRead
      <4> QED BY <1>1, <4>1, <4>2, <4>3 DEF ClaimsRead
    <3> QED BY <3>1, <3>2
  <2>3. ASSUME NEW c \in Claims \ {m} PROVE Extent'[c] = Extent[c]
    <3>1. CASE \E q \in Page : c = <<"recorded", q>>
      BY <1>1, <1>2, <3>1 DEF ClaimsRead
    <3>2. CASE \E u \in Threads : c = <<"moving", u>>
      BY <1>1, <1>2, <3>2 DEF ClaimsRead, Pages, Moves
    <3>3. CASE \E i \in 1 .. Len(quarantine) : c = <<"quarantined", i>>
      BY <1>1, <2>1, <3>3 DEF ClaimsRead, Pages
    <3> QED BY <1>1, <3>1, <3>2, <3>3 DEF ClaimsRead
  <2>4. Apart(Claims, Extent) /\ {m} \in SUBSET Claims
    BY <1>3 DEF IInv, AllocationsDisjoint, Apart
  <2>5. /\ Apart(Claims', Extent)
        /\ Total(Claims', Extent) = Total(Claims, Extent) \ Total({m}, Extent)
    BY <2>2, <2>4, Drop, ZenonT(60)
  <2>6. Total({m}, Extent) = Pages(block[t]) /\ Total(Claims, Extent) = used
    BY <1>3 DEF Total, IInv, PagesAccounted
  <2>7. Total(Claims', Extent') = Total(Claims', Extent)
    BY <2>2, <2>3 DEF Total
  <2>8. Apart(Claims', Extent')
    BY <2>2, <2>3, <2>5 DEF Apart
  <2>9. Total(Claims', Extent') = used'
    BY <2>1, <2>5, <2>6, <2>7
  <2> QED BY <2>8, <2>9 DEF Apart, Total, AllocationsDisjoint, PagesAccounted
<1> QED BY <1>5, <1>6

\* A block taken where it fits is a claim beside those that were left.
LEMMA TakeStep ==
  ASSUME PagesAssumption, TypeOK, TypeOK', NEW t \in Threads, ~Moves(t),
         NEW C, NEW E, Apart(C, E), NEW U, U = Total(C, E), <<"moving", t>> \notin C,
         NEW p \in Page, Fits(U, p, request[t].count), Take(t, U, p),
         Claims' = C \cup {<<"moving", t>>},
         \A c \in C : Extent'[c] = E[c]
  PROVE  AllocationsDisjoint' /\ PagesAccounted'
<1> DEFINE m == <<"moving", t>>
           P == p .. p + request[t].count - 1
<1>1. P \cap U = {}
  BY Found
<1>2. /\ used' = U \cup P /\ Moves(t)'
      /\ block'[t] = [first |-> p, count |-> request[t].count]
  BY DEF Take, Goto, Moves, Pages, TypeOK
<1>3. ClaimsRead'
  BY Reading, PTL
<1>4. Extent'[m] = P
  BY <1>2, <1>3 DEF ClaimsRead, Pages
<1>5. Total(C, E) \cap P = {}
  BY <1>1
<1>6. m \notin C /\ Claims' = C \cup {m}
  OBVIOUS
<1> HIDE DEF P, m
<1>7. \A c \in C : Extent'[c] \cap P = {}
  BY <1>5 DEF Total
<1>8. Apart(Claims', Extent')
  BY <1>4, <1>6, <1>7 DEF Apart
<1>9. ASSUME NEW q
      PROVE  q \in Total(Claims', Extent') <=> q \in U \cup P
  <2>1. q \in Total(Claims', Extent') <=> \E c \in Claims' : q \in Extent'[c]
    BY DEF Total
  <2>2. q \in U <=> \E c \in C : q \in E[c]
    BY DEF Total
  <2> QED BY <1>4, <1>6, <2>1, <2>2
<1>10. used' = Total(Claims', Extent')
  BY <1>2, <1>9
<1> QED BY <1>8, <1>10 DEF Apart, Total, AllocationsDisjoint, PagesAccounted

\* A search of the region as it is adds a claim to those there are.
LEMMA FreshStep ==
  ASSUME PagesAssumption, IInv, TypeOK', NEW t \in Threads, ~Moves(t),
         UNCHANGED <<sizes, quarantine>>,
         NEW p \in Page, Fits(used, p, request[t].count), Take(t, used, p)
  PROVE  AllocationsDisjoint' /\ PagesAccounted'
<1> DEFINE m == <<"moving", t>>
<1>1. ClaimsRead /\ ClaimsRead'
  BY Reading, PTL DEF IInv
<1>2. /\ Moves(t)'
      /\ \A u \in Threads \ {t} : pc'[u] = pc[u] /\ block'[u] = block[u]
  BY DEF Take, Goto, Moves, IInv, TypeOK
<1>3. Claims' = Claims \cup {m} /\ m \notin Claims
  BY <1>1, <1>2 DEF Claims, Moves, ClaimsRead
<1>4. ASSUME NEW c \in Claims PROVE Extent'[c] = Extent[c]
  <2>1. CASE \E q \in Page : c = <<"recorded", q>>
    BY <1>1, <1>3, <2>1 DEF ClaimsRead
  <2>2. CASE \E u \in Threads : c = <<"moving", u>>
    BY <1>1, <1>2, <2>2 DEF ClaimsRead, Pages, Moves
  <2>3. CASE \E i \in 1 .. Len(quarantine) : c = <<"quarantined", i>>
    BY <1>1, <2>3 DEF ClaimsRead, Pages
  <2> QED BY <1>1, <2>1, <2>2, <2>3 DEF ClaimsRead
<1>5. Apart(Claims, Extent) /\ used = Total(Claims, Extent)
  BY DEF IInv, AllocationsDisjoint, PagesAccounted, Apart, Total
<1> QED BY <1>3, <1>4, <1>5, TakeStep DEF IInv

\* The quarantine's older half gives its claims up, the rest moves to the front,
\* and the second search adds a claim or gives up.
LEMMA QuarantineStep ==
  ASSUME PagesAssumption, IInv, TypeOK', NEW t \in Threads, AllocFromQuarantine(t)
  PROVE  AllocationsDisjoint' /\ PagesAccounted'
<1> DEFINE m == <<"moving", t>>
           K == Released
           L == Len(quarantine)
           X == {<<"quarantined", i>> : i \in 1 .. K}
           D == Claims' \ {m}
           b == [d \in D |-> IF d[1] = "quarantined" THEN <<"quarantined", d[2] + K>> ELSE d]
<1>1. ClaimsRead /\ ClaimsRead'
  BY Reading, PTL DEF IInv
<1>2. /\ sizes' = sizes /\ ~Moves(t)
      /\ \A u \in Threads \ {t} : pc'[u] = pc[u] /\ block'[u] = block[u]
  BY DEF AllocFromQuarantine, Take, Return, Goto, Moves, IInv, TypeOK
<1>3. /\ K \in 1 .. L /\ L \in Nat /\ Len(quarantine') = L - K
      /\ \A i \in 1 .. L - K : quarantine'[i] = quarantine[i + K]
  BY Older, SMTT(30) DEF AllocFromQuarantine, IInv, TypeOK
<1>4. m \notin Claims
  BY <1>1, <1>2 DEF ClaimsRead
<1>5. /\ Apart(Claims, Extent) /\ used = Total(Claims, Extent)
      /\ X \in SUBSET Claims
  BY <1>1, <1>3 DEF IInv, AllocationsDisjoint, PagesAccounted, Apart, Total, ClaimsRead
<1>6. /\ Apart(Claims \ X, Extent)
      /\ Total(Claims \ X, Extent) = used \ Total(X, Extent)
  BY <1>5, Drop, ZenonT(60)
<1>7. Total(X, Extent) = UNION {Pages(quarantine[k]) : k \in 1 .. K}
  <2>1. ASSUME NEW k \in 1 .. K
        PROVE  Extent[<<"quarantined", k>>] = Pages(quarantine[k])
    <3>1. k \in 1 .. L
      BY <1>3
    <3> QED BY <1>1, <3>1 DEF ClaimsRead
  <2> QED BY <2>1 DEF Total
<1>8. Total(Claims \ X, Extent) = Unquarantined
  BY <1>6, <1>7 DEF Unquarantined
<1>9. ASSUME NEW d \in D
      PROVE  b[d] \in Claims \ X /\ Extent'[d] = Extent[b[d]]
  <2>1. CASE \E q \in Page : d = <<"recorded", q>>
    BY <1>1, <1>2, <2>1 DEF ClaimsRead
  <2>2. CASE \E u \in Threads : d = <<"moving", u>>
    BY <1>1, <1>2, <2>2 DEF ClaimsRead, Pages, Moves
  <2>3. CASE \E i \in 1 .. Len(quarantine') : d = <<"quarantined", i>>
    <3>1. PICK i \in 1 .. L - K : d = <<"quarantined", i>>
      BY <1>3, <2>3
    <3>2. b[d] = <<"quarantined", i + K>> /\ i + K \in 1 .. L /\ i + K \notin 1 .. K
      BY <1>3, <3>1
    <3>3. <<"quarantined", i + K>> \in Claims \ X
      BY <1>1, <3>2 DEF ClaimsRead
    <3>4. /\ Extent'[d] = Pages(quarantine'[i])
          /\ Extent[<<"quarantined", i + K>>] = Pages(quarantine[i + K])
      BY <1>1, <1>3, <3>1, <3>2 DEF ClaimsRead
    <3>5. quarantine'[i] = quarantine[i + K]
      BY <1>3
    <3> QED BY <3>2, <3>3, <3>4, <3>5 DEF Pages
  <2> QED BY <1>1, <2>1, <2>2, <2>3 DEF ClaimsRead
<1>10. ASSUME NEW c \in Claims \ X PROVE \E d \in D : b[d] = c
  <2>1. CASE \E q \in Page : c = <<"recorded", q>>
    BY <1>1, <1>2, <2>1 DEF ClaimsRead
  <2>2. CASE \E u \in Threads : c = <<"moving", u>>
    BY <1>1, <1>2, <1>4, <2>2 DEF ClaimsRead, Moves
  <2>3. CASE \E i \in 1 .. L : c = <<"quarantined", i>>
    <3>1. PICK i \in 1 .. L : c = <<"quarantined", i>>
      BY <2>3
    <3>2. i - K \in 1 .. L - K /\ (i - K) + K = i
      BY <1>3, <3>1
    <3>3. <<"quarantined", i - K>> \in D
      BY <1>1, <1>3, <3>2 DEF ClaimsRead
    <3>4. b[<<"quarantined", i - K>>] = c
      BY <3>1, <3>2, <3>3
    <3> QED BY <3>3, <3>4
  <2> QED BY <1>1, <2>1, <2>2, <2>3 DEF ClaimsRead
<1>11. ASSUME NEW d \in D, NEW e \in D, d # e PROVE b[d] # b[e]
  <2>1. ASSUME NEW c \in D
        PROVE  \/ c[1] # "quarantined" /\ b[c] = c
               \/ \E i \in Nat : c = <<"quarantined", i>> /\ b[c] = <<"quarantined", i + K>>
    BY <1>1, <1>3, SMTT(30) DEF ClaimsRead
  <2> QED BY <1>3, <1>11, <2>1
<1>12. b \in [D -> Claims \ X]
  BY <1>9
<1> HIDE DEF D, b, X
<1>13. Apart(D, Extent') /\ Total(D, Extent') = Unquarantined
  <2>1. Renames(b, D, Extent', Claims \ X, Extent)
    BY <1>9, <1>10, <1>11, <1>12 DEF Renames
  <2> QED BY <1>6, <1>8, <2>1, Rename
<1>14. CASE Candidates(t, Unquarantined) # {}
  <2>1. PICK p \in FirstFit(t, Unquarantined) : Take(t, Unquarantined, p)
    BY <1>14 DEF AllocFromQuarantine
  <2>2. p \in Page /\ Fits(Unquarantined, p, request[t].count)
    BY DEF FirstFit, Candidates
  <2>3. Moves(t)'
    BY <2>1 DEF Take, Goto, Moves, IInv, TypeOK
  <2>4. Claims' = D \cup {m} /\ m \notin D
    BY <1>1, <2>3 DEF ClaimsRead, D
  <2> QED BY <1>2, <1>13, <2>1, <2>2, <2>4, TakeStep DEF IInv
<1>15. CASE Candidates(t, Unquarantined) = {}
  <2>1. used' = Unquarantined /\ Return(t)
    BY <1>15 DEF AllocFromQuarantine
  <2>2. ~Moves(t)'
    BY <2>1 DEF Return, Goto, Moves, IInv, TypeOK
  <2>3. Claims' = D
    BY <1>1, <2>2 DEF ClaimsRead, D
  <2> QED BY <1>13, <2>1, <2>3 DEF Apart, Total, AllocationsDisjoint, PagesAccounted
<1> QED BY <1>14, <1>15

------------------------------------------------------------------------------
(* Theorems *)

LEMMA InvInit == Init => IInv
<1> SUFFICES ASSUME Init PROVE IInv
  OBVIOUS
<1>1. TypeOK
  BY TypeInit
<1>2. ClaimsRead
  BY <1>1, Reading
<1>3. Claims = {}
  BY <1>2 DEF Init, ClaimsRead, Moves
<1> QED BY <1>1, <1>3 DEF Init, IInv, AllocationsDisjoint, PagesAccounted

LEMMA InvStep ==
  ASSUME IInv, [Next]_vars
  PROVE  IInv'
<1>1. CASE UNCHANGED vars
  <2>1. TypeOK' /\ used' = used
    BY <1>1 DEF IInv, TypeOK, vars
  <2>2. Claims' = Claims
    BY <1>1 DEF Claims, vars
  <2>3. ClaimsRead /\ ClaimsRead'
    BY <2>1, Reading, PTL DEF IInv
  <2>4. ASSUME NEW c \in Claims PROVE Extent'[c] = Extent[c]
    <3>1. CASE \E p \in Page : c = <<"recorded", p>>
      BY <1>1, <2>3, <3>1 DEF ClaimsRead, vars
    <3>2. CASE \E t \in Threads : c = <<"moving", t>>
      BY <1>1, <2>3, <3>2 DEF ClaimsRead, Pages, Moves, vars
    <3>3. CASE \E i \in 1 .. Len(quarantine) : c = <<"quarantined", i>>
      BY <1>1, <2>3, <3>3 DEF ClaimsRead, Pages, vars
    <3> QED BY <2>3, <3>1, <3>2, <3>3 DEF ClaimsRead
  <2> QED BY <2>1, <2>2, <2>4 DEF IInv, AllocationsDisjoint, PagesAccounted
<1>2. CASE Next
  <2>1. PICK t \in Threads : Step(t)
    BY <1>2 DEF Next
  <2>2. TypeOK'
    BY <2>1, TypeStep, PagesAssumption, ThreadsAssumption DEF IInv
  <2> SUFFICES AllocationsDisjoint' /\ PagesAccounted'
    BY <2>2 DEF IInv
  <2>3. CASE Allocate(t)
    <3>1. ~Moves(t) /\ ~Moves(t)' /\ \A u \in Threads \ {t} : pc'[u] = pc[u]
      BY <2>3 DEF Allocate, Goto, Moves, IInv, TypeOK
    <3> QED BY <2>2, <2>3, <3>1, QuietStep DEF Allocate
  <2>4. CASE FindAllocation(t)
    <3>1. /\ ~Moves(t) /\ ~Moves(t)'
          /\ \A u \in Threads \ {t} : pc'[u] = pc[u] /\ block'[u] = block[u]
      BY <2>4 DEF FindAllocation, Return, Goto, Moves, IInv, TypeOK
    <3> QED BY <2>2, <2>4, <3>1, QuietStep DEF FindAllocation
  <2>5. CASE AllocExact(t)
    <3>1. ~Moves(t) /\ request[t].hint \in Page
      BY <2>5 DEF AllocExact, Moves, IInv, TypeOK
    <3> QED BY <2>2, <2>5, <3>1, FreshStep, PagesAssumption DEF AllocExact
  <2>6. CASE AllocExactFails(t)
    <3>1. ~Moves(t) /\ ~Moves(t)' /\ \A u \in Threads \ {t} : pc'[u] = pc[u]
      BY <2>6 DEF AllocExactFails, Goto, Moves, IInv, TypeOK
    <3> QED BY <2>2, <2>6, <3>1, QuietStep DEF AllocExactFails
  <2>7. CASE AllocFirstFit(t)
    <3>1. PICK p \in FirstFit(t, used) : Take(t, used, p)
      BY <2>7 DEF AllocFirstFit
    <3>2. p \in Page /\ Fits(used, p, request[t].count) /\ ~Moves(t)
      BY <2>7 DEF FirstFit, Candidates, AllocFirstFit, Moves
    <3> QED BY <2>2, <2>7, <3>1, <3>2, FreshStep, PagesAssumption DEF AllocFirstFit
  <2>8. CASE AllocFromQuarantine(t)
    BY <2>2, <2>8, QuarantineStep, PagesAssumption
  <2>9. CASE AllocFails(t)
    <3>1. /\ ~Moves(t) /\ ~Moves(t)'
          /\ \A u \in Threads \ {t} : pc'[u] = pc[u] /\ block'[u] = block[u]
      BY <2>9 DEF AllocFails, Return, Goto, Moves, IInv, TypeOK
    <3> QED BY <2>2, <2>9, <3>1, QuietStep DEF AllocFails
  <2>10. CASE RecordSize(t)
    BY <2>2, <2>10, RecordStep
  <2>11. CASE EraseSize(t)
    BY <2>2, <2>11, EraseStep
  <2>12. CASE ReleasePages(t)
    BY <2>2, <2>12, ReleaseStep
  <2> QED BY <2>1, <2>3, <2>4, <2>5, <2>6, <2>7, <2>8, <2>9, <2>10, <2>11, <2>12 DEF Step
<1> QED BY <1>1, <1>2

\* Types, disjointness and the account of the pages are one inductive invariant:
\* a search finds free pages only because every claim's pages are marked, and
\* a released block's pages are its own only because claims are disjoint.
THEOREM Invariance == Spec => []IInv
<1>1. Init => IInv
  BY InvInit
<1>2. IInv /\ [Next]_vars => IInv'
  BY InvStep
<1> QED BY <1>1, <1>2, PTL DEF Spec

\* Every variable keeps its type and the region's mutex its holder.
THEOREM TypeCorrect == Spec => []TypeOK
<1>1. IInv => TypeOK
  BY DEF IInv
<1> QED BY <1>1, Invariance, PTL

\* No two allocations overlap, whatever Alloc and Free calls run at once.
THEOREM Disjointness == Spec => []AllocationsDisjoint
<1>1. IInv => AllocationsDisjoint
  BY DEF IInv
<1> QED BY <1>1, Invariance, PTL

\* No page is lost or freed early by the two-step release or the quarantine.
THEOREM Accounting == Spec => []PagesAccounted
<1>1. IInv => PagesAccounted
  BY DEF IInv
<1> QED BY <1>1, Invariance, PTL

------------------------------------------------------------------------------
(* The guest's view *)

\* A region that nobody has allocated from holds nothing.
LEMMA InitRefines == Init => Reservation!Init
<1> SUFFICES ASSUME Init PROVE Reservation!Init
  OBVIOUS
<1>1. \A p \in Page : sizes[p] = 0
  BY DEF Init
<1>2. Held = {}
  BY <1>1 DEF Held
<1> QED BY <1>2 DEF Reservation!Init

\* The block Alloc records is new, lies in the region and meets no other: its
\* pages were marked for it alone.
LEMMA RecordReserves ==
  ASSUME IInv, NEW t \in Threads, RecordSize(t)
  PROVE  Reservation!Reserve
<1> DEFINE b == block[t]
           p == b.first
<1>1. /\ pc[t] = "record" /\ b \in Block /\ p \in Page /\ b.count \in 1 .. NPages
      /\ sizes \in [Page -> 0 .. NPages] /\ sizes' = [sizes EXCEPT ![p] = b.count]
      /\ used \subseteq Page
  BY DEF RecordSize, IInv, TypeOK, Block
<1>2. b = [first |-> p, count |-> b.count]
  BY <1>1 DEF Block
<1>3. ClaimsRead
  BY Reading DEF IInv
<1>4. <<"moving", t>> \in Claims /\ Extent[<<"moving", t>>] = Pages(b)
  BY <1>1, <1>3 DEF ClaimsRead, Moves
<1>5. ASSUME NEW q \in Page, sizes[q] > 0
      PROVE  Pages(b) \cap (q .. q + sizes[q] - 1) = {}
  <2>1. <<"recorded", q>> \in Claims /\ Extent[<<"recorded", q>>] = q .. q + sizes[q] - 1
    BY <1>3, <1>5 DEF ClaimsRead
  <2>2. <<"recorded", q>> # <<"moving", t>>
    OBVIOUS
  <2> QED BY <1>4, <2>1, <2>2 DEF IInv, AllocationsDisjoint
<1>6. sizes[p] = 0
  <2>1. p \in Pages(b)
    BY <1>1, PagesAssumption DEF Pages, Page
  <2>2. sizes[p] > 0 => p \in p .. p + sizes[p] - 1
    BY <1>1, PagesAssumption DEF Page
  <2>3. sizes[p] \in 0 .. NPages
    BY <1>1
  <2> QED BY <1>1, <1>5, <2>1, <2>2, <2>3
<1>7. Pages(b) \subseteq Page
  <2>1. Pages(b) \subseteq used
    BY <1>4 DEF IInv, PagesAccounted
  <2> QED BY <1>1, <2>1
<1>8. \A c \in Held : Reservation!Run(b) \cap Reservation!Run(c) = {}
  <2> SUFFICES ASSUME NEW q \in Page, sizes[q] > 0
               PROVE  Reservation!Run(b) \cap Reservation!Run([first |-> q, count |-> sizes[q]]) = {}
    BY DEF Held
  <2> QED BY <1>5 DEF Reservation!Run, Pages
<1>9. Held' = Held \cup {[first |-> p, count |-> b.count]}
  <2>1. \A q \in Page : sizes'[q] = IF q = p THEN b.count ELSE sizes[q]
    BY <1>1
  <2>2. b.count > 0
    BY <1>1, PagesAssumption
  <2>3. Held' = {[first |-> q, count |-> sizes'[q]] : q \in {r \in Page : sizes'[r] > 0}}
    BY DEF Held
  <2>4. {r \in Page : sizes'[r] > 0} = {r \in Page : sizes[r] > 0} \cup {p}
    BY <1>1, <2>1, <2>2
  <2> QED BY <1>1, <1>6, <2>1, <2>3, <2>4 DEF Held
<1>10. Reservation!Run(b) \subseteq 0 .. NPages - 1
  BY <1>7 DEF Reservation!Run, Pages, Page
<1> HIDE DEF b, p
<1> QED BY <1>1, <1>2, <1>8, <1>9, <1>10 DEF Reservation!Reserve, Page

\* What Free looks up and erases is one of the guest's blocks, and the only one.
LEMMA EraseFrees ==
  ASSUME IInv, NEW t \in Threads, EraseSize(t)
  PROVE  Reservation!Free
<1>1. PICK p \in Page : sizes[p] > 0 /\ sizes' = [sizes EXCEPT ![p] = 0]
  BY DEF EraseSize
<1> DEFINE b == [first |-> p, count |-> sizes[p]]
<1>2. b \in Held
  BY <1>1 DEF Held
<1>3. \A q \in Page : sizes'[q] = IF q = p THEN 0 ELSE sizes[q]
  BY <1>1 DEF IInv, TypeOK
<1>4. Held' = {[first |-> q, count |-> sizes'[q]] : q \in {r \in Page : sizes'[r] > 0}}
  BY DEF Held
<1>5. {r \in Page : sizes'[r] > 0} = {r \in Page : sizes[r] > 0} \ {p}
  BY <1>1, <1>3
<1>6. ASSUME NEW q \in Page PROVE [first |-> q, count |-> sizes[q]] = b <=> q = p
  <2>1. [first |-> q, count |-> sizes[q]].first = q /\ b.first = p
    OBVIOUS
  <2> QED BY <2>1
<1>7. Held' = Held \ {b}
  BY <1>3, <1>4, <1>5, <1>6 DEF Held
<1> QED BY <1>2, <1>7 DEF Reservation!Free

\* For any threads, pages and alignments: Alloc and Free implement the set of
\* disjoint blocks, though each of them works in several steps.
THEOREM Refinement == Spec => ImplementsReservations
<1>1. IInv /\ [Next]_vars => [Reservation!Next]_Held
  <2> SUFFICES ASSUME IInv, [Next]_vars PROVE [Reservation!Next]_Held
    OBVIOUS
  <2>1. CASE UNCHANGED vars
    BY <2>1 DEF vars, Held
  <2>2. ASSUME NEW t \in Threads, Step(t) PROVE [Reservation!Next]_Held
    <3>1. CASE RecordSize(t)
      BY <3>1, RecordReserves DEF Reservation!Next
    <3>2. CASE EraseSize(t)
      BY <3>2, EraseFrees DEF Reservation!Next
    <3>3. CASE ~RecordSize(t) /\ ~EraseSize(t)
      <4>1. UNCHANGED sizes
        BY <2>2, <3>3 DEF Step, Allocate, FindAllocation, AllocExact, AllocExactFails, AllocFirstFit,
           AllocFromQuarantine, AllocFails, ReleasePages
      <4> QED BY <4>1 DEF Held
    <3> QED BY <3>1, <3>2, <3>3
  <2> QED BY <2>1, <2>2 DEF Next
<1> QED BY <1>1, InitRefines, Invariance, PTL DEF ImplementsReservations, Reservation!Spec, Spec
==============================================================================
