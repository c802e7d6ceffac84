----------------------------- MODULE SharedSlab -----------------------------
(***************************************************************************)
(* The shared-memory slab allocator (shared_slab.c), an adaptation of the  *)
(* slab of nginx.  Whole pages come from a doubly linked list of free      *)
(* runs; a page may be cut into chunks of one power-of-two size, whose     *)
(* bitmap lives in the page itself (small chunks) or in page->slab (exact  *)
(* and big ones).  Pages that still have a clear bit are on the list of    *)
(* their slot.  The lists are modelled as the code keeps them, by "next"   *)
(* and "prev" fields whose low bits hold the page's type.                  *)
(*                                                                         *)
(* Every process and thread allocates from and frees to the one pool,      *)
(* under its mutex: a request takes the mutex and scans the pool, and      *)
(* writes what the scan decided before it releases the mutex.              *)
(***************************************************************************)
EXTENDS Integers, FiniteSets

CONSTANTS
  NPages,      \* pages of the pool
  PageShift,   \* log2 of the page size
  MinShift,    \* log2 of the smallest chunk (pool->min_shift)
  ByteBits,    \* bits of a byte, 8 in the code
  WordBytes,   \* sizeof(uintptr_t)
  SlabSizes,   \* sizes that are asked for
  SlabProcs,   \* processes and threads that use the pool
  MaxLive      \* bound on the allocations in use at a time

VARIABLES
  pool,        \* the pages, the bitmaps and the counters
  mutex,       \* the holder of pool->mutex, or NoProc
  req,         \* what each process asks for
  plan,        \* what its scan of the pool found
  live,        \* the allocations in use: [addr, size]
  held         \* history: how many allocations are in use

slabVars == <<pool, mutex, req, plan, live, held>>

NoProc == "nobody"
PageSize == 2 ^ PageShift
WordBits == ByteBits * WordBytes

ASSUME SlabAssumption ==
  /\ NPages \in Nat \ {0} /\ PageShift \in Nat /\ MinShift \in Nat
  /\ ByteBits \in Nat \ {0} /\ WordBytes \in Nat \ {0} /\ MaxLive \in Nat
  /\ SlabSizes \subseteq Nat \ {0} /\ NoProc \notin SlabProcs
  /\ PageSize % WordBits = 0 /\ MinShift < PageShift

Least(S) == CHOOSE x \in S : \A y \in S : x <= y
-----------------------------------------------------------------------------
(* Geometry.                                                               *)

\* shuso_shared_slab_sizes_init
MaxSize == PageSize \div 2
ExactShift == CHOOSE k \in 0..PageShift : 2 ^ k = PageSize \div WordBits

\* The chunk size of a request, as a shift; its slot is Shift - MinShift.
Shift(size) == Least({k \in MinShift..PageShift : 2 ^ k >= size})
Shifts == MinShift..(PageShift - 1)
Chunks(k) == 2 ^ (PageShift - k)

\* How many chunks at the start of a page of small ones hold its bitmap.
BitmapChunks(k) ==
  IF k >= ExactShift THEN 0
  ELSE LET n == Chunks(k) \div (2 ^ k * ByteBits) IN IF n = 0 THEN 1 ELSE n

ChunkType(k) == IF k < ExactShift THEN "small"
                ELSE IF k = ExactShift THEN "exact" ELSE "big"

\* Nodes of the lists: the pages, the head of the free list, the slots.
Page == 0..(NPages - 1)
Free == NPages
Slot(k) == NPages + 1 + (k - MinShift)
Nodes == 0..Slot(PageShift - 1)
NULL == -1
\* page->slab of a page that starts, or continues, an allocation of pages.
START == NPages + 1
BUSY == 2 * NPages + 2

Node(slab, next, prev, type) ==
  [slab |-> slab, next |-> next, prev |-> prev, type |-> type]

\* ngx_slab_init: one free run of all the pages, and empty slots.
SlabPoolInit ==
  [node |-> [i \in Nodes |->
      CASE i = 0 -> Node(NPages, Free, Free, "page")
        [] i \in Page \ {0} -> Node(0, NULL, NULL, "page")
        [] i = Free -> Node(0, 0, NULL, "page")
        [] OTHER -> Node(0, i, NULL, "page")],
   bits |-> [i \in Page |-> {}],
   pfree |-> NPages,
   total |-> [k \in Shifts |-> 0],
   used |-> [k \in Shifts |-> 0]]
-----------------------------------------------------------------------------
(* The lists.                                                              *)

\* prev->next = page->next; page->next->prev = page->prev
Unlink(n, p) ==
  LET m == [n EXCEPT ![n[p].prev].next = n[p].next]
  IN  [m EXCEPT ![m[p].next].prev = m[p].prev, ![m[p].next].type = m[p].type]

\* page->next = slots[slot].next; slots[slot].next = page; ...
LinkSlot(n, p, k) ==
  LET s == Slot(k)
      m == [n EXCEPT ![p] = Node(k, n[s].next, s, ChunkType(k)), ![s].next = p]
  IN  [m EXCEPT ![m[p].next].prev = p, ![m[p].next].type = ChunkType(k)]

\* The free run that ngx_slab_alloc_pages takes for k pages, or NULL.
FirstFit(n, k) ==
  LET at[i \in 0..NPages] ==
        IF i = 0 THEN n[Free].next
        ELSE IF at[i - 1] = Free THEN Free ELSE n[at[i - 1]].next
      fit == {i \in 0..NPages : at[i] # Free /\ n[at[i]].slab >= k}
  IN  IF fit = {} THEN NULL ELSE at[Least(fit)]

\* ngx_slab_alloc_pages: the run is cut or unlinked, its pages marked.
AllocPages(n, p, k) ==
  LET rest == p + k
      cut == [n EXCEPT ![p + n[p].slab - 1].prev = rest,
                       ![rest] = Node(n[p].slab - k, n[p].next, n[p].prev,
                                      "page"),
                       ![n[p].prev].next = rest,
                       ![n[p].next].prev = rest]
      m == IF n[p].slab > k THEN cut ELSE Unlink(n, p)
  IN  [i \in Nodes |-> IF i = p THEN Node(START + k, NULL, NULL, "page")
                       ELSE IF i \in (p + 1)..(p + k - 1)
                            THEN Node(BUSY, NULL, NULL, "page") ELSE m[i]]

\* The run after page p is joined to it, when it is free.
JoinNext(n, p) ==
  LET j == p + n[p].slab
  IN  IF j \in Page /\ n[j].type = "page" /\ n[j].next # NULL
      THEN LET m == Unlink([n EXCEPT ![p].slab = @ + n[j].slab], j)
           IN  [m EXCEPT ![j] = Node(0, NULL, NULL, "page")]
      ELSE n

\* The run that ends before page p, when it is free; else NULL.
RunBefore(n, p) ==
  LET q == p - 1
      j == IF n[q].slab = 0 THEN n[q].prev ELSE q
  IN  IF p > 0 /\ n[q].type = "page" /\ n[j].next # NULL THEN j ELSE NULL

\* ngx_slab_free_pages
FreePages(n, p, k) ==
  LET zero == [i \in Nodes |-> IF i = p THEN [n[p] EXCEPT !.slab = k]
                 ELSE IF i \in (p + 1)..(p + k - 1)
                      THEN Node(0, NULL, NULL, "page") ELSE n[i]]
      out == IF n[p].next # NULL THEN Unlink(zero, p) ELSE zero
      next == JoinNext(out, p)
      j == RunBefore(next, p)
      both == IF j = NULL THEN next
              ELSE LET m == Unlink([next EXCEPT ![j].slab = @ + next[p].slab],
                                   j)
                   IN  [m EXCEPT ![p] = Node(0, NULL, NULL, "page")]
      h == IF j = NULL THEN p ELSE j
      tail == [both EXCEPT ![h + both[h].slab - 1].prev = h,
                           ![h].prev = Free, ![h].type = "page",
                           ![h].next = both[Free].next]
  IN  [tail EXCEPT ![tail[h].next].prev = h, ![tail[h].next].type = "page",
                   ![Free].next = h]
-----------------------------------------------------------------------------
(* ngx_slab_alloc_locked: the scan, and what it writes.                    *)

Pages(size) == (size + PageSize - 1) \div PageSize
ClearBits(p, k) == (0..(Chunks(k) - 1)) \ pool.bits[p]

NoPlan == [do |-> "none", page |-> NULL]

Scan(size) ==
  LET k == Shift(size)
      p == pool.node[Slot(k)].next
      listed == size <= MaxSize /\ pool.node[p].next # p /\ ClearBits(p, k) # {}
      q == FirstFit(pool.node, IF size > MaxSize THEN Pages(size) ELSE 1)
  IN  IF listed THEN [do |-> "chunk", page |-> p]
      ELSE IF q = NULL THEN [do |-> "fail", page |-> NULL]
      ELSE [do |-> IF size > MaxSize THEN "pages" ELSE "cut", page |-> q]

\* A chunk of a page that is on the list of its slot; a page that has no
\* clear bit left leaves the list.
TakeChunk(p, k) ==
  LET b == Least(ClearBits(p, k))
      bits == pool.bits[p] \cup {b}
      full == bits = 0..(Chunks(k) - 1)
      out == [Unlink(pool.node, p) EXCEPT ![p].next = NULL, ![p].prev = NULL]
  IN  /\ pool' = [pool EXCEPT !.bits[p] = bits, !.used[k] = @ + 1,
                              !.node = IF full THEN out ELSE @]
      /\ live' = live \cup {[addr |-> p * PageSize + b * 2 ^ k,
                             size |-> 2 ^ k]}

\* Mutant: the chunks of the bitmap are not marked in it.
CutPage_NoBitmap(p, k) ==
  LET b == BitmapChunks(k)
      n == [AllocPages(pool.node, p, 1) EXCEPT
              ![p] = Node(k, Slot(k), Slot(k), ChunkType(k)),
              ![Slot(k)].next = p]
  IN  /\ pool' = [pool EXCEPT !.node = n, !.bits[p] = {b},
                              !.pfree = @ - 1, !.used[k] = @ + 1,
                              !.total[k] = @ + Chunks(k) - b]
      /\ live' = live \cup {[addr |-> p * PageSize + b * 2 ^ k,
                             size |-> 2 ^ k]}
\* A new page for the slot: its bitmap is set up and its first chunk taken.
CutPage(p, k) ==
  LET b == BitmapChunks(k)
      n == [AllocPages(pool.node, p, 1) EXCEPT
              ![p] = Node(k, Slot(k), Slot(k), ChunkType(k)),
              ![Slot(k)].next = p]
  IN  /\ pool' = [pool EXCEPT !.node = n, !.bits[p] = 0..b,
                              !.pfree = @ - 1, !.used[k] = @ + 1,
                              !.total[k] = @ + Chunks(k) - b]
      /\ live' = live \cup {[addr |-> p * PageSize + b * 2 ^ k,
                             size |-> 2 ^ k]}

TakePages(p, k) ==
  /\ pool' = [pool EXCEPT !.node = AllocPages(@, p, k), !.pfree = @ - k]
  /\ live' = live \cup {[addr |-> p * PageSize, size |-> k * PageSize]}
-----------------------------------------------------------------------------
(* ngx_slab_free_locked.                                                   *)

PageOf(a) == a \div PageSize
ShiftOf(p) == pool.node[p].slab
ChunkOf(a, k) == (a % PageSize) \div 2 ^ k

\* "pointer to wrong chunk", "chunk is already free", "page is already free"
\* and "pointer to wrong page": the free is refused.
Refuses(a) ==
  LET p == PageOf(a)
      n == pool.node[p]
      k == n.slab
  IN  IF n.type = "page" THEN a % PageSize # 0 \/ n.slab \notin START..(BUSY - 1)
      ELSE a % 2 ^ k # 0 \/ ChunkOf(a, k) \notin pool.bits[p]

\* Mutant: a page that was full stays off the list of its slot.
FreeChunk_NotListed(a) ==
  LET p == PageOf(a)
      k == ShiftOf(p)
      bits == pool.bits[p] \ {ChunkOf(a, k)}
      empty == bits = 0..(BitmapChunks(k) - 1)
  IN  pool' = [pool EXCEPT
        !.node = IF empty THEN FreePages(@, p, 1) ELSE @,
        !.bits[p] = IF empty THEN {} ELSE bits,
        !.pfree = IF empty THEN @ + 1 ELSE @,
        !.total[k] = IF empty THEN @ - (Chunks(k) - BitmapChunks(k)) ELSE @,
        !.used[k] = @ - 1]
\* The last chunk of a page gives the page back.
FreeChunk(a) ==
  LET p == PageOf(a)
      k == ShiftOf(p)
      bits == pool.bits[p] \ {ChunkOf(a, k)}
      n == IF pool.node[p].next = NULL THEN LinkSlot(pool.node, p, k)
           ELSE pool.node
      empty == bits = 0..(BitmapChunks(k) - 1)
  IN  pool' = [pool EXCEPT
        !.node = IF empty THEN FreePages(n, p, 1) ELSE n,
        !.bits[p] = IF empty THEN {} ELSE bits,
        !.pfree = IF empty THEN @ + 1 ELSE @,
        !.total[k] = IF empty THEN @ - (Chunks(k) - BitmapChunks(k)) ELSE @,
        !.used[k] = @ - 1]

FreeRun(a) ==
  LET p == PageOf(a)
      k == pool.node[p].slab - START
  IN  pool' = [pool EXCEPT !.node = FreePages(@, p, k), !.pfree = @ + k]
-----------------------------------------------------------------------------
(* Requests.                                                               *)

Idle == [op |-> "none", size |-> 0, addr |-> 0]
Wrong == {i * PageSize : i \in Page} \cup {a.addr + 1 : a \in live}

SlabInit ==
  /\ pool = SlabPoolInit
  /\ mutex = NoProc
  /\ req = [x \in SlabProcs |-> Idle]
  /\ plan = [x \in SlabProcs |-> NoPlan]
  /\ live = {} /\ held = 0

\* ngx_slab_alloc (or _calloc): lock, and scan for a place.
SlabAlloc(x, size) ==
  /\ mutex = NoProc
  /\ held < MaxLive
  /\ mutex' = x
  /\ req' = [req EXCEPT ![x] = [op |-> "alloc", size |-> size, addr |-> 0]]
  /\ plan' = [plan EXCEPT ![x] = Scan(size)]
  /\ UNCHANGED <<pool, live, held>>

\* The rest of ngx_slab_alloc_locked, and the unlock.
SlabTake(x) ==
  LET size == req[x].size
      p == plan[x].page
  IN  /\ mutex = x
      /\ req[x].op = "alloc"
      /\ \/ plan[x].do = "chunk" /\ TakeChunk(p, Shift(size))
         \/ plan[x].do = "cut" /\ CutPage(p, Shift(size))
         \/ plan[x].do = "pages" /\ TakePages(p, Pages(size))
         \/ plan[x].do = "fail" /\ UNCHANGED <<pool, live>>
      /\ held' = IF plan[x].do = "fail" THEN held ELSE held + 1
      /\ mutex' = NoProc
      /\ req' = [req EXCEPT ![x] = Idle]
      /\ plan' = [plan EXCEPT ![x] = NoPlan]

\* ngx_slab_free of an allocation in use: lock, free, unlock.
SlabFree(a) ==
  /\ mutex = NoProc
  /\ ~Refuses(a.addr)
  /\ IF pool.node[PageOf(a.addr)].type = "page"
     THEN FreeRun(a.addr) ELSE FreeChunk(a.addr)
  /\ live' = live \ {a} /\ held' = held - 1
  /\ UNCHANGED <<mutex, req, plan>>

\* A free the code refuses, of a pointer that is not in use.
SlabFreeWrong(a) ==
  /\ mutex = NoProc
  /\ Refuses(a)
  /\ UNCHANGED slabVars

SlabNext ==
  \/ \E x \in SlabProcs, size \in SlabSizes : SlabAlloc(x, size)
  \/ \E x \in SlabProcs : SlabTake(x)
  \/ \E a \in live : SlabFree(a)
  \/ \E a \in Wrong : SlabFreeWrong(a)

SlabSpec == SlabInit /\ [][SlabNext]_slabVars
-----------------------------------------------------------------------------
(* Properties.                                                             *)

Bytes(a) == a.addr..(a.addr + a.size - 1)
PageBytes(p) == (p * PageSize)..((p + 1) * PageSize - 1)
InUse(p) == \E a \in live : Bytes(a) \cap PageBytes(p) # {}
Cut(p) == pool.node[p].type # "page"

\* The nodes of the list with the given head, in the order of "next".
Listed(head) ==
  LET at[i \in 0..NPages] ==
        IF i = 0 THEN pool.node[head].next
        ELSE IF at[i - 1] = head THEN head ELSE pool.node[at[i - 1]].next
  IN  {at[i] : i \in 0..NPages} \ {head}
Run(h) == h..(h + pool.node[h].slab - 1)

\* Whatever the processes allocate and free, in whatever order, two
\* allocations in use never share a byte, and none covers the bitmap that
\* a page of small chunks starts with (ngx_slab_alloc_locked).
SlabNoOverlap ==
  /\ Cardinality(live) = held
  /\ \A a, b \in live : a # b => Bytes(a) \cap Bytes(b) = {}
  /\ \A a \in live : /\ PageOf(a.addr + a.size - 1) \in Page
                    /\ Cut(PageOf(a.addr)) =>
                         ChunkOf(a.addr, ShiftOf(PageOf(a.addr)))
                           >= BitmapChunks(ShiftOf(PageOf(a.addr)))

\* No page is lost: exactly the pages without an allocation are in the runs
\* of the free list, each in one run, and pfree counts them.
SlabNoLeak ==
  /\ UNION {Run(h) : h \in Listed(Free)} = {p \in Page : ~InUse(p)}
  /\ \A h, i \in Listed(Free) : h # i => Run(h) \cap Run(i) = {}
  /\ pool.pfree = Cardinality({p \in Page : ~InUse(p)})

\* Freed runs are joined with their free neighbours (ngx_slab_free_pages),
\* so an allocation of pages fails only for lack of that many free pages in
\* a row.
SlabCoalesced ==
  \A h, i \in Listed(Free) : h + pool.node[h].slab # i

\* A page of chunks is on the list of its slot exactly as long as one of
\* its chunks is free, so that no free chunk is out of reach and the scan
\* never meets a page without one ("page is busy").
SlabPartialListed ==
  \A k \in Shifts : Listed(Slot(k)) =
    {p \in Page : Cut(p) /\ ShiftOf(p) = k /\ ClearBits(p, k) # {}}

\* The statistics of a slot count the chunks in use and the chunks there
\* are, across all the ways a chunk and a page come and go.
SlabStatistics ==
  \A k \in Shifts :
    /\ pool.used[k] = Cardinality({a \in live : a.size = 2 ^ k})
    /\ pool.total[k] = (Chunks(k) - BitmapChunks(k)) *
                         Cardinality({p \in Page : Cut(p) /\ ShiftOf(p) = k})

\* The lists, the runs, the bitmaps and the statistics of the slab agree with
\* what is in use: no page and no chunk is lost, and free runs are joined.
SlabConsistent ==
  SlabNoLeak /\ SlabCoalesced /\ SlabPartialListed /\ SlabStatistics
=============================================================================
