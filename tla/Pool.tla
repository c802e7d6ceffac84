-------------------------------- MODULE Pool --------------------------------
(***************************************************************************)
(* The memory pool (pool.c): allocations are cut from the last of a stack  *)
(* of pages, what does not fit in any page is malloc'd, and nothing is     *)
(* freed until the pool is drained to a level marked earlier, or emptied.  *)
(* The model is of the build that tracks the space of the pool.            *)
(*                                                                         *)
(* A page is known by its place in the stack, a position by its offset.    *)
(***************************************************************************)
EXTENDS Integers, Sequences, FiniteSets

CONSTANTS
  PoolPageSize,  \* bytes of a page
  PageHeader,    \* bytes of the page's header, aligned
  PoolAlign,     \* sizeof(void *)
  LevelSize,     \* sizeof(shuso_pool_level_t)
  PoolSizes,     \* sizes that are asked for
  MaxLevels,     \* SHUTTLESOCK_POOL_MAX_LEVELS
  MaxBlocks      \* bound on the blocks of the pool

VARIABLES
  pagesize,      \* pool->page.size
  pages,         \* the stack of pages: each its page->space
  allocd,        \* the stack of malloc'd blocks: their sizes
  levels,        \* pool->levels: [page, cur, space, allocd]
  space,         \* pool->space
  blocks,        \* history: what the callers use, [page, off, size]
  marked         \* history: blocks when each level was marked; {} if invalid

poolVars == <<pagesize, pages, allocd, levels, space, blocks, marked>>

ASSUME PoolAssumption ==
  /\ PoolPageSize \in Nat /\ PageHeader \in Nat /\ LevelSize \in Nat \ {0}
  /\ PoolAlign \in Nat \ {0} /\ MaxLevels \in Nat /\ MaxBlocks \in Nat
  /\ PoolSizes \subseteq Nat \ {0}
  /\ PageHeader % PoolAlign = 0 /\ PageHeader <= PoolPageSize

NoSpace == [free |-> 0, used |-> 0, wasted |-> 0, reserved |-> 0, allocd |-> 0]
NewPage == [cur |-> PageHeader, used |-> 0, wasted |-> 0,
            reserved |-> PageHeader]

\* A pool: what the operations read and write.
P == [pages |-> pages, allocd |-> allocd, space |-> space]
Top(pl) == Len(pl.pages)
FreeIn(pg) == pagesize - pg.cur
-----------------------------------------------------------------------------
(* Pages.                                                                  *)

\* add_page: what is left of the page before becomes waste.
add_page(pl, size) ==
  LET waste == IF Top(pl) = 0 THEN 0 ELSE size - pl.pages[Top(pl)].cur
  IN  [pl EXCEPT !.pages = Append(@, NewPage),
                 !.space.free = @ - waste + size - PageHeader,
                 !.space.wasted = @ + waste,
                 !.space.reserved = @ + PageHeader]

\* Mutant: what was left of the page before stays waste.
remove_last_page_Wastes(pl) ==
  LET page == pl.pages[Top(pl)]
  IN  [pl EXCEPT !.pages = SubSeq(@, 1, Len(@) - 1),
                 !.space.free = @ - FreeIn(page),
                 !.space.used = @ - page.used,
                 !.space.wasted = @ - page.wasted,
                 !.space.reserved = @ - page.reserved]
\* remove_last_page: the page before has its unused space back.
remove_last_page(pl) ==
  LET page == pl.pages[Top(pl)]
      prev == IF Top(pl) > 1 THEN FreeIn(pl.pages[Top(pl) - 1]) ELSE 0
  IN  [pl EXCEPT !.pages = SubSeq(@, 1, Len(@) - 1),
                 !.space.free = @ - FreeIn(page) + prev,
                 !.space.used = @ - page.used,
                 !.space.wasted = @ - page.wasted - prev,
                 !.space.reserved = @ - page.reserved]

plain_old_malloc(pl, sz) ==
  [pl EXCEPT !.allocd = Append(@, sz), !.space.allocd = @ + sz]
plain_old_free_last(pl) ==
  [pl EXCEPT !.allocd = SubSeq(@, 1, Len(@) - 1),
             !.space.allocd = @ - pl.allocd[Len(pl.allocd)]]

\* palloc_in_current_page, when it has the room.
Pad(cur, align) ==
  IF align THEN (PoolAlign - (cur % PoolAlign)) % PoolAlign ELSE 0
Fits(pl, sz, align) ==
  /\ Top(pl) > 0
  /\ LET pg == pl.pages[Top(pl)] IN FreeIn(pg) >= Pad(pg.cur, align) + sz
palloc_in_current_page(pl, sz, align) ==
  LET page == pl.pages[Top(pl)]
      pad == Pad(page.cur, align)
      cut == [page EXCEPT !.cur = @ + pad + sz, !.used = @ + sz,
                          !.wasted = @ + pad]
  IN  [pl EXCEPT !.pages[Top(pl)] = cut,
                 !.space.used = @ + sz,
                 !.space.wasted = @ + pad,
                 !.space.free = @ - sz - pad]

\* palloc_with_alignment: the current page, else a new one, else malloc.
\* "mem" says which of the two calls of malloc fail.
palloc(sz, align, mem) ==
  IF Fits(P, sz, align) THEN palloc_in_current_page(P, sz, align)
  ELSE IF pagesize - PageHeader >= sz /\ mem = "ok"
       THEN palloc_in_current_page(add_page(P, pagesize), sz, align)
  ELSE IF mem # "none" THEN plain_old_malloc(P, sz)
  ELSE P

\* The block that the last allocation made, if it made one.
NewBlock(pl, sz) ==
  IF pl = P THEN {}
  ELSE {IF pl.allocd # allocd
        THEN [page |-> 0, off |-> Len(pl.allocd), size |-> sz]
        ELSE [page |-> Top(pl), off |-> pl.pages[Top(pl)].cur - sz,
              size |-> sz]}

Becomes(pl) == /\ pages' = pl.pages
               /\ allocd' = pl.allocd
               /\ space' = pl.space
-----------------------------------------------------------------------------
(* Operations.                                                             *)

\* shuso_pool_init
PoolInit ==
  LET pl == add_page([pages |-> <<>>, allocd |-> <<>>, space |-> NoSpace],
                     PoolPageSize)
  IN  /\ pagesize = PoolPageSize
      /\ pages = pl.pages /\ allocd = pl.allocd /\ space = pl.space
      /\ levels = <<>> /\ blocks = {} /\ marked = <<>>

\* shuso_palloc, shuso_palloc_unaligned
PoolAlloc(sz, align, mem) ==
  LET pl == palloc(sz, align, mem)
  IN  /\ Cardinality(blocks) < MaxBlocks
      /\ Becomes(pl)
      /\ blocks' = blocks \cup NewBlock(pl, sz)
      /\ UNCHANGED <<pagesize, levels, marked>>

\* shuso_pool_mark_level: the level's own record is the first thing it keeps.
Level(pl) == [page |-> Top(pl), allocd |-> Len(pl.allocd),
              space |-> IF Top(pl) = 0 THEN NewPage ELSE pl.pages[Top(pl)]]
PoolMark(mem) ==
  LET pl == palloc(LevelSize, TRUE, mem)
  IN  /\ Len(levels) < MaxLevels   \* an assert
      /\ Cardinality(blocks) < MaxBlocks
      /\ mem # "none"
      /\ Becomes(pl)
      /\ blocks' = blocks \cup NewBlock(pl, LevelSize)
      /\ levels' = Append(levels, Level(pl))
      /\ marked' = Append(marked, blocks')
      /\ UNCHANGED pagesize

\* shuso_pool_drain_to_level: malloc'd blocks, then pages, then the position.
FreeAllocd(pl, n) ==
  LET at[i \in 0..(Len(pl.allocd) - n)] ==
        IF i = 0 THEN pl ELSE plain_old_free_last(at[i - 1])
  IN  at[Len(pl.allocd) - n]
RemovePages(pl, n) ==
  LET at[i \in 0..(Top(pl) - n)] ==
        IF i = 0 THEN pl ELSE remove_last_page(at[i - 1])
  IN  at[Top(pl) - n]
RollBack(pl, lv) ==
  IF lv.page = 0 THEN pl
  ELSE LET page == pl.pages[lv.page]
           used == page.used - lv.space.used
           wasted == page.wasted - lv.space.wasted
       IN  [pl EXCEPT !.pages[lv.page] = lv.space,
                      !.space.used = @ - used,
                      !.space.wasted = @ - wasted,
                      !.space.free = @ + used + wasted]
\* "if(allocd)": a level that was marked before any malloc frees none.
KeptAllocd(lv) == IF lv.allocd # 0 THEN lv.allocd ELSE Len(allocd)
Drained(lv) ==
  RollBack(RemovePages(FreeAllocd(P, KeptAllocd(lv)), lv.page), lv)

Kept(lv) == {b \in blocks :
               IF b.page = 0 THEN b.off <= KeptAllocd(lv)
               ELSE \/ b.page < lv.page
                    \/ b.page = lv.page /\ b.off < lv.space.cur}

\* The caller drains to a level whose record has not been drained itself.
PoolDrain(n) ==
  /\ n \in DOMAIN levels /\ marked[n] # {}
  /\ Becomes(Drained(levels[n]))
  /\ blocks' = Kept(levels[n])
  /\ marked' = [i \in DOMAIN marked |-> IF i > n THEN {} ELSE marked[i]]
  /\ UNCHANGED <<pagesize, levels>>

\* shuso_pool_empty, and shuso_pool_drain_to_level(pool, 0) after it.
PoolDrainAll ==
  /\ pagesize # 0
  /\ Becomes([RemovePages(FreeAllocd(P, 0), 0) EXCEPT !.space = NoSpace])
  /\ pagesize' = 0
  /\ levels' = <<>> /\ blocks' = {} /\ marked' = <<>>

PoolMem == {"ok", "nopage", "none"}
PoolNext ==
  \/ \E sz \in PoolSizes, al \in BOOLEAN, mem \in PoolMem :
       PoolAlloc(sz, al, mem)
  \/ \E mem \in PoolMem : PoolMark(mem)
  \/ \E n \in 1..MaxLevels : PoolDrain(n)
  \/ PoolDrainAll

PoolSpec == PoolInit /\ [][PoolNext]_poolVars
-----------------------------------------------------------------------------
(* Properties.                                                             *)

\* Two blocks in use never share memory and each lies behind its page's
\* header and before the position the next one is cut at, however pages are
\* added, drained and used again (palloc_in_current_page, add_page).
PoolNoOverlap ==
  \A b \in blocks :
    IF b.page = 0 THEN b.off \in DOMAIN allocd /\ allocd[b.off] = b.size
    ELSE /\ b.page \in DOMAIN pages
         /\ b.off >= PageHeader /\ b.off + b.size <= pages[b.page].cur
         /\ \A c \in blocks \ {b} :
              c.page = b.page => \/ b.off + b.size <= c.off
                                 \/ c.off + c.size <= b.off

\* A level's number stays good for what was in use when it was marked:
\* draining to it, or to a later one, frees none of that.
PoolDrainKeeps ==
  \A n \in DOMAIN marked : marked[n] \subseteq blocks

\* The bytes of the blocks of B, and how many there are.
BytesOf(B) == UNION {{b} \X (1..b.size) : b \in B}
SizeOf(B) == Cardinality(BytesOf(B))

\* The space counters add up to the pages there are, and what they call free
\* is what the last page has left, whichever pages, levels and blocks came and
\* went (add_page, remove_last_page, shuso_pool_drain_to_level).
PoolAccounting ==
  /\ space.free = IF pages = <<>> THEN 0 ELSE FreeIn(pages[Len(pages)])
  /\ space.used + space.free + space.wasted + space.reserved
       = pagesize * Len(pages)
  /\ space.used = SizeOf({b \in blocks : b.page # 0})
  /\ space.allocd = SizeOf({b \in blocks : b.page = 0})

\* Draining to a level leaves exactly what was in use when it was marked
\* (test.c checks the last page, the position and the last malloc'd block
\* against the level it drained to).
PoolDrainRestores ==
  [][\A n \in DOMAIN marked : PoolDrain(n) => blocks' = marked[n]]_poolVars

\* Blocks in use are disjoint and survive every drain to a level marked after
\* them, and the space counters add up.
PoolIntact == PoolNoOverlap /\ PoolDrainKeeps /\ PoolAccounting
=============================================================================
