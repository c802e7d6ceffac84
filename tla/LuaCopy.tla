------------------------------ MODULE LuaCopy -------------------------------
(***************************************************************************)
(* Copying Lua values out of a Lua state: luaS_gxcopy (lua_utils.c), which *)
(* gives a worker a copy of what the manager's state holds, and the        *)
(* packing of the data of a Lua message (ipc_lua_api.c).                   *)
(*                                                                         *)
(* A value is <<"scalar", x>>, an integer <<"int", n>> of Lua's width, or  *)
(* a reference <<"ref", o>> to an object of the source heap.  An object    *)
(* has a kind, its items (the keys and values of a table in the order of   *)
(* lua_next, the upvalues of a function, what __gxcopy_save returns for a  *)
(* userdata), a metatable and, if it is in package.loaded, how that        *)
(* package is copied.                                                      *)
(***************************************************************************)
EXTENDS Integers, Sequences, FiniteSets

CONSTANTS
  LuaHeaps,       \* the source heaps, of objects 1, 2, ...
  CopyDests,      \* destination Lua states
  MaxCopies,      \* bound on the calls in a session
  CIntBits        \* width of a C int, less than that of a Lua integer

VARIABLES
  heap,           \* the source heap; the value copied is object 1
  gx,             \* the gxcopy in progress: ___gxcopy_state___
  gdst,           \* what each destination state holds
  packed          \* the packed data of a message and what was unpacked

copyVars == <<heap, gx, gdst, packed>>

ASSUME CopyAssumption == MaxCopies \in Nat /\ CIntBits \in Nat \ {0}

Root == <<"ref", 1>>
NoMeta == <<"none">>
NoSession == [dst |-> "none"]
Cached(c, o) == o \in DOMAIN c.cache
With(f, x, y) == [z \in DOMAIN f \cup {x} |-> IF z = x THEN y ELSE f[z]]
-----------------------------------------------------------------------------
(* luaS_gxcopy.  A state c of the copying has what the last call returned  *)
(* (ok), the value pushed last, the cache (copies_ref), the objects made,  *)
(* each with the packages whose preloader was being copied then            *)
(* (preloaders_ref), what has been put in package.loaded, and              *)
(* ignore_loaded_package_count.                                            *)
(*                                                                         *)
(* A call that fails leaves both stacks as they are at that point.  Three  *)
(* callers go on nevertheless, with other values on top than they take     *)
(* them for: the copying has gone astray, and what comes of it is          *)
(* undefined (the assertions of gxcopy_any and gxcopy_package_loaded stop  *)
(* a debugging build).                                                     *)

RECURSIVE gxcopy_any(_, _), gxcopy_items(_, _), gxcopy_object(_, _)

Push(c, v) == [c EXCEPT !.val = v]
Fail(c) == [c EXCEPT !.ok = FALSE]
GoesOn(c, in_step) ==
  IF c.ok THEN c ELSE [c EXCEPT !.ok = TRUE, !.astray = @ \/ ~in_step]

\* gxcopy_package_preloader: the preload function, whose upvalues may lead back
\* to the package, which is then not looked up again.  Its failure is ignored
\* by gxcopy_package_loaded; it has left something on the stacks unless the
\* preload value is itself what cannot be copied.
gxcopy_package_preloader(o, c) ==
  LET c1 == [c EXCEPT !.preloading = @ \cup {o}]
      c2 == IF heap[o].preload = 0 THEN c1
            ELSE gxcopy_any(<<"ref", heap[o].preload>>, c1)
      in_step == heap[o].preload # 0 /\ heap[heap[o].preload].kind = "thread"
  IN  GoesOn([c2 EXCEPT !.preloading = @ \ {o}], in_step)

\* A package that is copied itself goes into package.loaded.  If that fails,
\* the caller is told that there is no package, and goes on.
CopyDirectly(o, c) ==
  LET d == gxcopy_any(<<"ref", o>>, [c EXCEPT !.ignore = @ + 1])
  IN  IF d.ok THEN [hit |-> TRUE, c |-> [d EXCEPT !.loaded = With(@, o, d.val)]]
      ELSE [hit |-> FALSE, c |-> GoesOn(d, FALSE)]

\* Mutant: the count of packages to ignore is not taken back.
gxcopy_package_loaded_Keeps(o, c) ==
  IF c.ignore > 0 THEN [hit |-> FALSE, c |-> c]
  ELSE IF heap[o].pkg = "no" \/ o \in c.preloading
  THEN [hit |-> FALSE, c |-> c]
  ELSE IF heap[o].pkg = "direct"
  THEN CopyDirectly(o, c)
  ELSE [hit |-> TRUE, c |-> Push(gxcopy_package_preloader(o, c), <<"required", o>>)]
\* gxcopy_package_loaded: a package is copied itself if its metatable says so,
\* and otherwise required in the destination.
gxcopy_package_loaded(o, c) ==
  IF c.ignore > 0 THEN [hit |-> FALSE, c |-> [c EXCEPT !.ignore = @ - 1]]
  ELSE IF heap[o].pkg = "no" \/ o \in c.preloading
  THEN [hit |-> FALSE, c |-> c]
  ELSE IF heap[o].pkg = "direct"
  THEN CopyDirectly(o, c)
  ELSE [hit |-> TRUE, c |-> Push(gxcopy_package_preloader(o, c), <<"required", o>>)]

\* gxcopy_cache_store of a new object
gxcopy_new(o, c, items) ==
  LET n == Len(c.objs) + 1
  IN  [c EXCEPT !.objs = Append(@, [of |-> o, items |-> items, meta |-> NoMeta,
                                    within |-> c.preloading]),
                !.cache = With(@, o, n), !.val = <<"ref", n>>]

\* Mutant: metatables are left behind.
gxcopy_metatable_Drops(m, n, c) == c
\* gxcopy_metatable, for object n of the destination
gxcopy_metatable(m, n, c) ==
  IF m = 0 \/ ~c.ok \/ c.astray THEN c
  ELSE LET p == gxcopy_package_loaded(m, c)
           c2 == IF p.hit THEN p.c
                 ELSE IF heap[m].metafn THEN Push(p.c, <<"called", m>>)
                 ELSE gxcopy_any(<<"ref", m>>, p.c)
       IN  [c2 EXCEPT !.objs[n].meta = c2.val]

gxcopy_items(s, c) ==
  LET at[i \in 0..Len(s)] ==
        IF i = 0 THEN [c |-> c, out |-> <<>>]
        ELSE LET d == gxcopy_any(s[i], at[i - 1].c)
             IN  [c |-> d, out |-> IF d.ok THEN Append(at[i - 1].out, d.val)
                                   ELSE at[i - 1].out]
  IN  at[Len(s)]

\* gxcopy_table, gxcopy_function: the copy is in the cache before its items
\* are copied, except that of a C function.
gxcopy_object(o, c) ==
  LET p == gxcopy_package_loaded(o, c)
  IN  IF p.hit THEN p.c
      ELSE IF Cached(p.c, o) THEN Push(p.c, <<"ref", p.c.cache[o]>>)
      ELSE IF heap[o].kind = "cfunction"
      THEN LET i == gxcopy_items(heap[o].items, p.c)
           IN  IF i.c.ok THEN gxcopy_new(o, i.c, i.out) ELSE i.c
      ELSE LET c1 == gxcopy_new(o, p.c, <<>>)
               n == c1.cache[o]
               i == gxcopy_items(heap[o].items, c1)
               c2 == [i.c EXCEPT !.objs[n].items = i.out]
               c3 == gxcopy_metatable(heap[o].meta, n, c2)
           IN  Push(c3, <<"ref", n>>)

\* gxcopy_userdata: saved by its metatable, loaded in the destination, and not
\* in the cache.  If what is saved cannot be copied, __gxcopy_load is called
\* nevertheless.
gxcopy_userdata(o, c) ==
  LET p == gxcopy_package_loaded(o, c)
      i == gxcopy_items(heap[o].items, p.c)
      n == Len(i.c.objs) + 1
  IN  IF p.hit THEN p.c
      ELSE [GoesOn(i.c, FALSE) EXCEPT
              !.objs = Append(@, [of |-> o, items |-> i.out, meta |-> NoMeta,
                                  within |-> p.c.preloading]),
              !.val = <<"ref", n>>]

gxcopy_any(v, c) ==
  IF ~c.ok \/ c.astray THEN c
  ELSE IF v[1] # "ref" THEN Push(c, v)
  ELSE CASE heap[v[2]].kind = "globals" -> Push(c, <<"globals">>)
         [] heap[v[2]].kind = "thread" -> Fail(c)
         [] heap[v[2]].kind = "userdata" -> gxcopy_userdata(v[2], c)
         [] OTHER -> gxcopy_object(v[2], c)
-----------------------------------------------------------------------------
(* Packing and unpacking.  The blocks of packed data are what its reftable *)
(* refers to; packing stops at a value that cannot be sent.                *)

RECURSIVE pack_field(_, _), unpack_field(_, _)

Fits(n, bits) == n \in -(2^(bits - 1))..(2^(bits - 1) - 1)
\* field->integer is an int, so a wider integer loses its upper bits.
pack_scalar(v) ==
  IF v[1] = "int"
  THEN <<"int", ((v[2] + 2^(CIntBits - 1)) % 2^CIntBits) - 2^(CIntBits - 1)>>
  ELSE v

\* Mutant: a table that was packed before is sent as an empty field.
pack_field_Seen(v, b) ==
  IF ~b.ok THEN b
  ELSE IF v[1] # "ref" THEN Push(b, pack_scalar(v))
  ELSE IF heap[v[2]].kind \notin {"table", "globals"} THEN Fail(b)
  ELSE IF v[2] \in DOMAIN b.seen THEN Push(b, <<"scalar", 0>>)
  ELSE LET n == Len(b.blocks) + 1
           s == heap[v[2]].items
           b1 == [b EXCEPT !.blocks = Append(@, [of |-> v[2], items |-> <<>>]),
                           !.seen = With(@, v[2], n)]
           at[i \in 0..Len(s)] ==
             IF i = 0 THEN [b |-> b1, out |-> <<>>]
             ELSE LET d == pack_field(s[i], at[i - 1].b)
                  IN  [b |-> d, out |-> Append(at[i - 1].out, d.val)]
       IN  Push([at[Len(s)].b EXCEPT !.blocks[n].items = at[Len(s)].out],
                <<"ref", n>>)
\* pack_field, for the blocks b and the table packed_data_table b.seen
pack_field(v, b) ==
  IF ~b.ok THEN b
  ELSE IF v[1] # "ref" THEN Push(b, pack_scalar(v))
  ELSE IF heap[v[2]].kind \notin {"table", "globals"} THEN Fail(b)
  ELSE IF v[2] \in DOMAIN b.seen THEN Push(b, <<"ref", b.seen[v[2]]>>)
  ELSE LET n == Len(b.blocks) + 1
           s == heap[v[2]].items
           b1 == [b EXCEPT !.blocks = Append(@, [of |-> v[2], items |-> <<>>]),
                           !.seen = With(@, v[2], n)]
           at[i \in 0..Len(s)] ==
             IF i = 0 THEN [b |-> b1, out |-> <<>>]
             ELSE LET d == pack_field(s[i], at[i - 1].b)
                  IN  [b |-> d, out |-> Append(at[i - 1].out, d.val)]
       IN  Push([at[Len(s)].b EXCEPT !.blocks[n].items = at[Len(s)].out],
                <<"ref", n>>)

\* unpack_field: u.seen are the tables already made of a block
unpack_field(v, u) ==
  IF v[1] # "ref" THEN Push(u, v)
  ELSE IF v[2] \in DOMAIN u.seen THEN Push(u, <<"ref", u.seen[v[2]]>>)
  ELSE LET n == Len(u.objs) + 1
           s == u.blocks[v[2]].items
           u1 == [u EXCEPT !.objs = Append(@, [of |-> u.blocks[v[2]].of,
                                               items |-> <<>>]),
                           !.seen = With(@, v[2], n)]
           at[i \in 0..Len(s)] ==
             IF i = 0 THEN [u |-> u1, out |-> <<>>]
             ELSE LET d == unpack_field(s[i], at[i - 1].u)
                  IN  [u |-> d, out |-> Append(at[i - 1].out, d.val)]
       IN  Push([at[Len(s)].u EXCEPT !.objs[n].items = at[Len(s)].out],
                <<"ref", n>>)
-----------------------------------------------------------------------------
Nothing == <<"scalar", "nothing">>
CopyInit ==
  /\ heap \in LuaHeaps
  /\ gx = NoSession
  /\ gdst = [d \in CopyDests |-> [objs |-> <<>>, vals |-> <<>>, at |-> 1]]
  /\ packed = [blocks |-> <<>>, objs |-> <<>>, val |-> Nothing]

\* luaS_gxcopy_start: refused while one is in progress.
CopyStart(d) ==
  /\ gx = NoSession /\ Len(gdst[d].vals) < MaxCopies
  /\ gx' = [dst |-> d, ok |-> TRUE, val |-> Nothing, cache |-> <<>>,
            objs |-> gdst[d].objs, preloading |-> {}, ignore |-> 0,
            loaded |-> <<>>, astray |-> FALSE, failed |-> FALSE]
  /\ gdst' = [gdst EXCEPT ![d].at = Len(gdst[d].objs) + 1]
  /\ UNCHANGED <<heap, packed>>
\* luaS_gxcopy.  Its callers go on with the session after one that failed
\* (history: failed).
CopyValue ==
  /\ gx # NoSession /\ ~gx.astray /\ Len(gdst[gx.dst].vals) < MaxCopies
  /\ LET c == gxcopy_any(Root, [gx EXCEPT !.ok = TRUE])
     IN  /\ gx' = [c EXCEPT !.failed = @ \/ ~c.ok]
         /\ gdst' = [gdst EXCEPT ![gx.dst].objs = c.objs,
                                 ![gx.dst].vals = Append(@, c.val)]
  /\ UNCHANGED <<heap, packed>>
\* luaS_gxcopy_finish
CopyFinish ==
  /\ gx # NoSession /\ gx' = NoSession
  /\ UNCHANGED <<heap, gdst, packed>>

\* luaS_lua_ipc_pack_data in the sender and luaS_lua_ipc_unpack_data in the
\* receiver; what cannot be packed raises an error.
PackData ==
  /\ packed.val = Nothing
  /\ LET b == pack_field(Root, [ok |-> TRUE, val |-> Nothing, seen |-> <<>>,
                                blocks |-> <<>>])
         u == unpack_field(b.val, [val |-> Nothing, seen |-> <<>>,
                                   blocks |-> b.blocks, objs |-> <<>>])
     IN  packed' = IF b.ok THEN [blocks |-> b.blocks, objs |-> u.objs,
                                 val |-> u.val]
                   ELSE [blocks |-> b.blocks, objs |-> <<>>,
                         val |-> <<"error">>]
  /\ UNCHANGED <<heap, gx, gdst>>

CopyNext == (\E d \in CopyDests : CopyStart(d)) \/ CopyValue \/ CopyFinish
              \/ PackData
-----------------------------------------------------------------------------
(* Properties.                                                             *)

\* Copy w of a value v that an object holds which was copied within the
\* preloaders of some packages: a scalar is itself, an integer if it fits the
\* width; a reference leads to an object that was made of the same source
\* object, or to what stands for it, which for a package that is required is
\* never a copy, except inside its own preloader.
CopyOf(objs, w, v, within, Kept(_)) ==
  CASE v[1] = "scalar" -> w = v
    [] v[1] = "int" -> w[1] = "int" /\ (Kept(v[2]) => w = v)
    [] v[1] = "ref" ->
         CASE w[1] = "ref" -> /\ objs[w[2]].of = v[2]
                              /\ heap[v[2]].pkg = "loaded" => v[2] \in within
           [] w[1] = "globals" -> heap[v[2]].kind = "globals"
           [] w[1] = "required" -> w[2] = v[2] /\ heap[v[2]].pkg = "loaded"
           [] w[1] = "called" -> w[2] = v[2] /\ heap[v[2]].metafn
           [] OTHER -> FALSE
ItemsOf(objs, n, within, Kept(_)) ==
  /\ Len(objs[n].items) = Len(heap[objs[n].of].items)
  /\ \A i \in DOMAIN objs[n].items :
       CopyOf(objs, objs[n].items[i], heap[objs[n].of].items[i], within, Kept)
EveryInt(n) == TRUE

\* Nothing is said of a session after a copy in it has failed, whose tables
\* are then in the cache unfinished, or has gone astray.
Sound == gx # NoSession /\ ~gx.failed /\ ~gx.astray

\* What the destination holds after a copy is the graph of the source: items
\* and metatables of every object, cycles included, and a package that was
\* copied itself is the one in package.loaded.
CopyIsFaithful ==
  Sound =>
    /\ gx.val # Nothing => CopyOf(gx.objs, gx.val, Root, {}, EveryInt)
    /\ \A n \in gdst[gx.dst].at..Len(gx.objs) :
         LET o == heap[gx.objs[n].of]
         IN  /\ ItemsOf(gx.objs, n, gx.objs[n].within, EveryInt)
             /\ o.kind = "table" /\ o.meta # 0 =>
                  CopyOf(gx.objs, gx.objs[n].meta, <<"ref", o.meta>>,
                         gx.objs[n].within, EveryInt)
             /\ o.pkg = "direct" => /\ gx.objs[n].of \in DOMAIN gx.loaded
                                    /\ gx.loaded[gx.objs[n].of] = <<"ref", n>>

\* Within a session an object other than a userdata is copied once, so what
\* was shared stays shared, and no loaded package is left to be ignored.
CopyKeepsSharing ==
  Sound =>
    /\ gx.ignore = 0 /\ gx.preloading = {}
    /\ \A m, n \in gdst[gx.dst].at..Len(gx.objs) :
         gx.objs[m].of = gx.objs[n].of /\ heap[gx.objs[n].of].kind # "userdata"
           => m = n

\* A message arrives as it was sent, with its cycles and shared tables, and
\* every table of it was packed into one block.  Of its integers, those that
\* fit a C int (lua_tointeger is stored in an int) arrive as themselves.
PackIsFaithful ==
  LET Kept(n) == Fits(n, CIntBits) IN
  packed.val \notin {Nothing, <<"error">>} =>
    /\ CopyOf(packed.objs, packed.val, Root, DOMAIN heap, Kept)
    /\ \A n \in DOMAIN packed.objs :
         ItemsOf(packed.objs, n, DOMAIN heap, Kept)
    /\ Len(packed.blocks) = Len(packed.objs)
    /\ \A m, n \in DOMAIN packed.blocks :
         packed.blocks[m].of = packed.blocks[n].of => m = n

\* The copy of a value is the same graph: everything is there, and there once.
CopyIsExact == CopyIsFaithful /\ CopyKeepsSharing

\* gxcopy_any: assert(dst_top + 1 == lua_gettop(Ld)), a copy that does not fail
\* adds its value, and nothing else, to the destination's stack.
CopyInStep == gx # NoSession => ~gx.astray
=============================================================================
