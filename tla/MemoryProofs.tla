---------------------------- MODULE MemoryProofs -----------------------------
(***************************************************************************)
(* Proofs about what must be released when, and only when, nobody uses it. *)
(* Watchers, for any number of watchers, coroutines and handlers, until    *)
(* nil is assigned to a handler; and the memory pool, for pages and blocks *)
(* of any size and any number of levels.                                   *)
(***************************************************************************)
EXTENDS Pool, Watcher, FiniteSetTheorems, SequenceTheorems, WellFoundedInduction,
        TLAPS

(******************************** watchers *********************************)

\* The watchers of a Lua state, from its start on.
WatcherSpec == WatcherInit /\ [][WatcherNext]_watcherVars

-----------------------------------------------------------------------------
(* The invariant.                                                          *)

Watching == [life : {"none", "live", "gone"}, type : Types, active : BOOLEAN,
             pending : BOOLEAN, self : Nat, handler : Nat,
             thread : 0..NCoros, retimed : BOOLEAN]
Referred == {None} \cup {<<"self", w>> : w \in Watchers}
              \cup UNION {Handlers(w) : w \in Watchers}

\* What registry g has under number r.
At(g, r) == IF r \in DOMAIN g.slot THEN g.slot[r] ELSE None

\* The free slots are slots, each is free once, and nothing is in them.
RegistryOK(g) ==
  /\ g \in [slot : Seq(Referred), free : Seq(Nat)]
  /\ \A i \in DOMAIN g.free :
       g.free[i] \in DOMAIN g.slot /\ g.slot[g.free[i]] = None
  /\ \A i, j \in DOMAIN g.free : g.free[i] = g.free[j] => i = j

\* The number that a watcher keeps for itself is the one that refers to it.
SelfOwned(f, g) ==
  \A w \in Watchers :
    /\ f[w].self # NOREF => At(g, f[w].self) = <<"self", w>>
    /\ \A r \in Nat : At(g, r) = <<"self", w>> => f[w].self = r

\* The number of a handler is the watcher's own, and refers to what it was
\* given last.
HandlerOwned(f, g, gv) ==
  /\ \A w \in Watchers : f[w].handler # NOREF =>
       At(g, f[w].handler) = gv[w] /\ gv[w] \in Handlers(w)
  /\ \A v, w \in Watchers : f[v].handler # NOREF /\ v # w =>
       f[v].handler # f[w].handler

\* What libev may call is alive, is referred to and has a handler; only a
\* timer without repeat, when it fired, is pending and not active.
Callable(f) ==
  \A w \in Watchers :
    /\ f[w].active \/ f[w].pending =>
         f[w].life = "live" /\ f[w].self # NOREF /\ f[w].handler # NOREF
    /\ f[w].pending /\ f[w].type # "once" => f[w].active \/ f[w].retimed
    /\ f[w].life = "none" => f[w].self = NOREF /\ f[w].handler = NOREF

\* What is referred to may be called, or it is a timer that has fired and its
\* callback, of watcher x, has not come to its end, or would not stop it.
Due(f, x) ==
  \A w \in Watchers : f[w].self # NOREF =>
    \/ f[w].active \/ f[w].pending \/ f[w].retimed
    \/ w = x /\ f[w].type = "once"

WatcherOK(f, g, gv) ==
  /\ f \in [Watchers -> Watching] /\ RegistryOK(g)
  /\ gv \in [Watchers -> Referred]
  /\ SelfOwned(f, g) /\ HandlerOwned(f, g, gv) /\ Callable(f)

LuaOK ==
  /\ lua \in [on : BOOLEAN, w : 0..NWatchers, c : 0..NCoros, own : BOOLEAN]
  /\ co \in [Coros -> {"elsewhere", "waits", "dead"}]
  /\ lua.own /\ (~lua.on => lua.w = 0) /\ crash # "not a function"

WatcherInv ==
  WatcherOK(wt, reg, given) /\ LuaOK /\ (crash = "no" => Due(wt, lua.w))
-----------------------------------------------------------------------------
(* The registry.                                                           *)

\* What a slot holds tells what it is for.
LEMMA SlotKinds ==
  /\ None \in Referred
  /\ \A w \in Watchers : <<"self", w>> \in Referred /\ <<"self", w>> # None
  /\ \A v, w \in Watchers : <<"self", v>> = <<"self", w>> => v = w
  /\ \A w \in Watchers : \A h \in Handlers(w) :
       /\ h \in Referred /\ h # None
       /\ \A v \in Watchers : h # <<"self", v>>
  BY DEF Referred, Handlers, None

\* luaL_ref puts the value under a number that nothing was under, and leaves
\* the other numbers alone.
LEMMA RefGives ==
  ASSUME NEW g, RegistryOK(g), NEW v \in Referred
  PROVE  /\ RegistryOK(Ref(g, v))
         /\ NextRef(g) \in Nat /\ NextRef(g) # NOREF
         /\ At(g, NextRef(g)) = None /\ At(Ref(g, v), NextRef(g)) = v
         /\ \A r : r # NextRef(g) => At(Ref(g, v), r) = At(g, r)
  <1>1. /\ g.slot \in Seq(Referred) /\ g.free \in Seq(Nat)
        /\ Len(g.slot) \in Nat /\ DOMAIN g.slot = 1..Len(g.slot)
    BY DEF RegistryOK
  <1>2. CASE g.free # <<>>
    <2> DEFINE n == Head(g.free)
               h == [slot |-> [g.slot EXCEPT ![n] = v], free |-> Tail(g.free)]
    <2>1. NextRef(g) = n /\ Ref(g, v) = h
      BY <1>2 DEF NextRef, Ref
    <2>2. /\ Len(g.free) \in Nat \ {0} /\ n = g.free[1]
          /\ Tail(g.free) \in Seq(Nat) /\ Len(Tail(g.free)) = Len(g.free) - 1
          /\ \A i \in 1..(Len(g.free) - 1) : Tail(g.free)[i] = g.free[i + 1]
      BY <1>1, <1>2
    <2>3. n \in DOMAIN g.slot /\ g.slot[n] = None
      BY <2>2 DEF RegistryOK
    <2>4. /\ h.slot \in Seq(Referred) /\ DOMAIN h.slot = DOMAIN g.slot
          /\ h.slot[n] = v /\ \A r \in DOMAIN g.slot : r # n => h.slot[r] = g.slot[r]
      BY <1>1, <2>3
    <2>5. \A i \in DOMAIN h.free : h.free[i] = g.free[i + 1] /\ i + 1 \in DOMAIN g.free
      BY <1>1, <2>2
    <2>6. 1 \in DOMAIN g.free
      BY <1>1, <2>2
    <2>7. \A i \in DOMAIN h.free : h.free[i] # n
      <3> SUFFICES ASSUME NEW i \in DOMAIN h.free, h.free[i] = n
                   PROVE  FALSE
        OBVIOUS
      <3>1. i \in Nat \ {0}
        BY <2>2
      <3>2. g.free[i + 1] = g.free[1] /\ i + 1 \in DOMAIN g.free
        BY <2>2, <2>5
      <3>3. i + 1 = 1
        BY <2>6, <3>2 DEF RegistryOK
      <3> QED
        BY <3>1, <3>3
    <2>8. DOMAIN h.free \subseteq Nat
      BY <2>2
    <2>9. \A i \in DOMAIN h.free :
            h.free[i] \in DOMAIN h.slot /\ h.slot[h.free[i]] = None
      <3> SUFFICES ASSUME NEW i \in DOMAIN h.free
                   PROVE  h.free[i] \in DOMAIN h.slot /\ h.slot[h.free[i]] = None
        OBVIOUS
      <3>1. g.free[i + 1] \in DOMAIN g.slot /\ g.slot[g.free[i + 1]] = None
        BY <2>5 DEF RegistryOK
      <3> HIDE DEF h
      <3> QED
        BY <2>4, <2>5, <2>7, <3>1
    <2>10. \A i, j \in DOMAIN h.free : h.free[i] = h.free[j] => i = j
      <3> SUFFICES ASSUME NEW i \in DOMAIN h.free, NEW j \in DOMAIN h.free,
                          h.free[i] = h.free[j]
                   PROVE  i = j
        OBVIOUS
      <3>1. i + 1 = j + 1
        BY <2>5 DEF RegistryOK
      <3> QED
        BY <2>8, <3>1
    <2>11. h \in [slot : Seq(Referred), free : Seq(Nat)]
      BY <2>2, <2>4
    <2> HIDE DEF h
    <2>12. RegistryOK(h)
      BY <2>9, <2>10, <2>11 DEF RegistryOK
    <2> QED
      BY <1>1, <2>1, <2>3, <2>4, <2>12 DEF At, NOREF
  <1>3. CASE g.free = <<>>
    <2> DEFINE n == Len(g.slot) + 1
               h == [slot |-> Append(g.slot, v), free |-> <<>>]
    <2>1. NextRef(g) = n /\ Ref(g, v) = h
      BY <1>3 DEF NextRef, Ref
    <2>2. /\ h.slot \in Seq(Referred) /\ DOMAIN h.slot = 1..n
          /\ h.slot[n] = v /\ \A r \in DOMAIN g.slot : h.slot[r] = g.slot[r]
      BY <1>1
    <2>3. h \in [slot : Seq(Referred), free : Seq(Nat)] /\ DOMAIN h.free = {}
      BY <2>2
    <2> HIDE DEF h
    <2>4. RegistryOK(h)
      BY <2>3 DEF RegistryOK
    <2> QED
      BY <1>1, <2>1, <2>2, <2>4 DEF At, NOREF
  <1> QED
    BY <1>2, <1>3

\* luaL_unref of a number that is in use makes it free, and leaves the other
\* numbers alone.
LEMMA UnrefFrees ==
  ASSUME NEW g, RegistryOK(g), NEW r \in Nat, At(g, r) # None
  PROVE  /\ RegistryOK(Unref(g, r)) /\ At(Unref(g, r), r) = None
         /\ \A q : q # r => At(Unref(g, r), q) = At(g, q)
  <1> DEFINE h == [slot |-> [g.slot EXCEPT ![r] = None], free |-> <<r>> \o g.free]
  <1>1. /\ g.slot \in Seq(Referred) /\ g.free \in Seq(Nat)
        /\ Len(g.slot) \in Nat /\ DOMAIN g.slot = 1..Len(g.slot)
        /\ Len(g.free) \in Nat /\ DOMAIN g.free = 1..Len(g.free)
    BY DEF RegistryOK
  <1>2. r \in DOMAIN g.slot /\ g.slot[r] # None
    BY DEF At
  <1>3. Unref(g, r) = h
    BY <1>1, <1>2 DEF Unref, NOREF
  <1>4. /\ h.slot \in Seq(Referred) /\ DOMAIN h.slot = DOMAIN g.slot
        /\ h.slot[r] = None /\ \A q \in DOMAIN g.slot : q # r => h.slot[q] = g.slot[q]
    BY <1>1, <1>2, SlotKinds
  <1>5. /\ h.free \in Seq(Nat) /\ DOMAIN h.free = 1..(Len(g.free) + 1)
        /\ h.free[1] = r
        /\ \A i \in 2..(Len(g.free) + 1) : h.free[i] = g.free[i - 1]
    BY <1>1
  <1>6. \A i \in DOMAIN h.free : i # 1 => i - 1 \in DOMAIN g.free /\ h.free[i] = g.free[i - 1]
    BY <1>1, <1>5
  <1>7. \A i \in DOMAIN g.free : g.free[i] # r
    BY <1>2 DEF RegistryOK
  <1>8. h \in [slot : Seq(Referred), free : Seq(Nat)]
    BY <1>4, <1>5
  <1> HIDE DEF h
  <1>9. \A i \in DOMAIN h.free :
          h.free[i] \in DOMAIN h.slot /\ h.slot[h.free[i]] = None
    <2> SUFFICES ASSUME NEW i \in DOMAIN h.free
                 PROVE  h.free[i] \in DOMAIN h.slot /\ h.slot[h.free[i]] = None
      OBVIOUS
    <2>1. CASE i = 1
      BY <1>2, <1>4, <1>5, <2>1
    <2>2. CASE i # 1
      <3>1. h.free[i] = g.free[i - 1] /\ i - 1 \in DOMAIN g.free
        BY <1>6, <2>2
      <3>2. g.free[i - 1] \in DOMAIN g.slot /\ g.slot[g.free[i - 1]] = None
        BY <3>1 DEF RegistryOK
      <3> QED
        BY <1>4, <1>7, <3>1, <3>2
    <2> QED
      BY <2>1, <2>2
  <1>10. \A i, j \in DOMAIN h.free : h.free[i] = h.free[j] => i = j
    <2> SUFFICES ASSUME NEW i \in DOMAIN h.free, NEW j \in DOMAIN h.free,
                        h.free[i] = h.free[j]
                 PROVE  i = j
      OBVIOUS
    <2>1. CASE i = 1 \/ j = 1
      BY <1>5, <1>6, <1>7, <2>1
    <2>2. CASE i # 1 /\ j # 1
      <3>1. i - 1 = j - 1
        BY <1>6, <2>2 DEF RegistryOK
      <3> QED
        BY <1>1, <1>5, <3>1
    <2> QED
      BY <2>1, <2>2
  <1>11. RegistryOK(h)
    BY <1>8, <1>9, <1>10 DEF RegistryOK
  <1> QED
    BY <1>2, <1>3, <1>4, <1>11 DEF At
-----------------------------------------------------------------------------
(* What the operations do to the watchers and the registry.                *)

\* The fields that a new handler does not touch.
SameButHandler(a, b) ==
  /\ a.life = b.life /\ a.type = b.type /\ a.active = b.active
  /\ a.pending = b.pending /\ a.self = b.self /\ a.retimed = b.retimed

\* A handler under a number that was free, or was the watcher's own before.
LEMMA HandlerGiven ==
  ASSUME NEW f, NEW g, NEW gv, WatcherOK(f, g, gv), NEW w \in Watchers,
         f[w].life = "live", NEW h \in Handlers(w),
         NEW k \in [Watchers -> Watching], NEW m, RegistryOK(m),
         SameButHandler(k[w], f[w]), \A v \in Watchers \ {w} : k[v] = f[v],
         k[w].handler # NOREF, At(m, k[w].handler) = h,
         At(g, k[w].handler) = None \/ k[w].handler = f[w].handler,
         \A r \in Nat : r # k[w].handler =>
           At(m, r) = IF r = f[w].handler THEN None ELSE At(g, r)
  PROVE  /\ WatcherOK(k, m, [gv EXCEPT ![w] = h])
         /\ \A x : Due(f, x) => Due(k, x)
  <1> DEFINE n == k[w].handler
             o == f[w].handler
             gw == [gv EXCEPT ![w] = h]
  <1>1. /\ f \in [Watchers -> Watching] /\ gv \in [Watchers -> Referred]
        /\ n \in Nat /\ o \in Nat
    BY DEF WatcherOK, Watching
  <1>2. \A v \in Watchers : SameButHandler(k[v], f[v])
    BY DEF SameButHandler
  <1>3. gw \in [Watchers -> Referred] /\ gw[w] = h
        /\ \A v \in Watchers \ {w} : gw[v] = gv[v]
    BY <1>1, SlotKinds
  <1>4. o # NOREF => At(g, o) \in Handlers(w)
    BY DEF WatcherOK, HandlerOwned
  <1>5. \A v \in Watchers : \A r \in Nat :
          At(m, r) = <<"self", v>> <=> At(g, r) = <<"self", v>>
    <2> SUFFICES ASSUME NEW v \in Watchers, NEW r \in Nat
                 PROVE  At(m, r) = <<"self", v>> <=> At(g, r) = <<"self", v>>
      OBVIOUS
    <2>1. At(g, 0) = None
      BY DEF At, WatcherOK, RegistryOK
    <2>2. At(g, o) # <<"self", v>>
      BY <1>4, <2>1, SlotKinds DEF NOREF
    <2>3. At(g, n) # <<"self", v>> /\ At(m, n) # <<"self", v>>
      BY <2>2, SlotKinds
    <2> QED
      BY <2>2, <2>3, SlotKinds
  <1>6. SelfOwned(k, m)
    BY <1>1, <1>2, <1>5 DEF SelfOwned, SameButHandler, WatcherOK, Watching
  <1>7. \A v \in Watchers \ {w} : f[v].handler # NOREF =>
          f[v].handler # o /\ f[v].handler # n
    <2> SUFFICES ASSUME NEW v \in Watchers \ {w}, f[v].handler # NOREF
                 PROVE  f[v].handler # o /\ f[v].handler # n
      OBVIOUS
    <2>1. At(g, f[v].handler) \in Handlers(v) /\ f[v].handler # o
      BY DEF WatcherOK, HandlerOwned
    <2> QED
      BY <2>1, SlotKinds
  <1>8. HandlerOwned(k, m, gw)
    <2>1. \A v \in Watchers : k[v].handler # NOREF =>
            At(m, k[v].handler) = gw[v] /\ gw[v] \in Handlers(v)
      <3> SUFFICES ASSUME NEW v \in Watchers \ {w}, k[v].handler # NOREF
                   PROVE  At(m, k[v].handler) = gw[v] /\ gw[v] \in Handlers(v)
        BY <1>3
      <3>1. k[v].handler \in Nat /\ k[v].handler # n /\ k[v].handler # o
        BY <1>1, <1>7 DEF Watching
      <3> HIDE DEF gw
      <3> QED
        BY <1>3, <3>1 DEF WatcherOK, HandlerOwned
    <2>2. \A u, v \in Watchers : k[u].handler # NOREF /\ u # v =>
            k[u].handler # k[v].handler
      BY <1>7 DEF WatcherOK, HandlerOwned
    <2> QED
      BY <2>1, <2>2 DEF HandlerOwned
  <1>9. Callable(k)
    BY <1>2 DEF Callable, WatcherOK, SameButHandler
  <1>10. \A x : Due(f, x) => Due(k, x)
    BY <1>2 DEF Due, SameButHandler
  <1> QED
    BY <1>3, <1>6, <1>8, <1>9, <1>10 DEF WatcherOK

\* Lua_watcher_stop takes the watcher from libev and out of the registry.
LEMMA StopsWatcher ==
  ASSUME NEW f, NEW g, NEW gv, WatcherOK(f, g, gv), NEW w \in Watchers
  PROVE  LET z == Stopped([wt |-> f, reg |-> g], w)
         IN  /\ WatcherOK(z.wt, z.reg, gv)
             /\ \A x, y : Due(f, x) /\ (x = w \/ x = y) => Due(z.wt, y)
  <1> DEFINE s == [wt |-> f, reg |-> g]
             z == Stopped(s, w)
             k == z.wt
             m == z.reg
             o == f[w].self
  <1>1. /\ f \in [Watchers -> Watching] /\ f[w] \in Watching /\ RegistryOK(g)
    BY DEF WatcherOK
  <1>2. /\ k \in [Watchers -> Watching]
        /\ \A v \in Watchers \ {w} : k[v] = f[v]
        /\ k[w].life = f[w].life /\ k[w].type = f[w].type /\ k[w].self = NOREF
        /\ k[w].handler = f[w].handler /\ ~k[w].active /\ ~k[w].pending
    <2> DEFINE e == [f[w] EXCEPT !.active = FALSE, !.pending = FALSE]
               t == IF f[w].self = NOREF THEN f[w].thread ELSE 0
               d == [e EXCEPT !.self = NOREF, !.retimed = FALSE, !.thread = t]
    <2>1. Ev("stop", f[w]) = e
      BY DEF Ev
    <2>2. e \in Watching /\ e.thread = f[w].thread
      BY <1>1 DEF Watching
    <2>3. k = [f EXCEPT ![w] = d]
      BY <2>1 DEF Stopped
    <2>4. t \in 0..NCoros
      BY <1>1, WatcherAssumption DEF Watching
    <2> HIDE DEF t
    <2>5. /\ d \in Watching /\ d.life = f[w].life /\ d.type = f[w].type
          /\ d.self = NOREF /\ d.handler = f[w].handler
          /\ d.active = FALSE /\ d.pending = FALSE
      BY <1>1, <2>4 DEF Watching, NOREF
    <2> HIDE DEF d, z
    <2> QED
      BY <1>1, <2>3, <2>5
  <1>3. m = Unref(g, o)
    BY DEF Stopped
  <1>4. o \in Nat /\ (o # NOREF => At(g, o) = <<"self", w>>)
    BY <1>1 DEF WatcherOK, SelfOwned, Watching
  <1>5. At(g, 0) = None
    BY <1>1 DEF At, RegistryOK
  <1>6. /\ RegistryOK(m)
        /\ \A r \in Nat : At(m, r) = IF r = o THEN None ELSE At(g, r)
    <2>1. CASE o = NOREF
      BY <1>1, <1>3, <1>5, <2>1 DEF Unref, NOREF
    <2>2. CASE o # NOREF
      BY <1>1, <1>3, <1>4, <2>2, UnrefFrees, SlotKinds
    <2> QED
      BY <2>1, <2>2
  <1> HIDE DEF z
  <1>7. SelfOwned(k, m)
    <2> SUFFICES ASSUME NEW v \in Watchers
                 PROVE  /\ k[v].self # NOREF => At(m, k[v].self) = <<"self", v>>
                        /\ \A r \in Nat : At(m, r) = <<"self", v>> => k[v].self = r
      BY DEF SelfOwned
    <2>1. CASE v = w
      <3>1. \A r \in Nat : At(g, r) = <<"self", w>> => r = o
        BY DEF WatcherOK, SelfOwned
      <3> QED
        BY <1>2, <1>6, <2>1, <3>1, SlotKinds
    <2>2. CASE v # w
      <3>1. f[v].self \in Nat
        BY <1>1 DEF Watching
      <3>2. f[v].self # NOREF => f[v].self # o
        BY <1>4, SlotKinds, <2>2 DEF WatcherOK, SelfOwned
      <3>3. \A r \in Nat : At(m, r) = <<"self", v>> => At(g, r) = <<"self", v>>
        BY <1>6, SlotKinds
      <3> QED
        BY <1>2, <1>6, <2>2, <3>1, <3>2, <3>3 DEF WatcherOK, SelfOwned
    <2> QED
      BY <2>1, <2>2
  <1>8. HandlerOwned(k, m, gv)
    <2>1. \A v \in Watchers : k[v].handler = f[v].handler
      BY <1>2
    <2>2. \A v \in Watchers : f[v].handler # NOREF => f[v].handler # o
      BY <1>4, SlotKinds DEF WatcherOK, HandlerOwned
    <2>3. \A v \in Watchers : f[v].handler \in Nat
      BY <1>1 DEF Watching
    <2> QED
      BY <1>6, <2>1, <2>2, <2>3 DEF WatcherOK, HandlerOwned
  <1>9. Callable(k)
    BY <1>2 DEF Callable, WatcherOK
  <1>10. \A x, y : Due(f, x) /\ (x = w \/ x = y) => Due(k, y)
    BY <1>2 DEF Due
  <1>11. WatcherOK(k, m, gv)
    BY <1>2, <1>6, <1>7, <1>8, <1>9 DEF WatcherOK
  <1> QED
    BY <1>10, <1>11 DEF z

\* Lua_watcher_start refers to what libev may call from then on.
LEMMA StartsWatcher ==
  ASSUME NEW f, NEW g, NEW gv, WatcherOK(f, g, gv), NEW w \in Watchers,
         f[w].life = "live"
  PROVE  LET z == Started([wt |-> f, reg |-> g], w)
         IN  /\ WatcherOK(z.wt, z.reg, gv)
             /\ \A x : Due(f, x) => Due(z.wt, x)
  <1> DEFINE s == [wt |-> f, reg |-> g]
             z == Started(s, w)
             k == z.wt
             m == z.reg
  <1>1. /\ f \in [Watchers -> Watching] /\ f[w] \in Watching /\ RegistryOK(g)
    BY DEF WatcherOK
  <1>2. CASE f[w].active \/ f[w].handler = NOREF
    BY <1>2 DEF Started
  <1>3. CASE /\ ~(f[w].active \/ f[w].handler = NOREF)
             /\ f[w].self # NOREF
    <2>1. k = [f EXCEPT ![w] = Ev("start", @)] /\ m = g
      BY <1>3 DEF Started
    <2>2. /\ k \in [Watchers -> Watching]
          /\ \A v \in Watchers \ {w} : k[v] = f[v]
          /\ k[w].life = f[w].life /\ k[w].type = f[w].type
          /\ k[w].self = f[w].self /\ k[w].handler = f[w].handler
          /\ k[w].active /\ k[w].pending = f[w].pending
      <3> DEFINE d == [f[w] EXCEPT !.active = TRUE]
      <3>1. k = [f EXCEPT ![w] = d]
        BY <2>1 DEF Ev
      <3>2. /\ d \in Watching /\ d.life = f[w].life /\ d.type = f[w].type
            /\ d.self = f[w].self /\ d.handler = f[w].handler
            /\ d.active = TRUE /\ d.pending = f[w].pending
        BY <1>1 DEF Watching
      <3> HIDE DEF d, z
      <3> QED
        BY <1>1, <3>1, <3>2
    <2>3. \A v \in Watchers : k[v].self = f[v].self /\ k[v].handler = f[v].handler
      BY <2>2
    <2> HIDE DEF z
    <2>4. SelfOwned(k, m) /\ HandlerOwned(k, m, gv)
      BY <2>1, <2>3 DEF WatcherOK, SelfOwned, HandlerOwned
    <2>5. Callable(k)
      BY <1>3, <2>2 DEF Callable, WatcherOK
    <2>6. \A x : Due(f, x) => Due(k, x)
      BY <2>2 DEF Due
    <2>7. WatcherOK(k, m, gv)
      BY <1>1, <2>1, <2>2, <2>4, <2>5 DEF WatcherOK
    <2> QED
      BY <2>6, <2>7 DEF z
  <1>4. CASE /\ ~(f[w].active \/ f[w].handler = NOREF)
             /\ f[w].self = NOREF
    <2> DEFINE n == NextRef(g)
    <2>1. /\ k = [f EXCEPT ![w] = [Ev("start", @) EXCEPT !.self = n]]
          /\ m = Ref(g, <<"self", w>>)
      BY <1>4 DEF Started
    <2>2. /\ RegistryOK(m) /\ n \in Nat /\ n # NOREF
          /\ At(g, n) = None /\ At(m, n) = <<"self", w>>
          /\ \A r : r # n => At(m, r) = At(g, r)
      BY <1>1, <2>1, RefGives, SlotKinds
    <2> HIDE DEF n
    <2>3. /\ k \in [Watchers -> Watching]
          /\ \A v \in Watchers \ {w} : k[v] = f[v]
          /\ k[w].life = f[w].life /\ k[w].type = f[w].type
          /\ k[w].self = n /\ k[w].handler = f[w].handler
          /\ k[w].active /\ k[w].pending = f[w].pending
      <3> DEFINE e == [f[w] EXCEPT !.active = TRUE]
                 d == [e EXCEPT !.self = n]
      <3>1. k = [f EXCEPT ![w] = d]
        BY <2>1 DEF Ev
      <3>2. /\ d \in Watching /\ d.life = f[w].life /\ d.type = f[w].type
            /\ d.self = n /\ d.handler = f[w].handler
            /\ d.active = TRUE /\ d.pending = f[w].pending
        BY <1>1, <2>2 DEF Watching
      <3> HIDE DEF d, z
      <3> QED
        BY <1>1, <3>1, <3>2
    <2> HIDE DEF z
    <2>4. SelfOwned(k, m)
      <3> SUFFICES ASSUME NEW v \in Watchers
                   PROVE  /\ k[v].self # NOREF => At(m, k[v].self) = <<"self", v>>
                          /\ \A r \in Nat : At(m, r) = <<"self", v>> => k[v].self = r
        BY DEF SelfOwned
      <3>1. CASE v = w
        <4>1. \A r \in Nat : r # NOREF => At(g, r) # <<"self", w>>
          BY <1>4 DEF WatcherOK, SelfOwned
        <4>2. At(g, NOREF) = None
          BY <1>1 DEF At, RegistryOK, NOREF
        <4> QED
          BY <2>2, <2>3, <3>1, <4>1, <4>2, SlotKinds
      <3>2. CASE v # w
        <4>1. f[v].self # NOREF => f[v].self # n
          BY <2>2, SlotKinds DEF WatcherOK, SelfOwned
        <4>2. \A r \in Nat : At(m, r) = <<"self", v>> => At(g, r) = <<"self", v>>
          BY <2>2, <3>2, SlotKinds
        <4> QED
          BY <2>2, <2>3, <3>2, <4>1, <4>2 DEF WatcherOK, SelfOwned
      <3> QED
        BY <3>1, <3>2
    <2>5. HandlerOwned(k, m, gv)
      <3>1. \A v \in Watchers : k[v].handler = f[v].handler
        BY <2>3
      <3>2. \A v \in Watchers : f[v].handler # NOREF => f[v].handler # n
        BY <2>2, SlotKinds DEF WatcherOK, HandlerOwned
      <3> QED
        BY <2>2, <3>1, <3>2 DEF WatcherOK, HandlerOwned
    <2>6. Callable(k)
      BY <1>4, <2>2, <2>3 DEF Callable, WatcherOK
    <2>7. \A x : Due(f, x) => Due(k, x)
      BY <2>3 DEF Due
    <2>8. WatcherOK(k, m, gv)
      BY <2>2, <2>3, <2>4, <2>5, <2>6 DEF WatcherOK
    <2> QED
      BY <2>7, <2>8 DEF z
  <1> QED
    BY <1>2, <1>3, <1>4

\* The end of Lua_watcher_set: the new handler is referred to, the old one not.
LEMMA HandledGives ==
  ASSUME NEW f, NEW g, NEW gv, WatcherOK(f, g, gv), NEW w \in Watchers,
         f[w].life = "live", NEW h \in Handlers(w)
  PROVE  LET z == Handled([wt |-> f, reg |-> g], w, h)
         IN  /\ WatcherOK(z.wt, z.reg, [gv EXCEPT ![w] = h])
             /\ \A x : Due(f, x) => Due(z.wt, x)
  <1> DEFINE z == Handled([wt |-> f, reg |-> g], w, h)
             n == NextRef(g)
             p == Ref(g, h)
             o == f[w].handler
  <1>1. /\ f \in [Watchers -> Watching] /\ f[w] \in Watching /\ RegistryOK(g)
    BY DEF WatcherOK
  <1>2. /\ RegistryOK(p) /\ n \in Nat /\ n # NOREF
        /\ At(g, n) = None /\ At(p, n) = h
        /\ \A r : r # n => At(p, r) = At(g, r)
    BY <1>1, RefGives, SlotKinds
  <1>3. z.wt = [f EXCEPT ![w].handler = n] /\ z.reg = Unref(p, o)
    BY DEF Handled
  <1> HIDE DEF n, p, z
  <1>4. /\ z.wt \in [Watchers -> Watching] /\ z.wt[w].handler = n
        /\ SameButHandler(z.wt[w], f[w])
        /\ \A v \in Watchers \ {w} : z.wt[v] = f[v]
    <2> DEFINE d == [f[w] EXCEPT !.handler = n]
    <2>1. d \in Watching /\ d.handler = n /\ SameButHandler(d, f[w])
      BY <1>1, <1>2 DEF Watching, SameButHandler
    <2>2. z.wt = [f EXCEPT ![w] = d]
      BY <1>3
    <2> HIDE DEF d
    <2> QED
      BY <1>1, <2>1, <2>2
  <1>5. o \in Nat /\ (o # NOREF => At(g, o) \in Handlers(w))
    BY <1>1 DEF WatcherOK, HandlerOwned, Watching
  <1>6. At(p, NOREF) = None
    BY <1>2 DEF At, RegistryOK, NOREF
  <1>7. /\ RegistryOK(z.reg) /\ At(z.reg, n) = h
        /\ \A r \in Nat : r # n => At(z.reg, r) = IF r = o THEN None ELSE At(g, r)
    <2>1. CASE o = NOREF
      BY <1>2, <1>3, <1>6, <2>1 DEF Unref
    <2>2. CASE o # NOREF
      <3>1. o # n /\ At(p, o) # None
        BY <1>2, <1>5, <2>2, SlotKinds
      <3> QED
        BY <1>2, <1>3, <1>5, <3>1, UnrefFrees
    <2> QED
      BY <2>1, <2>2
  <1> DEFINE k == z.wt
             m == z.reg
  <1>8. /\ k \in [Watchers -> Watching] /\ RegistryOK(m)
        /\ SameButHandler(k[w], f[w]) /\ \A v \in Watchers \ {w} : k[v] = f[v]
        /\ k[w].handler # NOREF /\ At(m, k[w].handler) = h
        /\ At(g, k[w].handler) = None \/ k[w].handler = f[w].handler
        /\ \A r \in Nat : r # k[w].handler =>
             At(m, r) = IF r = f[w].handler THEN None ELSE At(g, r)
    BY <1>2, <1>4, <1>7
  <1> HIDE DEF k, m
  <1>9. /\ WatcherOK(k, m, [gv EXCEPT ![w] = h])
        /\ \A x : Due(f, x) => Due(k, x)
    BY <1>8, HandlerGiven
  <1> QED
    BY <1>9 DEF k, m, z

\* The end of watcher_callback: when the process is not at fault, nothing
\* depends on the callback any more.
LEMMA EndsCallback ==
  ASSUME NEW f, NEW g, NEW gv, WatcherOK(f, g, gv), Due(f, lua.w), LuaOK,
         crash = "no", NEW rc, Callback([wt |-> f, reg |-> g], rc)
  PROVE  /\ WatcherOK(wt', reg', gv) /\ crash' # "not a function"
         /\ crash' = "no" => Due(wt', 0)
  <1>1. CASE /\ WatcherIs([wt |-> f, reg |-> g]) /\ UNCHANGED crash
             /\ lua.w = 0 \/ f[lua.w].type # "once"
    <2>1. wt' = f /\ reg' = g /\ crash' = "no"
      BY <1>1 DEF WatcherIs
    <2>2. Due(f, 0)
      BY <1>1 DEF Due
    <2> QED
      BY <2>1, <2>2
  <1>2. CASE WatcherIs([wt |-> f, reg |-> g]) /\ crash' = "no watcher"
    BY <1>2 DEF WatcherIs
  <1>3. CASE /\ WatcherIs(Stopped([wt |-> f, reg |-> g], lua.w))
             /\ UNCHANGED crash /\ lua.w # 0
    <2>1. lua.w \in Watchers
      BY <1>3, WatcherAssumption DEF LuaOK, Watchers
    <2> DEFINE z == Stopped([wt |-> f, reg |-> g], lua.w)
    <2>2. WatcherOK(z.wt, z.reg, gv) /\ Due(z.wt, 0)
      BY <2>1, StopsWatcher
    <2>3. wt' = z.wt /\ reg' = z.reg
      BY <1>3 DEF WatcherIs
    <2> QED
      BY <1>3, <2>2, <2>3
  <1> QED
    BY <1>1, <1>2, <1>3 DEF Callback

-----------------------------------------------------------------------------
(* The actions.                                                            *)

\* What an action needs of the invariant, and what it keeps by leaving the
\* callback that runs alone.
LEMMA WatcherRuns ==
  ASSUME WatcherInv, crash = "no", Runs, WatcherOK(wt', reg', given'),
         Due(wt, lua.w) => Due(wt', lua.w)
  PROVE  WatcherInv'
  <1>1. LuaOK' /\ lua' = lua /\ crash' = crash
    BY DEF WatcherInv, LuaOK, Runs
  <1> QED
    BY <1>1 DEF WatcherInv

LEMMA NewKeeps ==
  ASSUME WatcherInv, crash = "no", NEW w \in Watchers, WatcherNew(w)
  PROVE  WatcherInv'
  <1>1. PICK t \in Types, h \in Handlers(w) \cup {None} :
          LET s == [Now EXCEPT !.wt[w] = [Fresh EXCEPT !.life = "live", !.type = t]]
          IN  /\ WatcherIs(IF h = None THEN s ELSE Handled(s, w, h))
              /\ given' = [given EXCEPT ![w] = h]
    BY DEF WatcherNew
  <1> DEFINE d == [Fresh EXCEPT !.life = "live", !.type = t]
             k == [wt EXCEPT ![w] = d]
             s == [wt |-> k, reg |-> reg]
  <1>2. /\ WatcherIs(IF h = None THEN s ELSE Handled(s, w, h))
        /\ given' = [given EXCEPT ![w] = h]
    BY <1>1 DEF Now
  <1>3. wt \in [Watchers -> Watching] /\ WatcherOK(wt, reg, given) /\ Runs
    BY DEF WatcherInv, WatcherOK, WatcherNew
  <1>4. /\ d \in Watching /\ d.life = "live" /\ d.self = NOREF
        /\ d.handler = NOREF /\ ~d.active /\ ~d.pending
    <2>1. /\ Fresh \in Watching /\ Fresh.self = NOREF /\ Fresh.handler = NOREF
          /\ Fresh.active = FALSE /\ Fresh.pending = FALSE
      BY WatcherAssumption DEF Fresh, Watching, NOREF, Types
    <2> QED
      BY <2>1 DEF Watching
  <1>5. wt[w].self = NOREF /\ wt[w].handler = NOREF
    BY <1>3 DEF WatcherNew, WatcherOK, Callable
  <1> HIDE DEF d
  <1>6. /\ k \in [Watchers -> Watching] /\ k[w] = d
        /\ \A v \in Watchers \ {w} : k[v] = wt[v]
    BY <1>3, <1>4
  <1> HIDE DEF k
  <1>7. SelfOwned(k, reg)
    <2>1. \A v \in Watchers : k[v].self = wt[v].self
      BY <1>4, <1>5, <1>6
    <2> QED
      BY <1>3, <2>1 DEF SelfOwned, WatcherOK
  <1>8. \A gv : (\A v \in Watchers \ {w} : gv[v] = given[v]) => HandlerOwned(k, reg, gv)
    BY <1>3, <1>4, <1>6 DEF HandlerOwned, WatcherOK
  <1>9. Callable(k)
    BY <1>3, <1>4, <1>6 DEF Callable, WatcherOK
  <1>10. \A x : Due(wt, x) => Due(k, x)
    BY <1>4, <1>6 DEF Due
  <1>11. WatcherOK(k, reg, given)
    BY <1>3, <1>6, <1>7, <1>8, <1>9 DEF WatcherOK
  <1>12. CASE h = None
    <2>1. wt' = k /\ reg' = reg
      BY <1>2, <1>12 DEF WatcherIs
    <2>2. /\ given' \in [Watchers -> Referred]
          /\ \A v \in Watchers \ {w} : given'[v] = given[v]
      BY <1>2, <1>3, <1>12, SlotKinds DEF WatcherOK
    <2>3. WatcherOK(k, reg, given')
      BY <1>3, <1>6, <1>7, <1>8, <1>9, <2>2 DEF WatcherOK
    <2> QED
      BY <1>3, <1>10, <2>1, <2>3, WatcherRuns
  <1>13. CASE h \in Handlers(w)
    <2> DEFINE z == Handled([wt |-> k, reg |-> reg], w, h)
    <2>1. WatcherOK(z.wt, z.reg, given') /\ \A x : Due(k, x) => Due(z.wt, x)
      BY <1>2, <1>4, <1>6, <1>11, <1>13, HandledGives
    <2>2. wt' = z.wt /\ reg' = z.reg
      BY <1>2, <1>13, SlotKinds DEF WatcherIs
    <2> HIDE DEF z
    <2> QED
      BY <1>3, <1>10, <2>1, <2>2, WatcherRuns
  <1> QED
    BY <1>12, <1>13

\* The repeat of a timer is set: when it had fired, its callback will not stop
\* it.
LEMMA TimedGives ==
  ASSUME NEW f, NEW g, NEW gv, WatcherOK(f, g, gv), NEW w \in Watchers,
         NEW t \in Types, t = "io" => f[w].type = "io"
  PROVE  LET k == [f EXCEPT ![w] = Timed(f[w], t)]
         IN  /\ WatcherOK(k, g, gv) /\ k[w].life = f[w].life
             /\ \A x : Due(f, x) => Due(k, x)
  <1> DEFINE d == Timed(f[w], t)
             k == [f EXCEPT ![w] = d]
             q == t = "repeat" /\ ~f[w].active /\ f[w].self # NOREF
  <1>1. f \in [Watchers -> Watching] /\ f[w] \in Watching
    BY DEF WatcherOK
  <1>2. /\ d \in Watching /\ d.life = f[w].life /\ d.self = f[w].self
        /\ d.handler = f[w].handler /\ d.active = f[w].active
        /\ d.pending = f[w].pending /\ d.type = t
        /\ d.retimed = (f[w].retimed \/ q)
    BY <1>1 DEF Timed, Watching
  <1> HIDE DEF d
  <1>3. /\ k \in [Watchers -> Watching] /\ k[w] = d
        /\ \A v \in Watchers \ {w} : k[v] = f[v]
    BY <1>1, <1>2
  <1> HIDE DEF k
  <1>4. \A v \in Watchers : k[v].self = f[v].self /\ k[v].handler = f[v].handler
    BY <1>2, <1>3
  <1>5. SelfOwned(k, g) /\ HandlerOwned(k, g, gv)
    BY <1>4 DEF WatcherOK, SelfOwned, HandlerOwned
  <1>6. t \in {"once", "repeat", "io"}
    BY DEF Types
  <1>7. Callable(k)
    <2>1. Callable(f)
      BY DEF WatcherOK
    <2>2. \A v \in Watchers \ {w} :
            /\ k[v].active \/ k[v].pending =>
                 k[v].life = "live" /\ k[v].self # NOREF /\ k[v].handler # NOREF
            /\ k[v].pending /\ k[v].type # "once" => k[v].active \/ k[v].retimed
            /\ k[v].life = "none" => k[v].self = NOREF /\ k[v].handler = NOREF
      BY <1>3, <2>1 DEF Callable
    <2>3. /\ d.active \/ d.pending =>
               d.life = "live" /\ d.self # NOREF /\ d.handler # NOREF
          /\ d.life = "none" => d.self = NOREF /\ d.handler = NOREF
      BY <1>2, <2>1 DEF Callable
    <2>4. d.pending /\ t # "once" => d.active \/ d.retimed
      BY <1>2, <1>6, <2>1 DEF Callable
    <2> QED
      BY <1>2, <1>3, <2>2, <2>3, <2>4 DEF Callable
  <1>8. ASSUME NEW x, Due(f, x)
        PROVE  Due(k, x)
    <2> SUFFICES ASSUME NEW v \in Watchers, k[v].self # NOREF
                 PROVE  \/ k[v].active \/ k[v].pending \/ k[v].retimed
                        \/ v = x /\ k[v].type = "once"
      BY DEF Due
    <2>1. CASE v # w
      BY <1>3, <1>8, <2>1 DEF Due
    <2>2. CASE v = w
      BY <1>2, <1>3, <1>6, <1>8, <2>2 DEF Due
    <2> QED
      BY <2>1, <2>2
  <1> QED
    <2>1. WatcherOK(k, g, gv)
      BY <1>3, <1>5, <1>7 DEF WatcherOK
    <2> QED
      BY <1>2, <1>3, <1>8, <2>1 DEF k, d

LEMMA SetKeeps ==
  ASSUME WatcherInv, crash = "no", NEW w \in Watchers, WatcherSet(w)
  PROVE  WatcherInv'
  <1>1. PICK t \in Types, h \in Handlers(w) \cup {None} :
          /\ SetArgs(wt[w].type, t, h)
          /\ LET s == [Now EXCEPT !.wt[w] = Timed(Ev("init", @), t)]
             IN  IF h = None THEN WatcherIs(s) /\ UNCHANGED <<given, sets>>
                 ELSE /\ WatcherIs(Handled(s, w, h)) /\ Sets
                      /\ given' = [given EXCEPT ![w] = h]
    BY DEF WatcherSet
  <1>2. /\ wt \in [Watchers -> Watching] /\ wt[w] \in Watching
        /\ WatcherOK(wt, reg, given) /\ Runs
        /\ wt[w].life = "live" /\ ~wt[w].active /\ ~wt[w].pending
    BY DEF WatcherInv, WatcherOK, WatcherSet, Usable
  <1>3. Ev("init", wt[w]) = wt[w]
    <2>1. wt[w].active = FALSE /\ wt[w].pending = FALSE
      BY <1>2 DEF Watching
    <2> QED
      BY <1>2, <2>1 DEF Ev, Watching
  <1> DEFINE k == [wt EXCEPT ![w] = Timed(wt[w], t)]
  <1>4. [Now EXCEPT !.wt[w] = Timed(Ev("init", @), t)] = [wt |-> k, reg |-> reg]
    BY <1>2, <1>3 DEF Now
  <1>5. t = "io" => wt[w].type = "io"
    BY <1>1 DEF SetArgs
  <1>6. WatcherOK(k, reg, given) /\ k[w].life = "live" /\ \A x : Due(wt, x) => Due(k, x)
    BY <1>2, <1>5, TimedGives
  <1> HIDE DEF k
  <1>7. CASE h = None
    <2>1. wt' = k /\ reg' = reg /\ given' = given
      BY <1>1, <1>4, <1>7 DEF WatcherIs
    <2> QED
      BY <1>2, <1>6, <2>1, WatcherRuns
  <1>8. CASE h \in Handlers(w)
    <2> DEFINE z == Handled([wt |-> k, reg |-> reg], w, h)
    <2>1. given' = [given EXCEPT ![w] = h] /\ wt' = z.wt /\ reg' = z.reg
      BY <1>1, <1>4, <1>8, SlotKinds DEF WatcherIs
    <2>2. WatcherOK(z.wt, z.reg, given') /\ \A x : Due(k, x) => Due(z.wt, x)
      BY <1>6, <1>8, <2>1, HandledGives
    <2> HIDE DEF z
    <2> QED
      BY <1>2, <1>6, <2>1, <2>2, WatcherRuns
  <1> QED
    BY <1>7, <1>8

LEMMA RepeatKeeps ==
  ASSUME WatcherInv, crash = "no", NEW w \in Watchers, WatcherRepeat(w)
  PROVE  WatcherInv'
  <1>1. PICK t \in {"once", "repeat"} : wt' = [wt EXCEPT ![w] = Timed(wt[w], t)]
    BY DEF WatcherRepeat
  <1>2. WatcherOK(wt, reg, given) /\ Runs /\ reg' = reg /\ given' = given
    BY DEF WatcherInv, WatcherRepeat, Keeps
  <1>3. t \in Types /\ t # "io"
    BY DEF Types
  <1>4. WatcherOK(wt', reg, given) /\ \A x : Due(wt, x) => Due(wt', x)
    BY <1>1, <1>2, <1>3, TimedGives
  <1> QED
    BY <1>2, <1>4, WatcherRuns

\* Lua_watcher_newindex releases the old handler first, so the new one may get
\* its number.
LEMMA AssignKeeps ==
  ASSUME WatcherInv, crash = "no", ~nilled', NEW w \in Watchers, WatcherAssign(w)
  PROVE  WatcherInv'
  <1> DEFINE o == wt[w].handler
             g == Unref(reg, o)
             n == NextRef(g)
  <1>1. PICK h \in Handlers(w) :
          /\ wt' = [wt EXCEPT ![w].handler = n,
                              ![w].thread = IF h[1] = "co" THEN h[2] ELSE 0]
          /\ reg' = Ref(g, h)
          /\ given' = [given EXCEPT ![w] = h]
    BY SlotKinds DEF WatcherAssign
  <1>2. /\ wt \in [Watchers -> Watching] /\ wt[w] \in Watching
        /\ WatcherOK(wt, reg, given) /\ RegistryOK(reg) /\ Runs
        /\ wt[w].life = "live"
    BY DEF WatcherInv, WatcherOK, WatcherAssign, Usable
  <1>3. o \in Nat /\ (o # NOREF => At(reg, o) \in Handlers(w))
    BY <1>2 DEF WatcherOK, HandlerOwned, Watching
  <1>4. At(reg, NOREF) = None
    BY <1>2 DEF At, RegistryOK, NOREF
  <1>5. /\ RegistryOK(g)
        /\ \A r \in Nat : At(g, r) = IF r = o THEN None ELSE At(reg, r)
    <2>1. CASE o = NOREF
      BY <1>2, <1>4, <2>1 DEF Unref
    <2>2. CASE o # NOREF
      BY <1>2, <1>3, <2>2, SlotKinds, UnrefFrees
    <2> QED
      BY <2>1, <2>2
  <1> HIDE DEF g
  <1>6. /\ RegistryOK(reg') /\ n \in Nat /\ n # NOREF
        /\ At(g, n) = None /\ At(reg', n) = h
        /\ \A r : r # n => At(reg', r) = At(g, r)
    BY <1>1, <1>5, RefGives, SlotKinds
  <1> HIDE DEF n
  <1> DEFINE t == IF h[1] = "co" THEN h[2] ELSE 0
  <1>7. t \in 0..NCoros
    BY WatcherAssumption DEF Handlers, Coros
  <1> HIDE DEF t
  <1>8. wt' = [wt EXCEPT ![w].handler = n, ![w].thread = t]
    BY <1>1 DEF t
  <1>9. /\ wt' \in [Watchers -> Watching] /\ wt'[w].handler = n
        /\ SameButHandler(wt'[w], wt[w])
        /\ \A v \in Watchers \ {w} : wt'[v] = wt[v]
    BY <1>2, <1>6, <1>7, <1>8 DEF Watching, SameButHandler
  <1>10. At(reg, n) = None \/ n = o
    BY <1>5, <1>6
  <1>11. \A r \in Nat : r # n => At(reg', r) = IF r = o THEN None ELSE At(reg, r)
    BY <1>5, <1>6
  <1> DEFINE k == wt'
             m == reg'
  <1>12. /\ k \in [Watchers -> Watching] /\ RegistryOK(m)
         /\ SameButHandler(k[w], wt[w]) /\ \A v \in Watchers \ {w} : k[v] = wt[v]
         /\ k[w].handler # NOREF /\ At(m, k[w].handler) = h
         /\ At(reg, k[w].handler) = None \/ k[w].handler = wt[w].handler
         /\ \A r \in Nat : r # k[w].handler =>
              At(m, r) = IF r = wt[w].handler THEN None ELSE At(reg, r)
    BY <1>6, <1>9, <1>10, <1>11
  <1> HIDE DEF k, m
  <1>13. /\ WatcherOK(k, m, [given EXCEPT ![w] = h])
         /\ \A x : Due(wt, x) => Due(k, x)
    BY <1>2, <1>12, HandlerGiven
  <1>14. WatcherOK(wt', reg', given') /\ \A x : Due(wt, x) => Due(wt', x)
    BY <1>1, <1>13 DEF k, m
  <1> QED
    BY <1>2, <1>14, WatcherRuns

LEMMA StartStopKeeps ==
  ASSUME WatcherInv, crash = "no", NEW w \in Watchers,
         WatcherStart(w) \/ WatcherStop(w)
  PROVE  WatcherInv'
  <1>1. /\ WatcherOK(wt, reg, given) /\ Runs /\ given' = given
        /\ wt[w].life = "live"
    BY DEF WatcherInv, WatcherStart, WatcherStop, Usable, Keeps
  <1>2. CASE WatcherStart(w)
    <2> DEFINE z == Started([wt |-> wt, reg |-> reg], w)
    <2>1. WatcherOK(z.wt, z.reg, given) /\ \A x : Due(wt, x) => Due(z.wt, x)
      BY <1>1, StartsWatcher
    <2>2. wt' = z.wt /\ reg' = z.reg
      BY <1>2 DEF WatcherStart, WatcherIs, Now
    <2> HIDE DEF z
    <2> QED
      BY <1>1, <2>1, <2>2, WatcherRuns
  <1>3. CASE WatcherStop(w)
    <2> DEFINE z == Stopped([wt |-> wt, reg |-> reg], w)
    <2>1. WatcherOK(z.wt, z.reg, given) /\ \A x : Due(wt, x) => Due(z.wt, x)
      BY <1>1, StopsWatcher
    <2>2. wt' = z.wt /\ reg' = z.reg
      BY <1>3 DEF WatcherStop, WatcherIs, Now
    <2> HIDE DEF z
    <2> QED
      BY <1>1, <2>1, <2>2, WatcherRuns
  <1> QED
    BY <1>2, <1>3

LEMMA GcKeeps ==
  ASSUME WatcherInv, crash = "no", NEW w \in Watchers, WatcherGc(w)
  PROVE  WatcherInv'
  <1> DEFINE d == [wt[w] EXCEPT !.life = "gone", !.handler = NOREF, !.thread = 0]
  <1>1. /\ wt \in [Watchers -> Watching] /\ wt[w] \in Watching
        /\ WatcherOK(wt, reg, given) /\ Runs /\ reg' = reg /\ given' = given
    BY DEF WatcherInv, WatcherOK, WatcherGc, Keeps
  <1>2. wt' = [wt EXCEPT ![w] = d]
    BY <1>1 DEF WatcherGc
  <1>3. /\ d \in Watching /\ d.self = wt[w].self /\ d.handler = NOREF
        /\ d.active = wt[w].active /\ d.pending = wt[w].pending
        /\ d.type = wt[w].type /\ d.life = "gone"
    <2>1. 0 \in 0..NCoros /\ NOREF \in Nat
      BY WatcherAssumption DEF NOREF
    <2> QED
      BY <1>1, <2>1 DEF Watching
  <1> HIDE DEF d
  <1>4. /\ wt' \in [Watchers -> Watching] /\ wt'[w] = d
        /\ \A v \in Watchers \ {w} : wt'[v] = wt[v]
    BY <1>1, <1>2, <1>3
  <1>5. wt[w].self = NOREF
    BY <1>1, SlotKinds DEF WatcherGc, WatcherOK, SelfOwned, At
  <1>6. SelfOwned(wt', reg')
    <2>1. \A v \in Watchers : wt'[v].self = wt[v].self
      BY <1>3, <1>4
    <2> QED
      BY <1>1, <2>1 DEF WatcherOK, SelfOwned
  <1>7. HandlerOwned(wt', reg', given')
    BY <1>1, <1>3, <1>4 DEF WatcherOK, HandlerOwned
  <1>8. Callable(wt')
    BY <1>1, <1>3, <1>4, <1>5 DEF WatcherOK, Callable
  <1>9. Due(wt, lua.w) => Due(wt', lua.w)
    BY <1>3, <1>4, <1>5 DEF Due
  <1> QED
    BY <1>1, <1>4, <1>6, <1>7, <1>8, <1>9, WatcherRuns DEF WatcherOK

\* Lua_watcher_yield gives the coroutine as the handler, starts the watcher,
\* and lets the callback that ran the coroutine come to its end.
LEMMA YieldKeeps ==
  ASSUME WatcherInv, crash = "no", NEW w \in Watchers, WatcherYield(w)
  PROVE  WatcherInv'
  <1>1. /\ wt \in [Watchers -> Watching] /\ wt[w] \in Watching
        /\ WatcherOK(wt, reg, given) /\ RegistryOK(reg) /\ LuaOK
        /\ Due(wt, lua.w) /\ lua.c # 0 /\ wt[w].life = "live"
    BY DEF WatcherInv, WatcherOK, WatcherYield, Usable
  <1>2. CASE wt[w].thread = lua.c
    <2>1. crash' = "assert" /\ UNCHANGED <<wt, reg, co, lua, given>>
      BY <1>2 DEF WatcherYield
    <2> QED
      BY <1>1, <2>1 DEF WatcherInv, LuaOK
  <1>3. CASE wt[w].thread # lua.c
    <2> DEFINE h == <<"co", lua.c>>
               n == NextRef(reg)
               m == Ref(reg, h)
               k == [wt EXCEPT ![w].handler = n, ![w].thread = lua.c]
               z == Started([wt |-> k, reg |-> m], w)
               gv == [given EXCEPT ![w] = h]
    <2>1. /\ wt[w].handler = NOREF /\ Callback(z, "yield")
          /\ co' = [co EXCEPT ![lua.c] = "waits"] /\ lua' = NoLua
          /\ given' = gv
      BY <1>3 DEF WatcherYield
    <2>2. lua.c \in 0..NCoros /\ lua.c \in Coros
      BY <1>1, WatcherAssumption DEF LuaOK, Coros
    <2>3. h \in Handlers(w)
      BY <2>2 DEF Handlers
    <2>4. /\ RegistryOK(m) /\ n \in Nat /\ n # NOREF
          /\ At(reg, n) = None /\ At(m, n) = h
          /\ \A r : r # n => At(m, r) = At(reg, r)
      <3>1. h \in Referred
        BY <2>3, SlotKinds
      <3> QED
        BY <1>1, <3>1, RefGives
    <2> HIDE DEF n, m
    <2>5. /\ k \in [Watchers -> Watching] /\ k[w].handler = n
          /\ SameButHandler(k[w], wt[w])
          /\ \A v \in Watchers \ {w} : k[v] = wt[v]
      <3> DEFINE d == [wt[w] EXCEPT !.handler = n, !.thread = lua.c]
      <3>1. d \in Watching /\ d.handler = n /\ SameButHandler(d, wt[w])
        BY <1>1, <2>2, <2>4 DEF Watching, SameButHandler
      <3>2. k = [wt EXCEPT ![w] = d]
        BY <1>1
      <3> HIDE DEF d, k
      <3> QED
        BY <1>1, <3>1, <3>2
    <2>6. At(m, NOREF) = None
      BY <2>4 DEF At, RegistryOK, NOREF
    <2>7. \A r \in Nat : r # k[w].handler =>
            At(m, r) = IF r = wt[w].handler THEN None ELSE At(reg, r)
      BY <2>1, <2>4, <2>5, <2>6
    <2>8. /\ k[w].handler # NOREF /\ At(m, k[w].handler) = h
          /\ At(reg, k[w].handler) = None
      BY <2>4, <2>5
    <2> HIDE DEF k, h
    <2>9. WatcherOK(k, m, gv) /\ Due(k, lua.w)
      BY <1>1, <2>3, <2>4, <2>5, <2>7, <2>8, HandlerGiven
    <2>10. k[w].life = "live"
      BY <1>1, <2>5 DEF SameButHandler
    <2> HIDE DEF gv
    <2>11. WatcherOK(z.wt, z.reg, gv) /\ Due(z.wt, lua.w)
      BY <2>9, <2>10, StartsWatcher
    <2>12. z = [wt |-> z.wt, reg |-> z.reg]
      BY DEF Started
    <2> HIDE DEF z
    <2> DEFINE zf == z.wt
               zg == z.reg
    <2>13. WatcherOK(zf, zg, gv) /\ Due(zf, lua.w) /\ Callback([wt |-> zf, reg |-> zg], "yield")
      BY <2>1, <2>11, <2>12
    <2> HIDE DEF zf, zg
    <2>14. /\ WatcherOK(wt', reg', gv) /\ crash' # "not a function"
           /\ crash' = "no" => Due(wt', 0)
      BY <1>1, <2>13, EndsCallback
    <2>15. LuaOK' /\ lua'.w = 0
      <3>1. NoLua \in [on : BOOLEAN, w : 0..NWatchers, c : 0..NCoros, own : BOOLEAN]
            /\ NoLua.own /\ NoLua.w = 0 /\ NoLua.on = FALSE
        BY WatcherAssumption DEF NoLua
      <3>2. co' \in [Coros -> {"elsewhere", "waits", "dead"}]
        BY <1>1, <2>1 DEF LuaOK
      <3> QED
        BY <2>1, <2>14, <3>1, <3>2 DEF LuaOK
    <2> QED
      BY <2>1, <2>14, <2>15 DEF WatcherInv
  <1> QED
    BY <1>2, <1>3

LEMMA ReturnKeeps ==
  ASSUME WatcherInv, crash = "no", WatcherReturn
  PROVE  WatcherInv'
  <1>1. /\ WatcherOK(wt, reg, given) /\ LuaOK /\ Due(wt, lua.w)
        /\ lua' = NoLua /\ given' = given
    BY DEF WatcherInv, WatcherReturn, Keeps
  <1>2. PICK rc : /\ Callback(Now, rc)
                  /\ co' = IF lua.c = 0 THEN co
                           ELSE [co EXCEPT ![lua.c] =
                                   IF rc = "yield" THEN "elsewhere" ELSE "dead"]
    BY DEF WatcherReturn
  <1>3. /\ WatcherOK(wt', reg', given) /\ crash' # "not a function"
        /\ crash' = "no" => Due(wt', 0)
    BY <1>1, <1>2, EndsCallback DEF Now
  <1>4. NoLua \in [on : BOOLEAN, w : 0..NWatchers, c : 0..NCoros, own : BOOLEAN]
        /\ NoLua.own /\ NoLua.w = 0 /\ NoLua.on = FALSE
    BY WatcherAssumption DEF NoLua
  <1>5. co' \in [Coros -> {"elsewhere", "waits", "dead"}]
    BY <1>1, <1>2 DEF LuaOK
  <1>6. LuaOK' /\ lua'.w = 0
    BY <1>1, <1>3, <1>4, <1>5 DEF LuaOK
  <1> QED
    BY <1>1, <1>3, <1>6 DEF WatcherInv

LEMMA OtherKeeps ==
  ASSUME WatcherInv, crash = "no", WatcherOther
  PROVE  WatcherInv'
  <1>1. PICK c \in {0} \cup {d \in Coros : co[d] = "elsewhere"} :
          lua' = [on |-> TRUE, w |-> 0, c |-> c, own |-> TRUE]
    BY DEF WatcherOther
  <1>2. UNCHANGED <<wt, reg, co, given, sets, crash>> /\ lua.w = 0
    BY DEF WatcherOther, WatcherInv, LuaOK, Keeps
  <1>3. c \in 0..NCoros
    BY WatcherAssumption DEF Coros
  <1>4. LuaOK' /\ lua'.w = 0
    BY <1>1, <1>2, <1>3, WatcherAssumption DEF LuaOK, WatcherInv
  <1> QED
    BY <1>2, <1>4 DEF WatcherInv

\* libev marks the watcher, and stops a timer without repeat.
LEMMA FireKeeps ==
  ASSUME WatcherInv, crash = "no", NEW w \in Watchers, WatcherFire(w)
  PROVE  WatcherInv'
  <1> DEFINE d == [wt[w] EXCEPT !.pending = TRUE, !.active = wt[w].type # "once"]
  <1>1. /\ wt \in [Watchers -> Watching] /\ wt[w] \in Watching
        /\ WatcherOK(wt, reg, given) /\ Due(wt, lua.w) /\ LuaOK
        /\ UNCHANGED <<reg, co, lua, given, sets, crash>> /\ wt[w].active
    BY DEF WatcherInv, WatcherOK, WatcherFire, Keeps
  <1>2. wt' = [wt EXCEPT ![w] = d]
    BY <1>1 DEF WatcherFire
  <1>3. /\ d \in Watching /\ d.self = wt[w].self /\ d.handler = wt[w].handler
        /\ d.active = (wt[w].type # "once") /\ d.pending = TRUE
        /\ d.type = wt[w].type /\ d.life = wt[w].life
    BY <1>1 DEF Watching
  <1> HIDE DEF d
  <1>4. /\ wt' \in [Watchers -> Watching] /\ wt'[w] = d
        /\ \A v \in Watchers \ {w} : wt'[v] = wt[v]
    BY <1>1, <1>2, <1>3
  <1>5. \A v \in Watchers : wt'[v].self = wt[v].self /\ wt'[v].handler = wt[v].handler
    BY <1>3, <1>4
  <1>6. SelfOwned(wt', reg') /\ HandlerOwned(wt', reg', given')
    BY <1>1, <1>5 DEF WatcherOK, SelfOwned, HandlerOwned
  <1>7. Callable(wt')
    BY <1>1, <1>3, <1>4 DEF WatcherOK, Callable, Types, Watching
  <1>8. Due(wt', lua.w)
    BY <1>1, <1>3, <1>4 DEF Due
  <1>9. LuaOK'
    BY <1>1 DEF LuaOK
  <1> QED
    BY <1>1, <1>4, <1>6, <1>7, <1>8, <1>9 DEF WatcherInv, WatcherOK

\* watcher_callback finds the handler the watcher was given last, in its slot.
LEMMA InvokeKeeps ==
  ASSUME WatcherInv, crash = "no", NEW w \in Watchers, WatcherInvoke(w)
  PROVE  WatcherInv'
  <1> DEFINE v == Registered(wt[w].handler)
             k == [wt EXCEPT ![w].pending = FALSE]
             d == [wt[w] EXCEPT !.pending = FALSE]
  <1>1. /\ wt \in [Watchers -> Watching] /\ wt[w] \in Watching
        /\ WatcherOK(wt, reg, given) /\ Due(wt, lua.w) /\ LuaOK
        /\ UNCHANGED <<given, sets>> /\ wt[w].pending /\ lua.w = 0
    BY DEF WatcherInv, WatcherOK, WatcherInvoke, LuaOK, Keeps
  <1>2. v = given[w] /\ v \in Handlers(w)
    <2>1. wt[w].handler # NOREF
      BY <1>1 DEF WatcherOK, Callable
    <2>2. v = At(reg, wt[w].handler)
      BY DEF Registered, At
    <2> QED
      BY <1>1, <2>1, <2>2 DEF WatcherOK, HandlerOwned
  <1>3. v[1] = "fn" \/ (v[1] = "co" /\ v[2] \in Coros)
    BY <1>2 DEF Handlers
  <1>4. /\ d \in Watching /\ d.self = wt[w].self /\ d.handler = wt[w].handler
        /\ d.active = wt[w].active /\ d.pending = FALSE
        /\ d.type = wt[w].type /\ d.life = wt[w].life /\ d.retimed = wt[w].retimed
    BY <1>1 DEF Watching
  <1>5. k = [wt EXCEPT ![w] = d]
    BY <1>1
  <1> HIDE DEF d, k
  <1>6. /\ k \in [Watchers -> Watching] /\ k[w] = d
        /\ \A u \in Watchers \ {w} : k[u] = wt[u]
    BY <1>1, <1>4, <1>5
  <1>7. WatcherOK(k, reg, given)
    <2>1. \A u \in Watchers : k[u].self = wt[u].self /\ k[u].handler = wt[u].handler
      BY <1>4, <1>6
    <2>2. SelfOwned(k, reg) /\ HandlerOwned(k, reg, given)
      BY <1>1, <2>1 DEF WatcherOK, SelfOwned, HandlerOwned
    <2>3. Callable(k)
      BY <1>1, <1>4, <1>6 DEF WatcherOK, Callable
    <2> QED
      BY <1>1, <1>6, <2>2, <2>3 DEF WatcherOK
  <1>8. \A u \in Watchers :
          \/ k[u].self # NOREF => k[u].active \/ k[u].pending \/ k[u].retimed
          \/ u = w /\ k[u].type = "once"
    <2> SUFFICES ASSUME NEW u \in Watchers, u # w \/ k[u].type # "once",
                        k[u].self # NOREF
                 PROVE  k[u].active \/ k[u].pending \/ k[u].retimed
      OBVIOUS
    <2>1. CASE u # w
      BY <1>1, <1>6, <2>1 DEF Due, Watchers
    <2>2. CASE u = w
      <3>1. wt[w].type # "once"
        BY <1>4, <1>6, <2>2
      <3> QED
        BY <1>1, <1>4, <1>6, <2>2, <3>1 DEF WatcherOK, Callable
    <2> QED
      BY <2>1, <2>2
  <1>9. CASE v[1] = "co" /\ ~Resumes(v[2])
    <2> DEFINE z == Stopped([wt |-> k, reg |-> reg], w)
    <2>1. /\ WatcherIs(IF wt[w].type = "once"
                       THEN Stopped([Now EXCEPT !.wt = k], w)
                       ELSE [Now EXCEPT !.wt = k])
          /\ UNCHANGED <<co, lua, crash>>
      BY <1>9 DEF WatcherInvoke, k
    <2>2. [Now EXCEPT !.wt = k] = [wt |-> k, reg |-> reg]
      BY DEF Now
    <2>3. WatcherOK(wt', reg', given) /\ Due(wt', 0)
      <3>1. CASE wt[w].type = "once"
        <4>1. Due(k, w)
          BY <1>8 DEF Due
        <4>2. WatcherOK(z.wt, z.reg, given) /\ Due(z.wt, 0)
          BY <1>7, <4>1, StopsWatcher
        <4>3. wt' = z.wt /\ reg' = z.reg
          BY <2>1, <2>2, <3>1 DEF WatcherIs
        <4> QED
          BY <4>2, <4>3
      <3>2. CASE wt[w].type # "once"
        <4>1. wt' = k /\ reg' = reg
          BY <2>1, <2>2, <3>2 DEF WatcherIs
        <4>2. Due(k, 0)
          BY <1>4, <1>6, <1>8, <3>2 DEF Due
        <4> QED
          BY <1>7, <4>1, <4>2
      <3> QED
        BY <3>1, <3>2
    <2>4. LuaOK' /\ lua'.w = 0
      BY <1>1, <2>1 DEF LuaOK
    <2> QED
      BY <1>1, <2>3, <2>4 DEF WatcherInv
  <1>10. CASE v[1] = "fn" \/ (v[1] = "co" /\ Resumes(v[2]))
    <2> DEFINE c == IF v[1] = "co" THEN v[2] ELSE 0
    <2>1. /\ WatcherIs([Now EXCEPT !.wt = k])
          /\ lua' = [on |-> TRUE, w |-> w, c |-> c, own |-> v = given[w]]
          /\ co' = IF v[1] = "co" THEN [co EXCEPT ![v[2]] = "elsewhere"] ELSE co
          /\ UNCHANGED crash
      <3>1. ~(v[1] = "co" /\ ~Resumes(v[2]))
        BY <1>10
      <3> QED
        BY <1>10, <3>1 DEF WatcherInvoke, k
    <2>2. wt' = k /\ reg' = reg
      BY <2>1 DEF WatcherIs, Now
    <2>3. Due(k, w)
      BY <1>8 DEF Due
    <2>4. c \in 0..NCoros /\ w \in 0..NWatchers
      BY <1>3, WatcherAssumption DEF Coros, Watchers
    <2>5. lua'.w = w /\ lua' \in [on : BOOLEAN, w : 0..NWatchers, c : 0..NCoros,
                                  own : BOOLEAN]
          /\ lua'.own = TRUE /\ lua'.on = TRUE
      BY <1>2, <2>1, <2>4
    <2>6. co' \in [Coros -> {"elsewhere", "waits", "dead"}]
      BY <1>1, <2>1 DEF LuaOK
    <2>7. LuaOK'
      BY <2>1, <2>5, <2>6 DEF LuaOK
    <2> QED
      BY <1>1, <1>7, <2>2, <2>3, <2>5, <2>7 DEF WatcherInv
  <1> QED
    BY <1>3, <1>9, <1>10

LEMMA WatcherStarts == WatcherInit => WatcherInv
  <1> SUFFICES ASSUME WatcherInit PROVE WatcherInv
    OBVIOUS
  <1>1. /\ Fresh \in Watching /\ Fresh.self = NOREF /\ Fresh.handler = NOREF
        /\ Fresh.active = FALSE /\ Fresh.pending = FALSE
    BY WatcherAssumption DEF Fresh, Watching, NOREF, Types
  <1>2. wt \in [Watchers -> Watching] /\ \A w \in Watchers : wt[w] = Fresh
    BY <1>1 DEF WatcherInit
  <1>3. RegistryOK(reg) /\ \A r : At(reg, r) = None
    BY DEF WatcherInit, RegistryOK, At
  <1>4. SelfOwned(wt, reg)
    BY <1>1, <1>2, <1>3, SlotKinds DEF SelfOwned
  <1>5. HandlerOwned(wt, reg, given) /\ Callable(wt) /\ Due(wt, lua.w)
    BY <1>1, <1>2 DEF HandlerOwned, Callable, Due
  <1>6. given \in [Watchers -> Referred]
    BY SlotKinds DEF WatcherInit
  <1>7. LuaOK
    BY WatcherAssumption DEF WatcherInit, LuaOK, NoLua
  <1> QED
    BY <1>2, <1>3, <1>4, <1>5, <1>6, <1>7 DEF WatcherInv, WatcherOK

\* Until nil is assigned to a handler.
NilOrSound == nilled \/ WatcherInv

LEMMA WatcherStep ==
  ASSUME NilOrSound, [WatcherNext]_watcherVars
  PROVE  NilOrSound'
  <1>1. nilled => nilled'
    BY DEF WatcherNext, WatcherLua, WatcherNew, WatcherSet, WatcherAssign,
       WatcherRepeat, WatcherStart, WatcherStop, WatcherGc, WatcherYield,
       WatcherReturn, WatcherOther, WatcherFire, WatcherInvoke, Keeps, watcherVars
  <1>2. CASE WatcherInv /\ UNCHANGED watcherVars
    BY <1>2 DEF watcherVars, WatcherInv, LuaOK, NilOrSound
  <1>3. CASE WatcherInv /\ ~nilled' /\ WatcherNext
    <2>1. crash = "no"
      BY <1>3 DEF WatcherNext
    <2>2. WatcherInv'
      BY <1>3, <2>1, NewKeeps, SetKeeps, AssignKeeps, RepeatKeeps, StartStopKeeps,
         GcKeeps, YieldKeeps, ReturnKeeps, OtherKeeps, FireKeeps, InvokeKeeps
      DEF WatcherNext, WatcherLua
    <2> QED
      BY <2>2 DEF NilOrSound
  <1> QED
    BY <1>1, <1>2, <1>3 DEF NilOrSound

\* Until nil is assigned to a handler, the registry refers to a watcher exactly
\* as long as libev may call it or its callback runs, but for a timer made to
\* repeat after it fired: starting, stopping, firing, setting, yielding and
\* collecting never leave libev with freed memory, and the trailing stop of
\* watcher_callback leaks no other timer.
THEOREM WatcherReferences == WatcherSpec => []WatcherHeld
  <1>1. NilOrSound => WatcherHeld
    <2> SUFFICES ASSUME WatcherInv PROVE WatcherPinned /\ WatcherReleased
      BY DEF NilOrSound, WatcherHeld
    <2>1. WatcherPinned
      BY DEF WatcherInv, WatcherOK, Callable, SelfOwned, WatcherPinned,
             Registered, At
    <2>2. WatcherReleased
      <3> SUFFICES ASSUME NEW w \in Watchers, ~wt[w].active, ~wt[w].pending,
                          ~wt[w].retimed, lua.w # w, crash = "no",
                          NEW r \in DOMAIN reg.slot, reg.slot[r] = <<"self", w>>
                   PROVE  FALSE
        BY DEF WatcherReleased
      <3>1. wt[w].self = NOREF
        BY DEF WatcherInv, Due
      <3>2. r \in Nat /\ r # NOREF
        BY DEF WatcherInv, WatcherOK, RegistryOK, NOREF
      <3>3. At(reg, r) = <<"self", w>>
        BY DEF At
      <3> QED
        BY <3>1, <3>2, <3>3 DEF WatcherInv, WatcherOK, SelfOwned
    <2> QED
      BY <2>1, <2>2
  <1>2. WatcherInit => NilOrSound
    BY WatcherStarts DEF NilOrSound
  <1> QED
    BY <1>1, <1>2, WatcherStep, PTL DEF WatcherSpec

\* Until nil is assigned to a handler, watcher_callback finds a function or a
\* coroutine in the handler's slot of the registry, and it is the one that
\* the watcher was given last, though slots are given out again.
THEOREM WatcherHandlers == WatcherSpec => []WatcherRunsOwn
  <1>1. NilOrSound => WatcherRunsOwn
    BY DEF NilOrSound, WatcherInv, LuaOK, WatcherRunsOwn
  <1>2. WatcherInit => NilOrSound
    BY WatcherStarts DEF NilOrSound
  <1> QED
    BY <1>1, <1>2, WatcherStep, PTL DEF WatcherSpec

(******************************** the pool *********************************)

-----------------------------------------------------------------------------
(* The invariant.                                                          *)

Block == [page : Nat, off : Nat, size : Nat \ {0}]
PageRec == [cur : Nat, used : Int, wasted : Int, reserved : Int]
SpaceRec == [free : Int, used : Int, wasted : Int, reserved : Int, allocd : Int]
PoolRec == [pages : Seq(PageRec), allocd : Seq(Nat), space : SpaceRec]
LevelRec == [page : Nat, allocd : Nat, space : PageRec]

\* The blocks of B in page i, in any page, and in none.
InPage(B, i) == {b \in B : b.page = i}
InPages(B) == {b \in B : b.page # 0}
NotInPage(B) == {b \in B : b.page = 0}
\* Those in front of position c of page i.
InFront(B, i, c) == {b \in B : b.page = i /\ b.off < c}

\* All but the malloc'd ones after the n-th, those in the first n pages or
\* malloc'd, and all but those in page n from position c on.
Low(B, n) == {b \in B : b.page = 0 => b.off <= n}
Under(B, n) == {b \in B : b.page <= n}
Left(B, n, c) == {b \in B : b.page = n => b.off < c}

\* A page whose counters add up to its position.
PageOK(ps, pg) ==
  /\ pg \in PageRec /\ PageHeader <= pg.cur /\ pg.cur <= ps
  /\ pg.cur = pg.used + pg.wasted + pg.reserved /\ pg.reserved = PageHeader

\* The blocks of B lie in the pages of the pool, apart from each other, and are
\* its malloc'd blocks ...
Lie(pl, B) ==
  /\ B \subseteq Block
  /\ \A b \in B : b.page = 0 => /\ b.off \in 1..Len(pl.allocd)
                                /\ pl.allocd[b.off] = b.size
  /\ \A i \in 1..Len(pl.allocd) :
       [page |-> 0, off |-> i, size |-> pl.allocd[i]] \in B
  /\ \A b \in B : b.page # 0 => /\ b.page \in 1..Len(pl.pages)
                                /\ b.off >= PageHeader
                                /\ b.off + b.size <= pl.pages[b.page].cur
  /\ \A b, c \in B : b # c /\ b.page # 0 /\ c.page = b.page =>
       b.off + b.size <= c.off \/ c.off + c.size <= b.off
\* ... and are counted by page, in all pages and outside of them.
Count(ps, pl, B) ==
  /\ IsFiniteSet(BytesOf(B))
  /\ \A i \in 1..Len(pl.pages) : /\ PageOK(ps, pl.pages[i])
                                 /\ pl.pages[i].used = SizeOf(InPage(B, i))
  /\ pl.space.free = IF pl.pages = <<>> THEN 0 ELSE ps - pl.pages[Len(pl.pages)].cur
  /\ pl.space.used + pl.space.free + pl.space.wasted + pl.space.reserved
       = ps * Len(pl.pages)
  /\ pl.space.used = SizeOf(InPages(B))
  /\ pl.space.allocd = SizeOf(NotInPage(B))
Holds(ps, pl, B) == pl \in PoolRec /\ Lie(pl, B) /\ Count(ps, pl, B)

\* A level to which the pool can be drained: no block lies across it, those in
\* front of it are counted, and those that were marked, M, are in front of it.
Covers(ps, lv, pl, B, M) ==
  /\ lv \in LevelRec /\ lv.allocd <= Len(pl.allocd)
  /\ lv.page = 0 => pl.pages = <<>>
  /\ lv.page # 0 =>
       /\ lv.page \in 1..Len(pl.pages) /\ PageOK(ps, lv.space)
       /\ lv.space.cur <= pl.pages[lv.page].cur
       /\ lv.space.used = SizeOf(InFront(B, lv.page, lv.space.cur))
       /\ \A b \in B : b.page = lv.page =>
            b.off + b.size <= lv.space.cur \/ b.off >= lv.space.cur
  /\ M \subseteq B
  /\ \A b \in M : IF b.page = 0 THEN b.off <= lv.allocd
                  ELSE \/ b.page < lv.page
                       \/ b.page = lv.page /\ b.off < lv.space.cur
\* Level a was marked before level b.
Before(a, b) ==
  /\ a.allocd <= b.allocd
  /\ \/ a.page < b.page
     \/ a.page = b.page /\ (a.page # 0 => a.space.cur <= b.space.cur)

PoolInv ==
  /\ pagesize \in {0, PoolPageSize} /\ (pages = <<>> => pagesize = 0)
  /\ Holds(pagesize, P, blocks)
  /\ levels \in Seq(LevelRec) /\ marked \in Seq(SUBSET Block)
  /\ Len(marked) = Len(levels)
  /\ \A n \in 1..Len(levels) :
       marked[n] # {} => Covers(pagesize, levels[n], P, blocks, marked[n])
  /\ \A m, n \in 1..Len(levels) :
       m < n /\ marked[m] # {} /\ marked[n] # {} => Before(levels[m], levels[n])

-----------------------------------------------------------------------------
(* Counting bytes.                                                         *)

LEMMA BytesIs ==
  ASSUME NEW B, NEW x
  PROVE  x \in BytesOf(B) <=> \E b \in B : x \in {b} \X (1..b.size)
BY DEF BytesOf

\* A part of the blocks has a part of the bytes, and the rest the rest.
LEMMA BytesSplit ==
  ASSUME NEW B, IsFiniteSet(BytesOf(B)), NEW C \in SUBSET B
  PROVE  /\ IsFiniteSet(BytesOf(C)) /\ SizeOf(C) \in Nat
         /\ SizeOf(B \ C) \in Nat /\ SizeOf(B) = SizeOf(C) + SizeOf(B \ C)
<1> DEFINE D == B \ C
<1>1. BytesOf(B) = BytesOf(C) \cup BytesOf(D)
  BY BytesIs
<1>2. BytesOf(C) \cap BytesOf(D) = {}
  <2> SUFFICES ASSUME NEW x \in BytesOf(C), x \in BytesOf(D)
               PROVE  FALSE
    OBVIOUS
  <2>1. PICK c \in C : x \in {c} \X (1..c.size)
    BY BytesIs
  <2>2. PICK d \in D : x \in {d} \X (1..d.size)
    BY BytesIs
  <2>3. x[1] = c /\ x[1] = d
    BY <2>1, <2>2
  <2> QED
    BY <2>3
<1> HIDE DEF D
<1>3. IsFiniteSet(BytesOf(C)) /\ IsFiniteSet(BytesOf(D))
  BY <1>1, FS_Subset
<1>4. /\ SizeOf(B) = SizeOf(C) + SizeOf(D) - Cardinality({})
      /\ SizeOf(C) \in Nat /\ SizeOf(D) \in Nat
  BY <1>1, <1>2, <1>3, FS_Union, FS_CardinalityType DEF SizeOf
<1>5. SizeOf(B) = SizeOf(C) + SizeOf(D)
  BY <1>4, FS_EmptySet
<1> QED
  BY <1>3, <1>4, <1>5 DEF D

\* A block has as many bytes as its size.
LEMMA BytesOne ==
  ASSUME NEW x, x.size \in Nat
  PROVE  IsFiniteSet(BytesOf({x})) /\ SizeOf({x}) = x.size
<1>1. BytesOf({x}) = {x} \X (1..x.size)
  BY DEF BytesOf
<1>2. IsFiniteSet({x}) /\ Cardinality({x}) = 1
  BY FS_Singleton
<1>3. IsFiniteSet(1..x.size) /\ Cardinality(1..x.size) = x.size
  <2>1. /\ IsFiniteSet(1..x.size)
        /\ Cardinality(1..x.size) = IF 1 > x.size THEN 0 ELSE x.size - 1 + 1
    BY FS_Interval
  <2> QED
    BY <2>1
<1> DEFINE S == {x}
           T == 1..x.size
<1>4. IsFiniteSet(S) /\ IsFiniteSet(T) /\ Cardinality(S) = 1 /\ Cardinality(T) = x.size
  BY <1>2, <1>3
<1>5. BytesOf(S) = S \X T
  BY <1>1
<1> HIDE DEF S, T
<1>6. IsFiniteSet(S \X T) /\ Cardinality(S \X T) = 1 * x.size
  BY <1>4, FS_Product
<1>7. IsFiniteSet(BytesOf(S)) /\ SizeOf(S) = x.size
  BY <1>5, <1>6 DEF SizeOf
<1> QED
  BY <1>7 DEF S

LEMMA BytesNone ==
  IsFiniteSet(BytesOf({})) /\ SizeOf({}) = 0
<1>1. BytesOf({}) = {}
  BY BytesIs
<1> QED
  BY <1>1, FS_EmptySet DEF SizeOf

\* A new block adds its size.
LEMMA BytesAdd ==
  ASSUME NEW B, IsFiniteSet(BytesOf(B)), NEW x, x \notin B, x.size \in Nat
  PROVE  /\ IsFiniteSet(BytesOf(B \cup {x}))
         /\ SizeOf(B \cup {x}) = SizeOf(B) + x.size
<1> DEFINE C == B \cup {x}
<1>1. BytesOf(C) = BytesOf(B) \cup BytesOf({x})
  BY BytesIs
<1>2. IsFiniteSet(BytesOf(C))
  <2>1. IsFiniteSet(BytesOf({x}))
    BY BytesOne
  <2> QED
    BY <1>1, <2>1, FS_Union
<1>3. B \in SUBSET C /\ C \ B = {x}
  OBVIOUS
<1> HIDE DEF C
<1>4. SizeOf(C) = SizeOf(B) + SizeOf(C \ B)
  BY <1>2, <1>3, BytesSplit
<1> QED
  BY <1>2, <1>3, <1>4, BytesOne DEF C

-----------------------------------------------------------------------------
(* The steps of which the operations are made.                             *)

\* A block is malloc'd.
LEMMA HoldsMalloc ==
  ASSUME NEW ps \in Int, NEW pl, NEW B, Holds(ps, pl, B), NEW sz \in Nat \ {0}
  PROVE  Holds(ps, plain_old_malloc(pl, sz),
               B \cup {[page |-> 0, off |-> Len(pl.allocd) + 1, size |-> sz]})
<1> DEFINE n == Len(pl.allocd)
           x == [page |-> 0, off |-> n + 1, size |-> sz]
           C == B \cup {x}
           t == plain_old_malloc(pl, sz)
<1>1. /\ pl \in PoolRec /\ pl.pages \in Seq(PageRec) /\ pl.allocd \in Seq(Nat)
      /\ pl.space \in SpaceRec /\ n \in Nat
  BY DEF Holds, PoolRec
<1>2. /\ t \in PoolRec /\ t.pages = pl.pages /\ t.allocd = Append(pl.allocd, sz)
      /\ t.space.free = pl.space.free /\ t.space.used = pl.space.used
      /\ t.space.wasted = pl.space.wasted /\ t.space.reserved = pl.space.reserved
      /\ t.space.allocd = pl.space.allocd + sz
  <2> DEFINE u == [pl.space EXCEPT !.allocd = pl.space.allocd + sz]
             v == Append(pl.allocd, sz)
  <2>1. t = [pl EXCEPT !.allocd = v, !.space = u]
    BY <1>1 DEF plain_old_malloc, PoolRec
  <2>2. pl.space.allocd + sz \in Int /\ v \in Seq(Nat)
    BY <1>1 DEF SpaceRec
  <2>3. u \in SpaceRec
    BY <1>1, <2>2 DEF SpaceRec
  <2>4. /\ u.free = pl.space.free /\ u.used = pl.space.used
        /\ u.wasted = pl.space.wasted /\ u.reserved = pl.space.reserved
        /\ u.allocd = pl.space.allocd + sz
    BY <1>1 DEF SpaceRec
  <2> HIDE DEF u, v
  <2>5. t \in PoolRec /\ t.pages = pl.pages /\ t.allocd = v /\ t.space = u
    BY <1>1, <2>1, <2>2, <2>3 DEF PoolRec
  <2> QED
    BY <2>4, <2>5 DEF v
<1>3. /\ x \in Block /\ x.page = 0 /\ x.off = n + 1 /\ x.size = sz
  BY <1>1 DEF Block
<1> HIDE DEF t, x
<1>4. /\ Len(t.allocd) = n + 1 /\ t.allocd[n + 1] = sz
      /\ \A i \in 1..n : t.allocd[i] = pl.allocd[i]
      /\ \A i \in 1..(n + 1) : i = n + 1 \/ i \in 1..n
  BY <1>1, <1>2
<1>5. x \notin B
  BY <1>1, <1>3 DEF Holds, Lie
<1>6. Lie(t, C)
  <2> HIDE DEF n
  <2>1. C \subseteq Block
    BY <1>3 DEF Holds, Lie
  <2>2. \A b \in C : b.page = 0 => b.off \in 1..Len(t.allocd) /\ t.allocd[b.off] = b.size
    <3>1. \A b \in B : b.page = 0 => b.off \in 1..n /\ pl.allocd[b.off] = b.size
      BY DEF Holds, Lie, n
    <3>2. n + 1 \in 1..(n + 1) /\ \A i \in 1..n : i \in 1..(n + 1)
      BY <1>1
    <3> QED
      BY <1>3, <1>4, <3>1, <3>2
  <2>3. \A i \in 1..Len(t.allocd) : [page |-> 0, off |-> i, size |-> t.allocd[i]] \in C
    <3>1. \A i \in 1..n : [page |-> 0, off |-> i, size |-> pl.allocd[i]] \in B
      BY DEF Holds, Lie, n
    <3>2. [page |-> 0, off |-> n + 1, size |-> t.allocd[n + 1]] = x
      BY <1>4 DEF x
    <3> QED
      BY <1>4, <3>1, <3>2
  <2>4. \A b \in C : b.page # 0 => b \in B
    BY <1>3
  <2> QED
    BY <1>2, <2>1, <2>2, <2>3, <2>4 DEF Holds, Lie
<1>7. Count(ps, t, C)
  <2>1. \A i \in 1..Len(pl.pages) : InPage(C, i) = InPage(B, i)
    BY <1>1, <1>3 DEF InPage
  <2>2. InPages(C) = InPages(B) /\ NotInPage(C) = NotInPage(B) \cup {x}
    BY <1>3 DEF InPages, NotInPage
  <2>3. NotInPage(B) \in SUBSET B /\ x \notin NotInPage(B)
    BY <1>5 DEF NotInPage
  <2>4. IsFiniteSet(BytesOf(B))
    BY DEF Holds, Count
  <2>5. IsFiniteSet(BytesOf(C))
    BY <1>3, <1>5, <2>4, BytesAdd
  <2>6. SizeOf(NotInPage(C)) = SizeOf(NotInPage(B)) + sz
    BY <1>3, <2>2, <2>3, <2>4, BytesAdd, BytesSplit
  <2> HIDE DEF C
  <2> QED
    BY <1>2, <2>1, <2>2, <2>5, <2>6 DEF Holds, Count
<1> QED
  BY <1>2, <1>6, <1>7 DEF Holds, t, x

\* The last malloc'd block is freed.
LEMMA HoldsFreeLast ==
  ASSUME NEW ps \in Int, NEW pl, NEW B, Holds(ps, pl, B), Len(pl.allocd) > 0
  PROVE  LET t == plain_old_free_last(pl)
             n == Len(pl.allocd)
         IN  /\ Holds(ps, t, Low(B, n - 1))
             /\ t.pages = pl.pages /\ Len(t.allocd) = n - 1
<1> DEFINE n == Len(pl.allocd)
           C == {b \in B : b.page = 0 => b.off <= n - 1}
           t == plain_old_free_last(pl)
           sz == pl.allocd[n]
           x == [page |-> 0, off |-> n, size |-> sz]
           v == SubSeq(pl.allocd, 1, n - 1)
<1>1. /\ pl \in PoolRec /\ pl.pages \in Seq(PageRec) /\ pl.allocd \in Seq(Nat)
      /\ pl.space \in SpaceRec /\ n \in Nat \ {0} /\ sz \in Nat
  BY DEF Holds, PoolRec
<1>2. v \in Seq(Nat) /\ Len(v) = n - 1 /\ \A i \in 1..(n - 1) : v[i] = pl.allocd[i]
  <2> DEFINE a == pl.allocd
  <2>1. a \in Seq(Nat) /\ Len(a) = n /\ n \in Nat \ {0}
    BY <1>1
  <2> HIDE DEF a, n
  <2> QED
    BY <2>1 DEF a
<1>3. /\ t \in PoolRec /\ t.pages = pl.pages /\ t.allocd = v
      /\ t.space.free = pl.space.free /\ t.space.used = pl.space.used
      /\ t.space.wasted = pl.space.wasted /\ t.space.reserved = pl.space.reserved
      /\ t.space.allocd = pl.space.allocd - sz
  <2> DEFINE u == [pl.space EXCEPT !.allocd = pl.space.allocd - sz]
  <2>1. t = [pl EXCEPT !.allocd = v, !.space = u]
    BY <1>1 DEF plain_old_free_last, PoolRec
  <2>2. pl.space.allocd - sz \in Int
    <3>1. pl.space.allocd \in Int
      BY <1>1 DEF SpaceRec
    <3> HIDE DEF sz
    <3> QED
      BY <1>1, <3>1
  <2> HIDE DEF sz
  <2>3. u \in SpaceRec
    BY <1>1, <2>2 DEF SpaceRec
  <2>4. /\ u.free = pl.space.free /\ u.used = pl.space.used
        /\ u.wasted = pl.space.wasted /\ u.reserved = pl.space.reserved
        /\ u.allocd = pl.space.allocd - sz
    BY <1>1 DEF SpaceRec
  <2> HIDE DEF u, v
  <2>5. t \in PoolRec /\ t.pages = pl.pages /\ t.allocd = v /\ t.space = u
    BY <1>1, <1>2, <2>1, <2>3 DEF PoolRec
  <2> QED
    BY <2>4, <2>5
<1> HIDE DEF t, v
<1>4. x \in B /\ x.page = 0 /\ x.off = n /\ x.size = sz
  <2>1. n \in 1..n
    BY <1>1
  <2> QED
    BY <2>1 DEF Holds, Lie
<1> HIDE DEF x
<1>5. \A b \in B : b.page = 0 => b.off \in 1..n /\ pl.allocd[b.off] = b.size
  BY DEF Holds, Lie
<1>6. B \subseteq Block
  BY DEF Holds, Lie
<1>7. B \ C = {x} /\ C \in SUBSET B
  <2>1. x \notin C
    BY <1>1, <1>4
  <2>2. ASSUME NEW b \in B \ C
        PROVE  b = x
    <3>1. b.page = 0 /\ b.off = n /\ b.size = sz /\ b \in Block
      BY <1>1, <1>5, <1>6
    <3>2. b = [page |-> b.page, off |-> b.off, size |-> b.size]
      BY <3>1 DEF Block
    <3> QED
      BY <3>1, <3>2 DEF x
  <2> HIDE DEF C
  <2>3. C \in SUBSET B
    BY DEF C
  <2> QED
    BY <1>4, <2>1, <2>2, <2>3
<1>8. Lie(t, C)
  <2>1. \A b \in C : b.page = 0 => b.off \in 1..(n - 1) /\ v[b.off] = b.size
    <3>1. \A b \in C : b \in B /\ (b.page = 0 => b.off <= n - 1)
      OBVIOUS
    <3> HIDE DEF C
    <3>2. ASSUME NEW b \in C, b.page = 0
          PROVE  b.off \in 1..(n - 1) /\ v[b.off] = b.size
      <4>1. b.off \in 1..n /\ b.off <= n - 1 /\ pl.allocd[b.off] = b.size
        BY <1>5, <3>1, <3>2
      <4>2. b.off \in 1..(n - 1)
        BY <1>1, <4>1
      <4> QED
        BY <1>2, <4>1, <4>2
    <3> QED
      BY <3>2
  <2>2. \A i \in 1..(n - 1) : [page |-> 0, off |-> i, size |-> v[i]] \in C
    <3> SUFFICES ASSUME NEW i \in 1..(n - 1)
                 PROVE  [page |-> 0, off |-> i, size |-> v[i]] \in C
      OBVIOUS
    <3>1. i \in 1..n /\ i <= n - 1 /\ v[i] = pl.allocd[i]
      <4>1. v[i] = pl.allocd[i]
        BY <1>2
      <4> HIDE DEF n
      <4> QED
        BY <1>1, <4>1
    <3>2. [page |-> 0, off |-> i, size |-> pl.allocd[i]] \in B
      BY <3>1 DEF Holds, Lie
    <3> QED
      BY <3>1, <3>2
  <2> HIDE DEF C
  <2> QED
    BY <1>2, <1>3, <1>7, <2>1, <2>2 DEF Holds, Lie
<1>9. Count(ps, t, C)
  <2>1. \A i \in 1..Len(pl.pages) : InPage(C, i) = InPage(B, i)
    BY <1>1, <1>4, <1>7 DEF InPage
  <2>2. /\ InPages(C) = InPages(B) /\ NotInPage(B) \ NotInPage(C) = {x}
        /\ NotInPage(C) \in SUBSET NotInPage(B)
    BY <1>4, <1>7 DEF InPages, NotInPage
  <2>3. NotInPage(B) \in SUBSET B
    BY DEF NotInPage
  <2> HIDE DEF C
  <2>4. IsFiniteSet(BytesOf(B))
    BY DEF Holds, Count
  <2>5. IsFiniteSet(BytesOf(C)) /\ IsFiniteSet(BytesOf(NotInPage(B)))
    BY <1>7, <2>3, <2>4, BytesSplit
  <2>6. SizeOf(NotInPage(B)) = SizeOf(NotInPage(C)) + sz /\ SizeOf(NotInPage(C)) \in Nat
    <3>1. /\ SizeOf(NotInPage(C)) \in Nat
          /\ SizeOf(NotInPage(B)) =
               SizeOf(NotInPage(C)) + SizeOf(NotInPage(B) \ NotInPage(C))
      BY <2>2, <2>5, BytesSplit
    <3>2. SizeOf({x}) = sz
      BY <1>1, <1>4, BytesOne
    <3> QED
      BY <2>2, <3>1, <3>2
  <2>7. SizeOf(NotInPage(C)) = pl.space.allocd - sz
    BY <1>1, <2>6 DEF Holds, Count
  <2> QED
    BY <1>3, <2>1, <2>2, <2>5, <2>7 DEF Holds, Count
<1>10. C = Low(B, n - 1)
  BY DEF Low
<1> HIDE DEF C
<1>11. Holds(ps, t, C)
  BY <1>3, <1>8, <1>9 DEF Holds
<1> QED
  BY <1>2, <1>3, <1>10, <1>11 DEF t

\* A page is added.
LEMMA HoldsAddPage ==
  ASSUME NEW ps \in Int, PageHeader <= ps, NEW pl, NEW B, Holds(ps, pl, B)
  PROVE  LET t == add_page(pl, ps)
         IN  /\ Holds(ps, t, B) /\ Len(t.pages) = Len(pl.pages) + 1
             /\ t.pages[Len(pl.pages) + 1] = NewPage /\ t.allocd = pl.allocd
             /\ \A i \in 1..Len(pl.pages) : t.pages[i] = pl.pages[i]
<1> DEFINE n == Len(pl.pages)
           t == add_page(pl, ps)
           waste == IF n = 0 THEN 0 ELSE ps - pl.pages[n].cur
           v == Append(pl.pages, NewPage)
           s == pl.space
<1>0. PageHeader \in Nat
  BY PoolAssumption
<1>1. /\ pl \in PoolRec /\ pl.pages \in Seq(PageRec) /\ pl.allocd \in Seq(Nat)
      /\ s \in SpaceRec /\ n \in Nat /\ PageHeader \in Nat
  BY PoolAssumption DEF Holds, PoolRec
<1>2. /\ s.free \in Int /\ s.used \in Int /\ s.wasted \in Int /\ s.reserved \in Int
      /\ s.allocd \in Int
  BY <1>1 DEF SpaceRec
<1>3. /\ NewPage \in PageRec /\ NewPage.cur = PageHeader /\ NewPage.used = 0
      /\ NewPage.wasted = 0 /\ NewPage.reserved = PageHeader
  BY <1>1 DEF NewPage, PageRec
<1>4. waste \in Int
  <2>1. n # 0 => pl.pages[n] \in PageRec
    BY <1>1
  <2> HIDE DEF n
  <2> QED
    BY <2>1 DEF PageRec
<1>5. waste = s.free
  <2>1. n = 0 <=> pl.pages = <<>>
    BY <1>1
  <2> QED
    BY <2>1 DEF Holds, Count
<1>6. /\ t \in PoolRec /\ t.pages = v /\ t.allocd = pl.allocd
      /\ t.space.free = s.free - waste + ps - PageHeader
      /\ t.space.wasted = s.wasted + waste
      /\ t.space.reserved = s.reserved + PageHeader
      /\ t.space.used = s.used /\ t.space.allocd = s.allocd
  <2> DEFINE u == [s EXCEPT !.free = s.free - waste + ps - PageHeader,
                            !.wasted = s.wasted + waste,
                            !.reserved = s.reserved + PageHeader]
  <2>1. t = [pl EXCEPT !.pages = v, !.space = u]
    BY <1>1 DEF add_page, Top, PoolRec, SpaceRec
  <2> HIDE DEF waste
  <2>2. /\ s.free - waste + ps - PageHeader \in Int /\ s.wasted + waste \in Int
        /\ s.reserved + PageHeader \in Int
    BY <1>0, <1>2, <1>4
  <2>3. u \in SpaceRec
    BY <1>1, <2>2 DEF SpaceRec
  <2>4. /\ u.free = s.free - waste + ps - PageHeader /\ u.used = s.used
        /\ u.wasted = s.wasted + waste /\ u.reserved = s.reserved + PageHeader
        /\ u.allocd = s.allocd
    BY <1>1 DEF SpaceRec
  <2>5. v \in Seq(PageRec)
    BY <1>1, <1>3
  <2> HIDE DEF u, v
  <2>6. t \in PoolRec /\ t.pages = v /\ t.allocd = pl.allocd /\ t.space = u
    BY <1>1, <2>1, <2>3, <2>5 DEF PoolRec
  <2> QED
    BY <2>4, <2>6
<1> HIDE DEF t, waste
<1>7. /\ Len(v) = n + 1 /\ v[n + 1] = NewPage /\ \A i \in 1..n : v[i] = pl.pages[i]
  BY <1>1, <1>3
<1> HIDE DEF v
<1>8. \A b \in B : b.page \in Nat /\ (b.page # 0 => b.page \in 1..n)
  BY DEF Holds, Lie, Block
<1>9. Lie(t, B)
  <2>1. \A i \in 1..n : i \in 1..(n + 1)
    BY <1>1
  <2> QED
    BY <1>6, <1>7, <2>1 DEF Holds, Lie
<1>10. Count(ps, t, B)
  <2>1. InPage(B, n + 1) = {}
    <3>1. n + 1 # 0 /\ n + 1 \notin 1..n
      BY <1>1
    <3> QED
      BY <1>8, <3>1 DEF InPage
  <2>2. PageOK(ps, NewPage) /\ NewPage.used = SizeOf(InPage(B, n + 1))
    <3>1. NewPage.used = SizeOf(InPage(B, n + 1))
      BY <1>3, <2>1, BytesNone
    <3>2. PageOK(ps, NewPage)
      BY <1>0, <1>3 DEF PageOK
    <3> QED
      BY <3>1, <3>2
  <2>3. \A i \in 1..(n + 1) : i = n + 1 \/ i \in 1..n
    BY <1>1
  <2>4. \A i \in 1..(n + 1) : PageOK(ps, v[i]) /\ v[i].used = SizeOf(InPage(B, i))
    <3>1. \A i \in 1..n : PageOK(ps, pl.pages[i]) /\ pl.pages[i].used = SizeOf(InPage(B, i))
      BY DEF Holds, Count
    <3> QED
      BY <1>7, <2>2, <2>3, <3>1
  <2>5. t.space.free = IF t.pages = <<>> THEN 0 ELSE ps - t.pages[Len(t.pages)].cur
    <3>1. t.space.free = ps - PageHeader
      BY <1>1, <1>2, <1>5, <1>6
    <3>2. t.pages # <<>>
      BY <1>1, <1>6, <1>7
    <3> QED
      BY <1>3, <1>6, <1>7, <3>1, <3>2
  <2>6. t.space.used + t.space.free + t.space.wasted + t.space.reserved = ps * (n + 1)
    <3>1. s.used + s.free + s.wasted + s.reserved = ps * n
      BY DEF Holds, Count
    <3>2. ps * (n + 1) = ps * n + ps
      BY <1>1
    <3>3. ps * n \in Int
      BY <1>1
    <3> DEFINE m == ps * n
    <3> HIDE DEF m
    <3>4. s.used + s.free + s.wasted + s.reserved = m /\ m \in Int
      BY <3>1, <3>3 DEF m
    <3>5. t.space.used + t.space.free + t.space.wasted + t.space.reserved = m + ps
      <4>1. s.used + (s.free - waste + ps - PageHeader) + (s.wasted + waste)
              + (s.reserved + PageHeader) = m + ps
        BY <1>0, <1>2, <1>4, <3>4
      <4> QED
        BY <1>6, <4>1
    <3> QED
      BY <3>2, <3>5 DEF m
  <2> QED
    BY <1>6, <1>7, <2>4, <2>5, <2>6 DEF Holds, Count
<1> QED
  BY <1>6, <1>7, <1>9, <1>10 DEF Holds, t

\* A remainder is less than what is divided by.
LEMMA PadIs ==
  ASSUME NEW cur \in Nat, NEW align \in BOOLEAN
  PROVE  Pad(cur, align) \in Nat /\ (cur = PageHeader => Pad(cur, align) = 0)
<1>1. PoolAlign \in Nat \ {0} /\ PageHeader % PoolAlign = 0
  BY PoolAssumption
<1>2. cur % PoolAlign \in 0..(PoolAlign - 1)
  BY <1>1
<1> DEFINE r == cur % PoolAlign
<1>3. r \in 0..(PoolAlign - 1)
  BY <1>2
<1>4. (PoolAlign - r) % PoolAlign \in Nat
  <2> HIDE DEF r
  <2> QED
    BY <1>1, <1>3
<1>5. PoolAlign % PoolAlign = 0
  BY <1>1
<1> QED
  BY <1>1, <1>4, <1>5 DEF Pad

\* A block is cut from the last page.
LEMMA HoldsCut ==
  ASSUME NEW pl, NEW B, pagesize \in Int, Holds(pagesize, pl, B), NEW sz \in Nat,
         NEW align \in BOOLEAN, Fits(pl, sz, align), sz > 0
  PROVE  LET t == palloc_in_current_page(pl, sz, align)
             n == Len(pl.pages)
             x == [page |-> n, off |-> t.pages[n].cur - sz, size |-> sz]
         IN  /\ Holds(pagesize, t, B \cup {x})
             /\ n # 0 /\ Len(t.pages) = n /\ t.allocd = pl.allocd
             /\ \A i \in 1..n : pl.pages[i].cur <= t.pages[i].cur
             /\ x.off >= pl.pages[n].cur /\ t.pages # pl.pages
<1> DEFINE n == Len(pl.pages)
           pg == pl.pages[n]
           pad == Pad(pg.cur, align)
           qg == [pg EXCEPT !.cur = pg.cur + pad + sz, !.used = pg.used + sz,
                            !.wasted = pg.wasted + pad]
           t == palloc_in_current_page(pl, sz, align)
           v == [pl.pages EXCEPT ![n] = qg]
           s == pl.space
           x == [page |-> n, off |-> t.pages[n].cur - sz, size |-> sz]
           C == B \cup {x}
<1>0. PageHeader \in Nat
  BY PoolAssumption
<1>1. /\ pl \in PoolRec /\ pl.pages \in Seq(PageRec) /\ pl.allocd \in Seq(Nat)
      /\ s \in SpaceRec /\ n \in Nat /\ n > 0
  BY DEF Holds, PoolRec, Fits, Top
<1>2. /\ s.free \in Int /\ s.used \in Int /\ s.wasted \in Int /\ s.reserved \in Int
      /\ s.allocd \in Int
  BY <1>1 DEF SpaceRec
<1>3. n \in 1..n /\ pg \in PageRec /\ DOMAIN pl.pages = 1..n
  BY <1>1
<1>4. /\ pg.cur \in Nat /\ pg.used \in Int /\ pg.wasted \in Int /\ pg.reserved \in Int
      /\ PageOK(pagesize, pg) /\ pg.used = SizeOf(InPage(B, n))
  BY <1>3 DEF PageRec, Holds, Count
<1>5. pad \in Nat
  BY <1>4, PadIs
<1>6. pagesize - pg.cur >= pad + sz
  BY DEF Fits, Top, FreeIn
<1>7. /\ qg.cur = pg.cur + pad + sz /\ qg.used = pg.used + sz
      /\ qg.wasted = pg.wasted + pad /\ qg.reserved = pg.reserved
      /\ qg \in PageRec
  <2> HIDE DEF pg, pad
  <2>1. pg.cur + pad + sz \in Nat /\ pg.used + sz \in Int /\ pg.wasted + pad \in Int
    <3>1. pg.cur + pad + sz \in Nat
      BY <1>4, <1>5
    <3>2. pg.used + sz \in Int
      BY <1>4
    <3>3. pg.wasted + pad \in Int
      BY <1>4, <1>5
    <3> QED
      BY <3>1, <3>2, <3>3
  <2>2. pg \in [cur : Nat, used : Int, wasted : Int, reserved : Int]
    BY <1>3 DEF PageRec
  <2> QED
    BY <2>1, <2>2 DEF PageRec
<1>8. /\ t \in PoolRec /\ t.pages = v /\ t.allocd = pl.allocd
      /\ t.space.free = s.free - sz - pad /\ t.space.wasted = s.wasted + pad
      /\ t.space.used = s.used + sz /\ t.space.reserved = s.reserved
      /\ t.space.allocd = s.allocd
  <2> DEFINE u == [s EXCEPT !.used = s.used + sz, !.wasted = s.wasted + pad,
                            !.free = s.free - sz - pad]
  <2>1. t = [pl EXCEPT !.pages = v, !.space = u]
    BY <1>1 DEF palloc_in_current_page, Top, PoolRec, SpaceRec
  <2> HIDE DEF pad
  <2>2. /\ s.used + sz \in Int /\ s.wasted + pad \in Int /\ s.free - sz - pad \in Int
    BY <1>2, <1>5
  <2>3. u \in SpaceRec
    BY <1>1, <2>2 DEF SpaceRec
  <2>4. /\ u.free = s.free - sz - pad /\ u.used = s.used + sz
        /\ u.wasted = s.wasted + pad /\ u.reserved = s.reserved
        /\ u.allocd = s.allocd
    BY <1>1 DEF SpaceRec
  <2>6. v \in Seq(PageRec)
    <3> HIDE DEF qg
    <3> QED
      BY <1>1, <1>3, <1>7
  <2> HIDE DEF u, v
  <2>7. t \in PoolRec /\ t.pages = v /\ t.allocd = pl.allocd /\ t.space = u
    BY <1>1, <2>1, <2>3, <2>6 DEF PoolRec
  <2> QED
    BY <2>4, <2>7
<1> HIDE DEF t, qg, pad
<1>9. /\ Len(v) = n /\ v[n] = qg /\ \A i \in 1..n : i # n => v[i] = pl.pages[i]
  BY <1>1, <1>3
<1>10. qg.cur \in Nat /\ pg.cur <= qg.cur /\ qg.cur <= pagesize /\ pg.cur # qg.cur
       /\ qg.cur - sz >= pg.cur /\ qg.cur - sz \in Nat
  <2> DEFINE a == pg.cur
  <2>1. qg.cur = a + pad + sz /\ a \in Nat /\ pagesize - a >= pad + sz
    BY <1>4, <1>6, <1>7
  <2> HIDE DEF pg, a
  <2>2. /\ qg.cur \in Nat /\ a <= qg.cur /\ qg.cur <= pagesize /\ a # qg.cur
        /\ qg.cur - sz >= a /\ qg.cur - sz \in Nat
    BY <1>5, <2>1
  <2> QED
    BY <2>2 DEF a
<1> HIDE DEF v
<1>11. x \in Block /\ x.page = n /\ x.off = qg.cur - sz /\ x.size = sz
  BY <1>1, <1>8, <1>9, <1>10 DEF Block
<1>12. \A b \in B : b.page # 0 => /\ b \in Block /\ b.page \in 1..n
                                  /\ b.off >= PageHeader
                                  /\ b.off + b.size <= pl.pages[b.page].cur
  BY DEF Holds, Lie
<1> HIDE DEF x
<1>13. \A b \in B : b.page = n => b.off + b.size <= x.off /\ b.off \in Nat /\ b.size \in Nat
  <2> SUFFICES ASSUME NEW b \in B, b.page = n
               PROVE  b.off + b.size <= x.off /\ b.off \in Nat /\ b.size \in Nat
    OBVIOUS
  <2>1. b \in Block /\ b.off + b.size <= pg.cur
    BY <1>1, <1>12
  <2>2. b.off \in Nat /\ b.size \in Nat
    BY <2>1 DEF Block
  <2> HIDE DEF pg
  <2> QED
    BY <1>4, <1>10, <1>11, <2>1, <2>2
<1>14. x \notin B
  <2>1. ~(x.off + x.size <= x.off)
    BY <1>10, <1>11
  <2> QED
    BY <1>11, <1>13, <2>1
<1>15. \A i \in 1..n : pl.pages[i].cur <= v[i].cur
  <2> SUFFICES ASSUME NEW i \in 1..n
               PROVE  pl.pages[i].cur <= v[i].cur
    OBVIOUS
  <2>1. CASE i = n
    BY <1>9, <1>10, <2>1
  <2>2. CASE i # n
    <3>1. pl.pages[i] \in PageRec
      BY <1>1
    <3>2. pl.pages[i].cur \in Nat /\ v[i] = pl.pages[i]
      BY <1>9, <2>2, <3>1 DEF PageRec
    <3> QED
      BY <3>2
  <2> QED
    BY <2>1, <2>2
<1>16. Lie(t, C)
  <2>1. C \subseteq Block
    BY <1>11 DEF Holds, Lie
  <2>2. \A b \in C : b.page = 0 => b \in B
    BY <1>1, <1>11
  <2>3. \A b \in C : b.page # 0 => /\ b.page \in 1..n /\ b.off >= PageHeader
                                   /\ b.off + b.size <= v[b.page].cur
    <3>1. x.page \in 1..n /\ x.off >= PageHeader /\ x.off + x.size <= v[x.page].cur
      <4>1. pg.cur >= PageHeader
        BY <1>4 DEF PageOK
      <4> HIDE DEF pg
      <4>2. x.off >= PageHeader /\ x.off + x.size <= qg.cur
        BY <1>0, <1>4, <1>10, <1>11, <4>1
      <4> QED
        BY <1>3, <1>9, <1>11, <4>2
    <3>2. ASSUME NEW b \in B, b.page # 0
          PROVE  b.page \in 1..n /\ b.off >= PageHeader /\ b.off + b.size <= v[b.page].cur
      <4>1. /\ b.page \in 1..n /\ b.off >= PageHeader /\ b.off \in Nat /\ b.size \in Nat
            /\ b.off + b.size <= pl.pages[b.page].cur
            /\ pl.pages[b.page].cur <= v[b.page].cur
        BY <1>12, <1>15, <3>2 DEF Block
      <4>2. pl.pages[b.page] \in PageRec
        BY <1>1, <4>1
      <4>3. pl.pages[b.page].cur \in Nat
        BY <4>2 DEF PageRec
      <4>4. v[b.page].cur \in Nat
        BY <1>9, <1>10, <4>1, <4>3
      <4> QED
        BY <4>1, <4>3, <4>4
    <3> QED
      BY <3>1, <3>2
  <2>4. \A b, c \in C : b # c /\ b.page # 0 /\ c.page = b.page =>
          b.off + b.size <= c.off \/ c.off + c.size <= b.off
    <3>1. \A b, c \in B : b # c /\ b.page # 0 /\ c.page = b.page =>
            b.off + b.size <= c.off \/ c.off + c.size <= b.off
      BY DEF Holds, Lie
    <3> QED
      BY <1>11, <1>13, <3>1
  <2>5. \A i \in 1..Len(pl.allocd) : [page |-> 0, off |-> i, size |-> pl.allocd[i]] \in C
    BY DEF Holds, Lie
  <2>6. \A b \in C : b.page = 0 => /\ b.off \in 1..Len(pl.allocd)
                                   /\ pl.allocd[b.off] = b.size
    BY <2>2 DEF Holds, Lie
  <2> HIDE DEF C
  <2> QED
    BY <1>8, <1>9, <2>1, <2>3, <2>4, <2>5, <2>6 DEF Lie
<1>17. Count(pagesize, t, C)
  <2>1. IsFiniteSet(BytesOf(B))
    BY DEF Holds, Count
  <2>2. IsFiniteSet(BytesOf(C))
    BY <1>11, <1>14, <2>1, BytesAdd
  <2>3. /\ InPage(C, n) = InPage(B, n) \cup {x}
        /\ InPages(C) = InPages(B) \cup {x} /\ NotInPage(C) = NotInPage(B)
        /\ \A i \in 1..n : i # n => InPage(C, i) = InPage(B, i)
    BY <1>1, <1>11 DEF InPage, InPages, NotInPage
  <2>4. /\ InPage(B, n) \in SUBSET B /\ InPages(B) \in SUBSET B
        /\ x \notin InPage(B, n) /\ x \notin InPages(B)
    BY <1>14 DEF InPage, InPages
  <2>5. IsFiniteSet(BytesOf(InPage(B, n))) /\ IsFiniteSet(BytesOf(InPages(B)))
    BY <2>1, <2>4, BytesSplit
  <2>6. SizeOf(InPage(C, n)) = SizeOf(InPage(B, n)) + sz
    BY <1>11, <2>3, <2>4, <2>5, BytesAdd
  <2>7. SizeOf(InPages(C)) = SizeOf(InPages(B)) + sz
    BY <1>11, <2>3, <2>4, <2>5, BytesAdd
  <2> HIDE DEF C
  <2>8. PageOK(pagesize, qg) /\ qg.used = SizeOf(InPage(C, n))
    <3>1. /\ PageHeader <= pg.cur /\ pg.cur = pg.used + pg.wasted + pg.reserved
          /\ pg.reserved = PageHeader
      BY <1>4 DEF PageOK
    <3>2. PageHeader <= qg.cur /\ qg.cur = qg.used + qg.wasted + qg.reserved
      <4> HIDE DEF pg
      <4>1. qg.cur = (pg.used + sz) + (pg.wasted + pad) + pg.reserved
        BY <1>4, <1>5, <1>7, <3>1
      <4>2. PageHeader <= qg.cur
        BY <1>0, <1>4, <1>10, <3>1
      <4> QED
        BY <1>7, <4>1, <4>2
    <3> QED
      BY <1>4, <1>7, <1>10, <2>6, <3>1, <3>2 DEF PageOK
  <2>9. \A i \in 1..n : PageOK(pagesize, v[i]) /\ v[i].used = SizeOf(InPage(C, i))
    <3>1. \A i \in 1..n : /\ PageOK(pagesize, pl.pages[i])
                          /\ pl.pages[i].used = SizeOf(InPage(B, i))
      BY DEF Holds, Count
    <3> QED
      BY <1>9, <2>3, <2>8, <3>1
  <2>10. t.space.free = IF t.pages = <<>> THEN 0 ELSE pagesize - t.pages[Len(t.pages)].cur
    <3>1. pl.pages # <<>> /\ t.pages # <<>>
      BY <1>1, <1>8, <1>9
    <3>2. s.free = pagesize - pg.cur
      BY <3>1 DEF Holds, Count
    <3>3. s.free - sz - pad = pagesize - qg.cur
      <4> HIDE DEF pg
      <4> QED
        BY <1>2, <1>4, <1>5, <1>7, <3>2
    <3> QED
      BY <1>8, <1>9, <3>1, <3>3
  <2>11. t.space.used + t.space.free + t.space.wasted + t.space.reserved = pagesize * n
    <3>1. s.used + s.free + s.wasted + s.reserved = pagesize * n
      BY DEF Holds, Count
    <3>2. (s.used + sz) + (s.free - sz - pad) + (s.wasted + pad) + s.reserved
            = s.used + s.free + s.wasted + s.reserved
      BY <1>2, <1>5
    <3> QED
      BY <1>8, <3>1, <3>2
  <2>12. t.space.used = SizeOf(InPages(C)) /\ t.space.allocd = SizeOf(NotInPage(C))
    BY <1>8, <2>3, <2>7 DEF Holds, Count
  <2> QED
    BY <1>8, <1>9, <2>2, <2>9, <2>10, <2>11, <2>12 DEF Count
<1>18. v # pl.pages
  BY <1>9, <1>10
<1>19. Holds(pagesize, t, C)
  BY <1>8, <1>16, <1>17 DEF Holds
<1> QED
  BY <1>1, <1>8, <1>9, <1>10, <1>11, <1>15, <1>18, <1>19 DEF t, x

\* The last page is removed.
LEMMA HoldsRemove ==
  ASSUME NEW pl, NEW B, pagesize \in Int, Holds(pagesize, pl, B), Len(pl.pages) > 0
  PROVE  LET t == remove_last_page(pl)
             n == Len(pl.pages)
         IN  /\ Holds(pagesize, t, Under(B, n - 1))
             /\ Len(t.pages) = n - 1 /\ t.allocd = pl.allocd
             /\ \A i \in 1..(n - 1) : t.pages[i] = pl.pages[i]
<1> DEFINE n == Len(pl.pages)
           C == {b \in B : b.page < n}
           t == remove_last_page(pl)
           pg == pl.pages[n]
           prev == IF n > 1 THEN pagesize - pl.pages[n - 1].cur ELSE 0
           v == SubSeq(pl.pages, 1, n - 1)
           s == pl.space
<1>1. /\ pl \in PoolRec /\ pl.pages \in Seq(PageRec) /\ pl.allocd \in Seq(Nat)
      /\ s \in SpaceRec /\ n \in Nat /\ n > 0
  BY DEF Holds, PoolRec
<1>2. /\ s.free \in Int /\ s.used \in Int /\ s.wasted \in Int /\ s.reserved \in Int
      /\ s.allocd \in Int
  BY <1>1 DEF SpaceRec
<1>3. n \in 1..n /\ pg \in PageRec /\ (n > 1 => pl.pages[n - 1] \in PageRec)
  BY <1>1
<1>4. /\ pg.cur \in Int /\ pg.used \in Int /\ pg.wasted \in Int /\ pg.reserved \in Int
  BY <1>3 DEF PageRec
<1>14. pg.cur = pg.used + pg.wasted + pg.reserved
  BY <1>3 DEF PageOK, Holds, Count
<1>15. pg.used = SizeOf(InPage(B, n))
  BY <1>3 DEF Holds, Count
<1>5. prev \in Int
  <2> HIDE DEF n
  <2> QED
    BY <1>3 DEF PageRec
<1>6. /\ v \in Seq(PageRec) /\ Len(v) = n - 1
      /\ \A i \in 1..(n - 1) : v[i] = pl.pages[i]
  BY <1>1
<1>7. /\ t \in PoolRec /\ t.pages = v /\ t.allocd = pl.allocd
      /\ t.space.free = s.free - (pagesize - pg.cur) + prev
      /\ t.space.used = s.used - pg.used
      /\ t.space.wasted = s.wasted - pg.wasted - prev
      /\ t.space.reserved = s.reserved - pg.reserved
      /\ t.space.allocd = s.allocd
  <2> DEFINE u == [s EXCEPT !.free = s.free - (pagesize - pg.cur) + prev,
                            !.used = s.used - pg.used,
                            !.wasted = s.wasted - pg.wasted - prev,
                            !.reserved = s.reserved - pg.reserved]
  <2>1. t = [pl EXCEPT !.pages = v, !.space = u]
    BY <1>1 DEF remove_last_page, Top, FreeIn, PoolRec, SpaceRec
  <2> HIDE DEF prev, pg
  <2>2. /\ s.free - (pagesize - pg.cur) + prev \in Int /\ s.used - pg.used \in Int
        /\ s.wasted - pg.wasted - prev \in Int /\ s.reserved - pg.reserved \in Int
    <3>1. pagesize - pg.cur \in Int
      BY <1>4
    <3>2. s.free - (pagesize - pg.cur) \in Int
      BY <1>2, <3>1
    <3>3. s.free - (pagesize - pg.cur) + prev \in Int
      BY <1>5, <3>2
    <3>4. s.used - pg.used \in Int
      BY <1>2, <1>4
    <3>5. s.reserved - pg.reserved \in Int
      BY <1>2, <1>4
    <3>6. s.wasted - pg.wasted \in Int
      BY <1>2, <1>4
    <3>7. s.wasted - pg.wasted - prev \in Int
      BY <1>5, <3>6
    <3> QED
      BY <3>3, <3>4, <3>5, <3>7
  <2>3. u \in SpaceRec
    BY <1>1, <2>2 DEF SpaceRec
  <2>4. /\ u.free = s.free - (pagesize - pg.cur) + prev /\ u.used = s.used - pg.used
        /\ u.wasted = s.wasted - pg.wasted - prev
        /\ u.reserved = s.reserved - pg.reserved /\ u.allocd = s.allocd
    BY <1>1 DEF SpaceRec
  <2> HIDE DEF u, v
  <2>5. t \in PoolRec /\ t.pages = v /\ t.allocd = pl.allocd /\ t.space = u
    BY <1>1, <1>6, <2>1, <2>3 DEF PoolRec
  <2> QED
    BY <2>4, <2>5
<1> HIDE DEF t, v
<1>8. /\ B \subseteq Block /\ \A b \in B : b.page \in Nat
      /\ \A b \in B : b.page # 0 => /\ b.page \in 1..n /\ b.off >= PageHeader
                                    /\ b.off + b.size <= pl.pages[b.page].cur
  BY DEF Holds, Lie, Block
<1>9. C \in SUBSET B /\ \A b \in B : b \in C <=> b.page < n
  OBVIOUS
<1> HIDE DEF C
<1>10. \A b \in C : b.page # 0 => b.page \in 1..(n - 1)
  BY <1>1, <1>8, <1>9
<1>11. \A b \in B : b.page = 0 => b \in C
  BY <1>1, <1>9
<1>12. Lie(t, C)
  <2>1. \A b \in C : b.page # 0 => /\ b.page \in 1..(n - 1) /\ b.off >= PageHeader
                                   /\ b.off + b.size <= v[b.page].cur
    BY <1>6, <1>8, <1>9, <1>10
  <2>2. \A i \in 1..Len(pl.allocd) : [page |-> 0, off |-> i, size |-> pl.allocd[i]] \in C
    <3> SUFFICES ASSUME NEW i \in 1..Len(pl.allocd)
                 PROVE  [page |-> 0, off |-> i, size |-> pl.allocd[i]] \in C
      OBVIOUS
    <3> DEFINE b == [page |-> 0, off |-> i, size |-> pl.allocd[i]]
    <3>1. b \in B /\ b.page = 0
      BY DEF Holds, Lie
    <3> HIDE DEF b
    <3>2. b \in C
      BY <1>11, <3>1
    <3> QED
      BY <3>2 DEF b
  <2> QED
    BY <1>6, <1>7, <1>9, <2>1, <2>2 DEF Holds, Lie
<1>13. Count(pagesize, t, C)
  <2>1. IsFiniteSet(BytesOf(B))
    BY DEF Holds, Count
  <2>2. IsFiniteSet(BytesOf(C))
    BY <1>9, <2>1, BytesSplit
  <2>3. /\ \A i \in 1..(n - 1) : InPage(C, i) = InPage(B, i)
        /\ NotInPage(C) = NotInPage(B)
        /\ InPages(C) \in SUBSET InPages(B)
        /\ InPages(B) \ InPages(C) = InPage(B, n)
    <3>1. \A i \in 1..(n - 1) : i < n /\ i \in Nat
      BY <1>1
    <3>2. \A i \in 1..(n - 1) : InPage(C, i) = InPage(B, i)
      BY <1>9, <3>1 DEF InPage
    <3>3. NotInPage(C) = NotInPage(B)
      BY <1>9, <1>11 DEF NotInPage
    <3>4. \A b \in B : b.page # 0 => (b \notin C <=> b.page = n)
      <4> HIDE DEF n
      <4> QED
        BY <1>1, <1>8, <1>9
    <3>5. InPages(C) \in SUBSET InPages(B) /\ InPages(B) \ InPages(C) = InPage(B, n)
      <4> HIDE DEF n
      <4> QED
        BY <1>1, <1>9, <3>4 DEF InPages, InPage
    <3> QED
      BY <3>2, <3>3, <3>5
  <2>4. InPages(B) \in SUBSET B
    BY DEF InPages
  <2>5. IsFiniteSet(BytesOf(InPages(B)))
    BY <2>1, <2>4, BytesSplit
  <2>6. /\ SizeOf(InPages(C)) \in Nat
        /\ SizeOf(InPages(B)) = SizeOf(InPages(C)) + SizeOf(InPages(B) \ InPages(C))
    BY <2>3, <2>5, BytesSplit
  <2>7. t.space.used = SizeOf(InPages(C)) /\ t.space.allocd = SizeOf(NotInPage(C))
    <3>1. s.used = SizeOf(InPages(B)) /\ s.allocd = SizeOf(NotInPage(B))
      BY DEF Holds, Count
    <3>2. s.used = SizeOf(InPages(C)) + pg.used
      BY <1>15, <2>3, <2>6, <3>1
    <3> HIDE DEF pg
    <3>3. s.used - pg.used = SizeOf(InPages(C))
      BY <1>4, <2>6, <3>2
    <3> QED
      BY <1>7, <2>3, <3>1, <3>3
  <2>8. \A i \in 1..(n - 1) : PageOK(pagesize, v[i]) /\ v[i].used = SizeOf(InPage(C, i))
    <3>1. \A i \in 1..(n - 1) : i \in 1..n
      BY <1>1
    <3> QED
      BY <1>6, <2>3, <3>1 DEF Holds, Count
  <2>9. s.free = pagesize - pg.cur
    <3>1. pl.pages # <<>>
      BY <1>1
    <3> QED
      BY <3>1 DEF Holds, Count
  <2>10. t.space.free = IF t.pages = <<>> THEN 0 ELSE pagesize - t.pages[Len(t.pages)].cur
    <3>1. t.space.free = prev
      <4> HIDE DEF pg, prev
      <4> QED
        BY <1>2, <1>4, <1>5, <1>7, <2>9
    <3>2. CASE n > 1
      <4>1. n - 1 \in 1..(n - 1)
        BY <1>1, <3>2
      <4>2. t.pages # <<>> /\ t.pages[Len(t.pages)] = pl.pages[n - 1]
        BY <1>6, <1>7, <4>1
      <4> QED
        BY <3>1, <3>2, <4>2
    <3>3. CASE ~(n > 1)
      <4>1. Len(v) = 0 /\ prev = 0
        <5>1. n = 1 /\ prev = 0
          <6> HIDE DEF n
          <6> QED
            BY <1>1, <3>3
        <5> QED
          BY <1>6, <5>1
      <4>2. t.pages = <<>>
        BY <1>6, <1>7, <4>1
      <4> QED
        BY <3>1, <4>1, <4>2
    <3> QED
      BY <3>2, <3>3
  <2>11. t.space.used + t.space.free + t.space.wasted + t.space.reserved
           = pagesize * (n - 1)
    <3>1. s.used + s.free + s.wasted + s.reserved = pagesize * n
      BY DEF Holds, Count
    <3>2. pagesize * (n - 1) = pagesize * n - pagesize /\ pagesize * n \in Int
      BY <1>1
    <3> DEFINE m == pagesize * n
    <3>3. s.used + s.free + s.wasted + s.reserved = m /\ m \in Int
      BY <3>1, <3>2
    <3> HIDE DEF m, pg, prev
    <3>4. (s.used - pg.used) + (s.free - (pagesize - pg.cur) + prev)
            + (s.wasted - pg.wasted - prev) + (s.reserved - pg.reserved) = m - pagesize
      <4> DEFINE pu == pg.used  pw == pg.wasted  pr == pg.reserved
                 a == s.used    b == s.free      c == s.wasted     d == s.reserved
      <4>1. /\ pu \in Int /\ pw \in Int /\ pr \in Int /\ prev \in Int
            /\ a \in Int /\ b \in Int /\ c \in Int /\ d \in Int
        BY <1>2, <1>4, <1>5
      <4>2. pg.cur = pu + pw + pr
        BY <1>14
      <4>3. a + b + c + d = m
        BY <3>3
      <4> HIDE DEF pu, pw, pr, a, b, c, d
      <4>4. (a - pu) + (b - (pagesize - (pu + pw + pr)) + prev) + (c - pw - prev) + (d - pr)
              = m - pagesize
        BY <3>3, <4>1, <4>3
      <4> QED
        BY <4>2, <4>4 DEF pu, pw, pr, a, b, c, d
    <3> QED
      BY <1>7, <3>2, <3>4 DEF m
  <2> QED
    BY <1>6, <1>7, <2>2, <2>7, <2>8, <2>10, <2>11 DEF Count
<1>16. C = Under(B, n - 1)
  <2>1. \A b \in B : b.page < n <=> b.page <= n - 1
    BY <1>1, <1>8
  <2> QED
    BY <2>1 DEF C, Under
<1>17. Holds(pagesize, t, C)
  BY <1>7, <1>12, <1>13 DEF Holds
<1> QED
  BY <1>6, <1>7, <1>16, <1>17 DEF t

\* The last page is rolled back to a level.
LEMMA HoldsRollBack ==
  ASSUME NEW pl, NEW B, pagesize \in Int, Holds(pagesize, pl, B), NEW lv, NEW M,
         Covers(pagesize, lv, pl, B, M), lv.page = Len(pl.pages), lv.page # 0
  PROVE  LET t == RollBack(pl, lv)
         IN  /\ Holds(pagesize, t, Left(B, lv.page, lv.space.cur))
             /\ Len(t.pages) = lv.page /\ t.allocd = pl.allocd
             /\ t.pages[lv.page] = lv.space
             /\ \A i \in 1..lv.page : i # lv.page => t.pages[i] = pl.pages[i]
<1> DEFINE n == Len(pl.pages)
           l == lv.space
           C == {b \in B : b.page = n => b.off < l.cur}
           t == RollBack(pl, lv)
           pg == pl.pages[n]
           used == pg.used - l.used
           wasted == pg.wasted - l.wasted
           v == [pl.pages EXCEPT ![n] = l]
           s == pl.space
<1>0. PageHeader \in Nat
  BY PoolAssumption
<1>1. /\ pl \in PoolRec /\ pl.pages \in Seq(PageRec) /\ pl.allocd \in Seq(Nat)
      /\ s \in SpaceRec /\ n \in Nat /\ n > 0 /\ lv.page = n
  BY DEF Holds, PoolRec
<1>2. /\ s.free \in Int /\ s.used \in Int /\ s.wasted \in Int /\ s.reserved \in Int
      /\ s.allocd \in Int
  BY <1>1 DEF SpaceRec
<1>3. n \in 1..n /\ pg \in PageRec /\ l \in PageRec /\ PageOK(pagesize, l)
  BY <1>1 DEF Covers, PageOK
<1>4. /\ pg.cur \in Int /\ pg.used \in Int /\ pg.wasted \in Int /\ pg.reserved \in Int
  BY <1>3 DEF PageRec
<1>15. pg.cur = pg.used + pg.wasted + pg.reserved /\ pg.reserved = PageHeader
  BY <1>3 DEF PageOK, Holds, Count
<1>16. pg.used = SizeOf(InPage(B, n))
  BY <1>3 DEF Holds, Count
<1>5. /\ l.cur \in Nat /\ l.used \in Int /\ l.wasted \in Int /\ l.reserved \in Int
      /\ l.cur = l.used + l.wasted + l.reserved /\ l.reserved = PageHeader
  BY <1>3 DEF PageRec, PageOK
<1>6. /\ l.used = SizeOf(InFront(B, n, l.cur))
      /\ \A b \in B : b.page = n => b.off + b.size <= l.cur \/ b.off >= l.cur
  BY <1>1 DEF Covers
<1> HIDE DEF l
<1>7. used \in Int /\ wasted \in Int
  <2> HIDE DEF pg
  <2>1. used \in Int
    BY <1>4, <1>5
  <2>2. wasted \in Int
    BY <1>4, <1>5
  <2> QED
    BY <2>1, <2>2
<1>8. v \in Seq(PageRec) /\ Len(v) = n /\ v[n] = l /\ \A i \in 1..n : i # n => v[i] = pl.pages[i]
  BY <1>1, <1>3
<1>9. /\ t \in PoolRec /\ t.pages = v /\ t.allocd = pl.allocd
      /\ t.space.free = s.free + used + wasted
      /\ t.space.used = s.used - used
      /\ t.space.wasted = s.wasted - wasted
      /\ t.space.reserved = s.reserved
      /\ t.space.allocd = s.allocd
  <2> DEFINE u == [s EXCEPT !.used = s.used - used, !.wasted = s.wasted - wasted,
                            !.free = s.free + used + wasted]
  <2>1. t = [pl EXCEPT !.pages = v, !.space = u]
    BY <1>1 DEF RollBack, PoolRec, SpaceRec, l
  <2> HIDE DEF used, wasted
  <2>2. /\ s.free + used + wasted \in Int /\ s.used - used \in Int
        /\ s.wasted - wasted \in Int
    <3>1. s.free + used + wasted \in Int
      BY <1>2, <1>7
    <3>2. s.used - used \in Int
      BY <1>2, <1>7
    <3>3. s.wasted - wasted \in Int
      BY <1>2, <1>7
    <3> QED
      BY <3>1, <3>2, <3>3
  <2>3. u \in SpaceRec
    BY <1>1, <2>2 DEF SpaceRec
  <2>4. /\ u.free = s.free + used + wasted /\ u.used = s.used - used
        /\ u.wasted = s.wasted - wasted /\ u.reserved = s.reserved
        /\ u.allocd = s.allocd
    BY <1>1 DEF SpaceRec
  <2> HIDE DEF u, v
  <2>5. t \in PoolRec /\ t.pages = v /\ t.allocd = pl.allocd /\ t.space = u
    BY <1>1, <1>8, <2>1, <2>3 DEF PoolRec
  <2> QED
    BY <2>4, <2>5
<1> HIDE DEF t, v
<1>10. /\ B \subseteq Block /\ \A b \in B : b.page \in Nat /\ b.off \in Nat /\ b.size \in Nat
       /\ \A b \in B : b.page # 0 => /\ b.page \in 1..n /\ b.off >= PageHeader
                                     /\ b.off + b.size <= pl.pages[b.page].cur
  BY DEF Holds, Lie, Block
<1>11. C \in SUBSET B /\ \A b \in B : b \in C <=> (b.page = n => b.off < l.cur)
  OBVIOUS
<1> HIDE DEF C
<1>12. Lie(t, C)
  <2>1. ASSUME NEW b \in C, b.page # 0
        PROVE  /\ b.page \in 1..n /\ b.off >= PageHeader
               /\ b.off + b.size <= v[b.page].cur
    <3>1. CASE b.page = n
      <4>1. b.off + b.size <= l.cur
        BY <1>5, <1>6, <1>10, <1>11, <3>1
      <4> QED
        BY <1>8, <1>10, <1>11, <2>1, <3>1, <4>1
    <3>2. CASE b.page # n
      <4>1. b.page \in 1..n /\ b.off >= PageHeader /\ b.off + b.size <= pl.pages[b.page].cur
        BY <1>10, <1>11, <2>1
      <4> QED
        BY <1>8, <3>2, <4>1
    <3> QED
      BY <3>1, <3>2
  <2>2. \A i \in 1..Len(pl.allocd) : [page |-> 0, off |-> i, size |-> pl.allocd[i]] \in C
    <3> SUFFICES ASSUME NEW i \in 1..Len(pl.allocd)
                 PROVE  [page |-> 0, off |-> i, size |-> pl.allocd[i]] \in C
      OBVIOUS
    <3> DEFINE b == [page |-> 0, off |-> i, size |-> pl.allocd[i]]
    <3>1. b \in B /\ b.page = 0
      BY DEF Holds, Lie
    <3> HIDE DEF b
    <3>2. b \in C
      BY <1>1, <1>11, <3>1
    <3> QED
      BY <3>2 DEF b
  <2> QED
    BY <1>8, <1>9, <1>11, <2>1, <2>2 DEF Holds, Lie
<1>13. Count(pagesize, t, C)
  <2>1. IsFiniteSet(BytesOf(B))
    BY DEF Holds, Count
  <2>2. IsFiniteSet(BytesOf(C))
    BY <1>11, <2>1, BytesSplit
  <2> DEFINE D == {b \in B : b.page = n /\ ~(b.off < l.cur)}
  <2>3. /\ \A i \in 1..n : i # n => InPage(C, i) = InPage(B, i)
        /\ InPage(C, n) = InFront(B, n, l.cur)
        /\ NotInPage(C) = NotInPage(B)
    <3> HIDE DEF n
    <3> QED
      BY <1>1, <1>11 DEF InPage, InFront, NotInPage
  <2>4. /\ InPages(C) \in SUBSET InPages(B) /\ InPages(B) \ InPages(C) = D
        /\ InFront(B, n, l.cur) \in SUBSET InPage(B, n)
        /\ InPage(B, n) \ InFront(B, n, l.cur) = D
    <3> HIDE DEF n
    <3> QED
      BY <1>1, <1>11 DEF InPages, InPage, InFront
  <2> HIDE DEF D
  <2>5. InPages(B) \in SUBSET B /\ InPage(B, n) \in SUBSET B
    BY DEF InPages, InPage
  <2>6. IsFiniteSet(BytesOf(InPages(B))) /\ IsFiniteSet(BytesOf(InPage(B, n)))
    BY <2>1, <2>5, BytesSplit
  <2>7. /\ SizeOf(InPages(C)) \in Nat /\ SizeOf(InPages(B) \ InPages(C)) \in Nat
        /\ SizeOf(InPages(B)) = SizeOf(InPages(C)) + SizeOf(InPages(B) \ InPages(C))
    BY <2>4, <2>6, BytesSplit
  <2>8. /\ SizeOf(InFront(B, n, l.cur)) \in Nat
        /\ SizeOf(InPage(B, n)) =
             SizeOf(InFront(B, n, l.cur)) + SizeOf(InPage(B, n) \ InFront(B, n, l.cur))
    BY <2>4, <2>6, BytesSplit
  <2>9. t.space.used = SizeOf(InPages(C)) /\ t.space.allocd = SizeOf(NotInPage(C))
    <3>1. s.used = SizeOf(InPages(B)) /\ s.allocd = SizeOf(NotInPage(B))
      BY DEF Holds, Count
    <3>2. /\ s.used = SizeOf(InPages(C)) + SizeOf(D)
          /\ pg.used = l.used + SizeOf(D) /\ SizeOf(D) \in Nat
      BY <1>16, <1>6, <2>4, <2>7, <2>8, <3>1
    <3> HIDE DEF pg
    <3>3. s.used - used = SizeOf(InPages(C))
      BY <1>4, <1>5, <2>7, <3>2
    <3> QED
      BY <1>9, <2>3, <3>1, <3>3
  <2>10. \A i \in 1..n : PageOK(pagesize, v[i]) /\ v[i].used = SizeOf(InPage(C, i))
    <3>1. \A i \in 1..n : /\ PageOK(pagesize, pl.pages[i])
                          /\ pl.pages[i].used = SizeOf(InPage(B, i))
      BY DEF Holds, Count
    <3>2. PageOK(pagesize, l) /\ l.used = SizeOf(InPage(C, n))
      BY <1>3, <1>6, <2>3
    <3> QED
      BY <1>8, <2>3, <3>1, <3>2
  <2>11. t.space.free = IF t.pages = <<>> THEN 0 ELSE pagesize - t.pages[Len(t.pages)].cur
    <3>1. pl.pages # <<>> /\ t.pages # <<>>
      BY <1>1, <1>8, <1>9
    <3>2. s.free = pagesize - pg.cur
      BY <3>1 DEF Holds, Count
    <3> HIDE DEF pg
    <3>3. s.free + used + wasted = pagesize - l.cur
      <4> DEFINE pu == pg.used  pw == pg.wasted
                 lu == l.used   lw == l.wasted
      <4>1. pu \in Int /\ pw \in Int /\ lu \in Int /\ lw \in Int
        BY <1>4, <1>5
      <4>2. s.free = pagesize - (pu + pw + PageHeader) /\ l.cur = lu + lw + PageHeader
        BY <1>5, <1>15, <3>2
      <4>3. used = pu - lu /\ wasted = pw - lw
        OBVIOUS
      <4> HIDE DEF pu, pw, lu, lw, used, wasted
      <4> QED
        BY <1>0, <4>1, <4>2, <4>3
    <3> QED
      BY <1>8, <1>9, <3>1, <3>3
  <2>12. t.space.used + t.space.free + t.space.wasted + t.space.reserved = pagesize * n
    <3>1. s.used + s.free + s.wasted + s.reserved = pagesize * n
      BY DEF Holds, Count
    <3> HIDE DEF used, wasted
    <3>2. (s.used - used) + (s.free + used + wasted) + (s.wasted - wasted) + s.reserved
            = s.used + s.free + s.wasted + s.reserved
      <4> DEFINE a == s.used  b == s.free  c == s.wasted  d == s.reserved
      <4>1. a \in Int /\ b \in Int /\ c \in Int /\ d \in Int
        BY <1>2
      <4> HIDE DEF a, b, c, d
      <4>2. (a - used) + (b + used + wasted) + (c - wasted) + d = a + b + c + d
        BY <1>7, <4>1
      <4> QED
        BY <4>2 DEF a, b, c, d
    <3> QED
      BY <1>9, <3>1, <3>2
  <2> QED
    BY <1>8, <1>9, <2>2, <2>9, <2>10, <2>11, <2>12 DEF Count
<1>14. Holds(pagesize, t, C)
  BY <1>9, <1>12, <1>13 DEF Holds
<1>17. C = Left(B, lv.page, lv.space.cur)
  BY <1>1 DEF C, Left, l
<1> QED
  BY <1>1, <1>8, <1>9, <1>14, <1>17 DEF t, l

-----------------------------------------------------------------------------
(* Draining, one malloc'd block and one page at a time.                    *)

LEMMA LeastOne ==
  ASSUME NEW S \in SUBSET Nat, S # {}
  PROVE  \E x \in S : \A y \in S : x <= y
<1>1. PICK x \in S : \A y \in S : ~(<<y, x>> \in OpToRel(<, Nat))
  BY WFMin, NatLessThanWellFounded
<1>2. \A y \in S : ~(y < x)
  BY <1>1 DEF OpToRel
<1> QED
  BY <1>2

\* The pools after each of the first m times that a block is freed.
FreedTo(pl, f, m) ==
  /\ f = [i \in 0..m |-> f[i]] /\ f[0] = pl
  /\ \A i \in 1..m : f[i] = plain_old_free_last(f[i - 1])

LEMMA FreeingsExist ==
  ASSUME NEW pl, NEW m \in Nat
  PROVE  \E f : FreedTo(pl, f, m)
<1> DEFINE Missing == {i \in 0..m : ~ \E f : FreedTo(pl, f, i)}
<1> SUFFICES ASSUME Missing # {}
             PROVE  FALSE
  OBVIOUS
<1>1. Missing \in SUBSET Nat
  OBVIOUS
<1>2. PICK l \in Missing : \A j \in Missing : l <= j
  <2> HIDE DEF Missing
  <2> QED
    BY <1>1, LeastOne
<1>3. l \in 0..m
  OBVIOUS
<1>4. l # 0
  <2>1. FreedTo(pl, [i \in 0..0 |-> pl], 0)
    BY DEF FreedTo
  <2> QED
    BY <2>1
<1>5. l - 1 \in 0..m /\ l - 1 \notin Missing
  BY <1>2, <1>3, <1>4
<1>6. PICK f : FreedTo(pl, f, l - 1)
  BY <1>5
<1> DEFINE g == [i \in 0..l |-> IF i = l THEN plain_old_free_last(f[l - 1]) ELSE f[i]]
<1>7. FreedTo(pl, g, l)
  <2>1. l \in Nat \ {0}
    BY <1>3, <1>4
  <2>2. /\ g = [i \in 0..l |-> g[i]] /\ g[0] = f[0] /\ g[l - 1] = f[l - 1]
        /\ g[l] = plain_old_free_last(f[l - 1])
    BY <2>1
  <2>3. \A i \in 1..(l - 1) : g[i] = f[i] /\ g[i - 1] = f[i - 1]
    BY <2>1
  <2> HIDE DEF g
  <2>4. \A i \in 1..l : i = l \/ i \in 1..(l - 1)
    BY <2>1
  <2> QED
    BY <1>6, <2>2, <2>3, <2>4 DEF FreedTo
<1> QED
  BY <1>7

\* All but the first n malloc'd blocks are freed.
LEMMA HoldsFreed ==
  ASSUME NEW ps \in Int, NEW pl, NEW B, Holds(ps, pl, B), NEW n \in 0..Len(pl.allocd)
  PROVE  /\ Holds(ps, FreeAllocd(pl, n), Low(B, n))
         /\ FreeAllocd(pl, n).pages = pl.pages /\ Len(FreeAllocd(pl, n).allocd) = n
<1> DEFINE a == Len(pl.allocd)
           m == a - n
           Frees(f) == f = [i \in 0..m |-> IF i = 0 THEN pl
                                            ELSE plain_old_free_last(f[i - 1])]
           t == CHOOSE f : Frees(f)
<1>1. a \in Nat /\ m \in Nat /\ n \in Nat /\ n <= a
  BY DEF Holds, PoolRec
<1>2. PICK f : FreedTo(pl, f, m)
  BY <1>1, FreeingsExist
<1>3. Frees(f)
  <2> HIDE DEF m
  <2>1. ASSUME NEW i \in 0..m
        PROVE  f[i] = IF i = 0 THEN pl ELSE plain_old_free_last(f[i - 1])
    <3>1. CASE i = 0
      BY <1>2, <3>1 DEF FreedTo
    <3>2. CASE i # 0
      <4>1. i \in 1..m
        BY <1>1, <3>2
      <4> QED
        BY <1>2, <3>2, <4>1 DEF FreedTo
    <3> QED
      BY <3>1, <3>2
  <2> QED
    BY <1>2, <2>1 DEF FreedTo
<1>4. Frees(t)
  BY <1>3
<1>5. FreeAllocd(pl, n) = t[m]
  BY DEF FreeAllocd
<1> HIDE DEF t, m
<1>6. t[0] = pl /\ \A i \in 1..m : t[i] = plain_old_free_last(t[i - 1])
  BY <1>1, <1>4
<1> DEFINE Right(i) == /\ Holds(ps, t[i], Low(B, a - i))
                       /\ t[i].pages = pl.pages /\ Len(t[i].allocd) = a - i
           Wrong == {i \in 0..m : ~Right(i)}
<1>7. Wrong = {}
  <2> SUFFICES ASSUME Wrong # {}
               PROVE  FALSE
    OBVIOUS
  <2>1. Wrong \in SUBSET Nat
    BY <1>1
  <2>2. PICK l \in Wrong : \A j \in Wrong : l <= j
    <3> HIDE DEF Wrong
    <3> QED
      BY <2>1, LeastOne
  <2>3. l \in 0..m /\ ~Right(l)
    OBVIOUS
  <2>4. l # 0
    <3>1. \A b \in B : b.page = 0 => b.off \in 1..a
      BY DEF Holds, Lie
    <3>2. Low(B, a) = B
      BY <1>1, <3>1 DEF Low
    <3>3. a - 0 = a
      BY <1>1
    <3>4. Right(0)
      BY <1>6, <3>2, <3>3
    <3> QED
      BY <2>3, <3>4
  <2>5. l - 1 \in 0..m /\ l \in 1..m
    BY <1>1, <2>3, <2>4
  <2>6. Right(l - 1)
    <3>1. ~(l <= l - 1)
      BY <2>5
    <3> QED
      BY <2>2, <2>5, <3>1
  <2> DEFINE k == a - (l - 1)
             q == t[l - 1]
  <2>7. k \in Nat /\ k > 0 /\ k - 1 = a - l
    BY <1>1, <2>5 DEF m
  <2>8. Holds(ps, q, Low(B, k)) /\ q.pages = pl.pages /\ Len(q.allocd) = k
    BY <2>6
  <2>9. t[l] = plain_old_free_last(q)
    BY <1>6, <2>5
  <2> HIDE DEF k, q, a
  <2>10. /\ Holds(ps, t[l], Low(Low(B, k), k - 1))
         /\ t[l].pages = pl.pages /\ Len(t[l].allocd) = k - 1
    BY <2>7, <2>8, <2>9, HoldsFreeLast
  <2>11. Low(Low(B, k), k - 1) = Low(B, k - 1)
    <3>1. \A b \in B : b.off \in Nat
      BY DEF Holds, Lie, Block
    <3> QED
      BY <2>7, <3>1 DEF Low
  <2>12. Right(l)
    BY <2>7, <2>10, <2>11
  <2> QED
    BY <2>3, <2>12
<1> HIDE DEF Right
<1>8. Right(m)
  BY <1>1, <1>7
<1>9. a - m = n
  BY <1>1 DEF m
<1> QED
  BY <1>5, <1>8, <1>9 DEF Right

\* The pools after each of the first m times that a page is removed.
RemovedTo(pl, f, m) ==
  /\ f = [i \in 0..m |-> f[i]] /\ f[0] = pl
  /\ \A i \in 1..m : f[i] = remove_last_page(f[i - 1])

LEMMA RemovalsExist ==
  ASSUME NEW pl, NEW m \in Nat
  PROVE  \E f : RemovedTo(pl, f, m)
<1> DEFINE Missing == {i \in 0..m : ~ \E f : RemovedTo(pl, f, i)}
<1> SUFFICES ASSUME Missing # {}
             PROVE  FALSE
  OBVIOUS
<1>1. Missing \in SUBSET Nat
  OBVIOUS
<1>2. PICK l \in Missing : \A j \in Missing : l <= j
  <2> HIDE DEF Missing
  <2> QED
    BY <1>1, LeastOne
<1>3. l \in 0..m
  OBVIOUS
<1>4. l # 0
  <2>1. RemovedTo(pl, [i \in 0..0 |-> pl], 0)
    BY DEF RemovedTo
  <2> QED
    BY <2>1
<1>5. l - 1 \in 0..m /\ l - 1 \notin Missing
  BY <1>2, <1>3, <1>4
<1>6. PICK f : RemovedTo(pl, f, l - 1)
  BY <1>5
<1> DEFINE g == [i \in 0..l |-> IF i = l THEN remove_last_page(f[l - 1]) ELSE f[i]]
<1>7. RemovedTo(pl, g, l)
  <2>1. l \in Nat \ {0}
    BY <1>3, <1>4
  <2>2. /\ g = [i \in 0..l |-> g[i]] /\ g[0] = f[0] /\ g[l - 1] = f[l - 1]
        /\ g[l] = remove_last_page(f[l - 1])
    BY <2>1
  <2>3. \A i \in 1..(l - 1) : g[i] = f[i] /\ g[i - 1] = f[i - 1]
    BY <2>1
  <2> HIDE DEF g
  <2>4. \A i \in 1..l : i = l \/ i \in 1..(l - 1)
    BY <2>1
  <2> QED
    BY <1>6, <2>2, <2>3, <2>4 DEF RemovedTo
<1> QED
  BY <1>7

\* All but the first n pages are removed.
LEMMA HoldsRemoved ==
  ASSUME NEW pl, NEW B, pagesize \in Int, Holds(pagesize, pl, B),
         NEW n \in 0..Len(pl.pages)
  PROVE  LET u == RemovePages(pl, n)
         IN  /\ Holds(pagesize, u, Under(B, n)) /\ Len(u.pages) = n
             /\ u.allocd = pl.allocd /\ \A j \in 1..n : u.pages[j] = pl.pages[j]
<1> DEFINE a == Len(pl.pages)
           m == a - n
           Removes(f) == f = [i \in 0..m |-> IF i = 0 THEN pl
                                              ELSE remove_last_page(f[i - 1])]
           t == CHOOSE f : Removes(f)
<1>1. a \in Nat /\ m \in Nat /\ n \in Nat /\ n <= a
  BY DEF Holds, PoolRec
<1>2. PICK f : RemovedTo(pl, f, m)
  BY <1>1, RemovalsExist
<1>3. Removes(f)
  <2> HIDE DEF m
  <2>1. ASSUME NEW i \in 0..m
        PROVE  f[i] = IF i = 0 THEN pl ELSE remove_last_page(f[i - 1])
    <3>1. CASE i = 0
      BY <1>2, <3>1 DEF RemovedTo
    <3>2. CASE i # 0
      <4>1. i \in 1..m
        BY <1>1, <3>2
      <4> QED
        BY <1>2, <3>2, <4>1 DEF RemovedTo
    <3> QED
      BY <3>1, <3>2
  <2> QED
    BY <1>2, <2>1 DEF RemovedTo
<1>4. Removes(t)
  BY <1>3
<1>5. RemovePages(pl, n) = t[m]
  BY DEF RemovePages, Top
<1> HIDE DEF t, m
<1>6. t[0] = pl /\ \A i \in 1..m : t[i] = remove_last_page(t[i - 1])
  BY <1>1, <1>4
<1> DEFINE Right(i) == /\ Holds(pagesize, t[i], Under(B, a - i))
                       /\ t[i].allocd = pl.allocd /\ Len(t[i].pages) = a - i
                       /\ \A j \in 1..(a - i) : t[i].pages[j] = pl.pages[j]
           Wrong == {i \in 0..m : ~Right(i)}
<1>7. Wrong = {}
  <2> SUFFICES ASSUME Wrong # {}
               PROVE  FALSE
    OBVIOUS
  <2>1. Wrong \in SUBSET Nat
    BY <1>1
  <2>2. PICK l \in Wrong : \A j \in Wrong : l <= j
    <3> HIDE DEF Wrong
    <3> QED
      BY <2>1, LeastOne
  <2>3. l \in 0..m /\ ~Right(l)
    OBVIOUS
  <2>4. l # 0
    <3>1. \A b \in B : b.page \in Nat /\ (b.page # 0 => b.page \in 1..a)
      BY DEF Holds, Lie, Block
    <3>2. Under(B, a) = B
      BY <1>1, <3>1 DEF Under
    <3>3. a - 0 = a
      BY <1>1
    <3>4. Right(0)
      BY <1>6, <3>2, <3>3
    <3> QED
      BY <2>3, <3>4
  <2>5. l - 1 \in 0..m /\ l \in 1..m
    BY <1>1, <2>3, <2>4
  <2>6. Right(l - 1)
    <3>1. ~(l <= l - 1)
      BY <2>5
    <3> QED
      BY <2>2, <2>5, <3>1
  <2> DEFINE k == a - (l - 1)
             q == t[l - 1]
  <2>7. k \in Nat /\ k > 0 /\ k - 1 = a - l
    <3> HIDE DEF a
    <3> QED
      BY <1>1, <2>5 DEF m
  <2>8. /\ Holds(pagesize, q, Under(B, k)) /\ q.allocd = pl.allocd /\ Len(q.pages) = k
        /\ \A j \in 1..k : q.pages[j] = pl.pages[j]
    BY <2>6
  <2>9. t[l] = remove_last_page(q)
    BY <1>6, <2>5
  <2> HIDE DEF k, q, a
  <2>10. /\ Holds(pagesize, t[l], Under(Under(B, k), k - 1))
         /\ t[l].allocd = pl.allocd /\ Len(t[l].pages) = k - 1
         /\ \A j \in 1..(k - 1) : t[l].pages[j] = q.pages[j]
    BY <2>7, <2>8, <2>9, HoldsRemove
  <2>11. Under(Under(B, k), k - 1) = Under(B, k - 1)
    <3>1. \A b \in B : b.page \in Nat
      BY DEF Holds, Lie, Block
    <3> QED
      BY <2>7, <3>1 DEF Under
  <2>12. \A j \in 1..(k - 1) : t[l].pages[j] = pl.pages[j]
    <3>1. \A j \in 1..(k - 1) : j \in 1..k
      BY <2>7
    <3> QED
      BY <2>8, <2>10, <3>1
  <2>13. Right(l)
    BY <2>7, <2>10, <2>11, <2>12
  <2> QED
    BY <2>3, <2>13
<1> HIDE DEF Right
<1>8. Right(m)
  BY <1>1, <1>7
<1>9. a - m = n
  BY <1>1 DEF m
<1> QED
  BY <1>5, <1>8, <1>9 DEF Right

-----------------------------------------------------------------------------
(* Allocating.                                                             *)

\* Nothing holds nothing.
LEMMA HoldsNothing ==
  ASSUME NEW ps \in Int
  PROVE  Holds(ps, [pages |-> <<>>, allocd |-> <<>>, space |-> NoSpace], {})
<1> DEFINE t == [pages |-> <<>>, allocd |-> <<>>, space |-> NoSpace]
<1>1. NoSpace \in SpaceRec
  BY DEF NoSpace, SpaceRec
<1>2. /\ t.pages = <<>> /\ t.allocd = <<>> /\ t.space.free = 0 /\ t.space.used = 0
      /\ t.space.wasted = 0 /\ t.space.reserved = 0 /\ t.space.allocd = 0
  BY DEF NoSpace
<1>3. t \in PoolRec
  BY <1>1 DEF PoolRec
<1> HIDE DEF t
<1>4. Len(t.pages) = 0 /\ Len(t.allocd) = 0
  BY <1>2
<1>5. Lie(t, {})
  BY <1>4 DEF Lie
<1>6. InPages({}) = {} /\ NotInPage({}) = {}
  BY DEF InPages, NotInPage
<1>7. ps * Len(t.pages) = 0
  BY <1>4
<1>8. t.space.used + t.space.free + t.space.wasted + t.space.reserved = 0
  BY <1>2
<1>9. Count(ps, t, {})
  <2>1. IsFiniteSet(BytesOf({})) /\ SizeOf(InPages({})) = 0 /\ SizeOf(NotInPage({})) = 0
    BY <1>6, BytesNone
  <2>2. 1..Len(t.pages) = {}
    BY <1>4
  <2> QED
    BY <1>2, <1>7, <1>8, <2>1, <2>2 DEF Count
<1>10. Holds(ps, t, {})
  BY <1>3, <1>5, <1>9 DEF Holds
<1> QED
  BY <1>10 DEF t

\* Pool q with the blocks of C has all that pool pl had with those of B, and
\* what is new lies behind it.
Grows(pl, B, q, C) ==
  /\ Len(pl.allocd) <= Len(q.allocd) /\ Len(pl.pages) <= Len(q.pages)
  /\ pl.pages = <<>> => q.pages = <<>>
  /\ \A i \in 1..Len(pl.pages) : pl.pages[i].cur <= q.pages[i].cur
  /\ B \subseteq C
  /\ \A b \in C : b \in B \/ (b.page \in 1..Len(pl.pages) =>
                                b.off >= pl.pages[b.page].cur)

\* A level stays good when the pool grows.
LEMMA CoversGrows ==
  ASSUME NEW ps \in Int, NEW pl, NEW B, NEW q, NEW C, NEW lv, NEW M,
         Holds(ps, pl, B), Holds(ps, q, C), Covers(ps, lv, pl, B, M), Grows(pl, B, q, C)
  PROVE  Covers(ps, lv, q, C, M)
<1> DEFINE l == lv.space.cur
<1>1. /\ Len(pl.allocd) \in Nat /\ Len(q.allocd) \in Nat /\ Len(pl.pages) \in Nat
      /\ Len(q.pages) \in Nat /\ lv.allocd \in Nat /\ l \in Nat /\ lv.page \in Nat
  BY DEF Holds, PoolRec, Covers, LevelRec, PageRec
<1>2. \A b \in C : b.page \in Nat /\ b.off \in Nat /\ b.size \in Nat
  BY DEF Holds, Lie, Block
<1>3. lv.allocd <= Len(q.allocd)
  BY <1>1 DEF Covers, Grows
<1>4. ASSUME lv.page # 0
      PROVE  /\ lv.page \in 1..Len(q.pages) /\ l <= q.pages[lv.page].cur
             /\ InFront(C, lv.page, l) = InFront(B, lv.page, l)
             /\ \A b \in C : b.page = lv.page => b.off + b.size <= l \/ b.off >= l
  <2>1. lv.page \in 1..Len(pl.pages) /\ l <= pl.pages[lv.page].cur
    BY <1>4 DEF Covers
  <2>2. lv.page \in 1..Len(q.pages)
    <3>1. Len(pl.pages) <= Len(q.pages)
      BY DEF Grows
    <3> QED
      BY <1>1, <2>1, <3>1
  <2>3. pl.pages[lv.page].cur \in Nat /\ q.pages[lv.page].cur \in Nat
    <3>1. pl.pages \in Seq(PageRec) /\ q.pages \in Seq(PageRec)
      BY DEF Holds, PoolRec
    <3>2. pl.pages[lv.page] \in PageRec /\ q.pages[lv.page] \in PageRec
      BY <2>1, <2>2, <3>1
    <3> QED
      BY <3>2 DEF PageRec
  <2>4. pl.pages[lv.page].cur <= q.pages[lv.page].cur
    BY <2>1 DEF Grows
  <2>5. l <= q.pages[lv.page].cur
    <3> DEFINE x == pl.pages[lv.page].cur
               y == q.pages[lv.page].cur
    <3>1. x \in Nat /\ y \in Nat /\ l \in Nat /\ l <= x /\ x <= y
      BY <1>1, <2>1, <2>3, <2>4
    <3> HIDE DEF l, x, y
    <3>2. l <= y
      BY <3>1
    <3> QED
      BY <3>2 DEF y
  <2>6. \A b \in C : b.page = lv.page => b \in B \/ b.off >= l
    <3> SUFFICES ASSUME NEW b \in C, b.page = lv.page, b \notin B
                 PROVE  b.off >= l
      OBVIOUS
    <3>1. b.off >= pl.pages[lv.page].cur
      BY <2>1 DEF Grows
    <3> HIDE DEF l
    <3> QED
      BY <1>1, <1>2, <2>1, <2>3, <3>1
  <2>7. \A b \in B : b \in C
    BY DEF Grows
  <2>8. \A b \in C : b.off >= l => ~(b.off < l)
    <3> HIDE DEF l
    <3> QED
      BY <1>1, <1>2
  <2>9. InFront(C, lv.page, l) = InFront(B, lv.page, l)
    <3> HIDE DEF l
    <3> QED
      BY <2>6, <2>7, <2>8 DEF InFront
  <2>10. \A b \in B : b.page = lv.page => b.off + b.size <= l \/ b.off >= l
    BY <1>4 DEF Covers
  <2> QED
    BY <2>2, <2>5, <2>6, <2>9, <2>10
<1>5. M \subseteq C
  BY DEF Covers, Grows
<1>6. lv.page = 0 => q.pages = <<>>
  BY DEF Covers, Grows
<1> QED
  BY <1>3, <1>4, <1>5, <1>6 DEF Covers

\* A block is cut from the last page of q, which has the pages of the pool and
\* perhaps a new one.
LEMMA CutGrows ==
  ASSUME pagesize \in Int, Holds(pagesize, P, blocks),
         NEW sz \in Nat \ {0}, NEW align \in BOOLEAN, NEW q,
         Holds(pagesize, q, blocks), Fits(q, sz, align), q.allocd = allocd,
         pages = <<>> => q.pages = <<>>,
         q.pages = pages \/ Len(q.pages) = Len(pages) + 1,
         \A i \in 1..Len(pages) : q.pages[i] = pages[i]
  PROVE  LET t == palloc_in_current_page(q, sz, align)
             C == blocks \cup NewBlock(t, sz)
         IN  Holds(pagesize, t, C) /\ Grows(P, blocks, t, C)
<1> DEFINE t == palloc_in_current_page(q, sz, align)
           n == Len(q.pages)
           x == [page |-> n, off |-> t.pages[n].cur - sz, size |-> sz]
           C == blocks \cup {x}
<1>1. /\ Holds(pagesize, t, C) /\ n # 0 /\ Len(t.pages) = n /\ t.allocd = allocd
      /\ \A i \in 1..n : q.pages[i].cur <= t.pages[i].cur
      /\ x.off >= q.pages[n].cur /\ t.pages # q.pages
  <2>1. sz \in Nat /\ sz > 0
    OBVIOUS
  <2> QED
    BY <2>1, HoldsCut, Zenon
<1>2. P.pages = pages /\ P.allocd = allocd
  BY DEF P
<1>3. x.page = n
  OBVIOUS
<1> HIDE DEF x, t
<1>5. Len(pages) \in Nat /\ n \in Nat /\ q.pages \in Seq(PageRec) /\ t.pages \in Seq(PageRec)
  BY <1>1, <1>2 DEF Holds, PoolRec
<1>4. NewBlock(t, sz) = {x}
  <2>1. t.pages # pages
    <3>1. Len(q.pages) = Len(pages) + 1 => Len(t.pages) # Len(pages)
      BY <1>1, <1>5
    <3> QED
      BY <1>1, <3>1
  <2>2. t # P
    BY <1>2, <2>1
  <2> QED
    BY <1>1, <2>2 DEF NewBlock, Top, x
<1> HIDE DEF C
<1>6. Grows(P, blocks, t, C)
  <2>1. pages # <<>>
    <3>1. q.pages # <<>>
      BY <1>1, <1>5
    <3> QED
      BY <3>1
  <2>9. Len(pages) <= n
    BY <1>5
  <2>2. \A i \in 1..Len(pages) : i \in 1..n
    BY <1>5, <2>9
  <2>3. \A i \in 1..Len(pages) : pages[i].cur <= t.pages[i].cur
    BY <1>1, <2>2
  <2>4. n \in 1..Len(pages) => x.off >= pages[n].cur
    BY <1>1
  <2>5. \A b \in C : b \in blocks \/ b = x
    BY DEF C
  <2>6. \A b \in C : b \in blocks \/ (b.page \in 1..Len(pages) => b.off >= pages[b.page].cur)
    BY <1>3, <2>4, <2>5
  <2>7. blocks \subseteq C
    BY DEF C
  <2>8. Len(allocd) <= Len(allocd)
    <3>1. Len(allocd) \in Nat
      BY <1>2 DEF Holds, PoolRec
    <3> QED
      BY <3>1
  <2> QED
    BY <1>1, <1>2, <2>1, <2>3, <2>6, <2>7, <2>8, <2>9 DEF Grows
<1>7. C = blocks \cup NewBlock(t, sz)
  BY <1>4 DEF C
<1> QED
  BY <1>1, <1>6, <1>7 DEF t

\* An allocation takes nothing of what the pool holds.
LEMMA PallocGrows ==
  ASSUME PoolInv, NEW sz \in Nat \ {0}, NEW align \in BOOLEAN, NEW mem
  PROVE  LET t == palloc(sz, align, mem)
             C == blocks \cup NewBlock(t, sz)
         IN  Holds(pagesize, t, C) /\ Grows(P, blocks, t, C)
<1> DEFINE t == palloc(sz, align, mem)
           C == blocks \cup NewBlock(t, sz)
           n == Len(pages)
<1>1. pagesize \in Int /\ PageHeader \in Nat /\ (pages = <<>> => pagesize = 0)
  BY PoolAssumption DEF PoolInv
<1>2. Holds(pagesize, P, blocks)
  BY DEF PoolInv
<1>3. /\ P.pages = pages /\ P.allocd = allocd /\ P \in PoolRec
      /\ pages \in Seq(PageRec) /\ allocd \in Seq(Nat)
  <2>1. P.pages = pages /\ P.allocd = allocd
    BY DEF P
  <2> QED
    BY <1>2, <2>1 DEF Holds, PoolRec
<1>4. n \in Nat /\ Len(allocd) \in Nat
  BY <1>3
<1>5. CASE Fits(P, sz, align)
  <2>1. t = palloc_in_current_page(P, sz, align)
    BY <1>5 DEF palloc
  <2> QED
    BY <1>1, <1>2, <1>3, <1>5, <2>1, CutGrows
<1>6. CASE ~Fits(P, sz, align) /\ pagesize - PageHeader >= sz /\ mem = "ok"
  <2> DEFINE q == add_page(P, pagesize)
  <2>1. t = palloc_in_current_page(q, sz, align)
    BY <1>6 DEF palloc
  <2>2. PageHeader <= pagesize /\ pagesize # 0
    BY <1>1, <1>6
  <2>3. /\ Holds(pagesize, q, blocks) /\ Len(q.pages) = n + 1
        /\ q.pages[n + 1] = NewPage /\ q.allocd = allocd
        /\ \A i \in 1..n : q.pages[i] = pages[i]
    BY <1>1, <1>2, <1>3, <2>2, HoldsAddPage
  <2> HIDE DEF q
  <2>4. Fits(q, sz, align)
    <3>1. NewPage.cur = PageHeader
      BY DEF NewPage
    <3>2. Pad(NewPage.cur, align) = 0
      BY <1>1, <3>1, PadIs
    <3>3. pagesize - NewPage.cur >= Pad(NewPage.cur, align) + sz
      BY <1>1, <1>6, <3>1, <3>2
    <3>4. n + 1 > 0
      BY <1>4
    <3> QED
      BY <2>3, <3>3, <3>4 DEF Fits, Top, FreeIn
  <2>5. pages # <<>>
    BY <1>1, <2>2
  <2> QED
    BY <1>1, <1>2, <2>1, <2>3, <2>4, <2>5, CutGrows
<1>7. CASE /\ ~Fits(P, sz, align) /\ ~(pagesize - PageHeader >= sz /\ mem = "ok")
           /\ mem # "none"
  <2>1. t = plain_old_malloc(P, sz)
    BY <1>7 DEF palloc
  <2> DEFINE x == [page |-> 0, off |-> Len(allocd) + 1, size |-> sz]
  <2>2. Holds(pagesize, t, blocks \cup {x})
    <3>1. Holds(pagesize, plain_old_malloc(P, sz),
                blocks \cup {[page |-> 0, off |-> Len(P.allocd) + 1, size |-> sz]})
      BY <1>1, <1>2, HoldsMalloc
    <3> QED
      BY <1>3, <2>1, <3>1
  <2>3. t.pages = pages /\ t.allocd = Append(allocd, sz)
    <3>1. P \in [pages : Seq(PageRec), allocd : Seq(Nat), space : SpaceRec]
      BY <1>3 DEF PoolRec
    <3> QED
      BY <1>3, <2>1, <3>1 DEF plain_old_malloc
  <2>4. Len(t.allocd) = Len(allocd) + 1 /\ t.allocd # allocd
    BY <1>3, <2>3
  <2> HIDE DEF t
  <2>5. NewBlock(t, sz) = {x}
    <3>1. t # P
      BY <1>3, <2>4
    <3> QED
      BY <2>4, <3>1 DEF NewBlock
  <2>6. x.page = 0
    OBVIOUS
  <2> HIDE DEF x
  <2>7. Len(allocd) <= Len(allocd) + 1 /\ n <= n /\ 0 \notin 1..n
    BY <1>4
  <2>8. \A i \in 1..n : pages[i].cur <= pages[i].cur
    <3>1. \A i \in 1..n : pages[i] \in PageRec
      BY <1>3
    <3>2. \A i \in 1..n : pages[i].cur \in Nat
      BY <3>1 DEF PageRec
    <3> QED
      BY <3>2
  <2>9. Grows(P, blocks, t, blocks \cup {x})
    BY <1>3, <2>3, <2>4, <2>6, <2>7, <2>8 DEF Grows
  <2> QED
    BY <2>2, <2>5, <2>9 DEF t
<1>8. CASE /\ ~Fits(P, sz, align) /\ ~(pagesize - PageHeader >= sz /\ mem = "ok")
           /\ mem = "none"
  <2>1. t = P
    BY <1>8 DEF palloc
  <2>2. C = blocks
    BY <2>1 DEF NewBlock
  <2>3. Len(allocd) <= Len(allocd) /\ n <= n
    BY <1>4
  <2>4. \A i \in 1..n : pages[i].cur <= pages[i].cur
    <3>1. \A i \in 1..n : pages[i] \in PageRec
      BY <1>3
    <3>2. \A i \in 1..n : pages[i].cur \in Nat
      BY <3>1 DEF PageRec
    <3> QED
      BY <3>2
  <2>5. Grows(P, blocks, P, blocks)
    BY <1>3, <2>3, <2>4 DEF Grows
  <2> HIDE DEF t, C
  <2>6. Holds(pagesize, t, C) /\ Grows(P, blocks, t, C)
    BY <1>2, <2>1, <2>2, <2>5
  <2> QED
    BY <2>6 DEF t, C
<1> QED
  BY <1>5, <1>6, <1>7, <1>8

-----------------------------------------------------------------------------
(* The operations keep the invariant.                                      *)

\* The pool becomes t.
LEMMA BecomesPool ==
  ASSUME NEW t, t \in PoolRec, Becomes(t)
  PROVE  P' = t /\ pages' = t.pages /\ allocd' = t.allocd
<1>1. t = [pages |-> t.pages, allocd |-> t.allocd, space |-> t.space]
  BY DEF PoolRec
<1>2. pages' = t.pages /\ allocd' = t.allocd /\ space' = t.space
  BY DEF Becomes
<1> QED
  BY <1>1, <1>2 DEF P

\* What was held, and every level, when the pool has grown.
LEMMA GrownHolds ==
  ASSUME PoolInv, NEW t, NEW C, Holds(pagesize, t, C), Grows(P, blocks, t, C),
         Becomes(t), blocks' = C, pagesize' = pagesize
  PROVE  /\ pagesize' \in {0, PoolPageSize} /\ (pages' = <<>> => pagesize' = 0)
         /\ P' = t /\ Holds(pagesize', P', blocks')
         /\ \A n \in 1..Len(levels) :
              marked[n] # {} => Covers(pagesize', levels[n], P', blocks', marked[n])
<1>1. P' = t /\ pages' = t.pages
  BY BecomesPool DEF Holds
<1>2. pagesize \in Int
  BY PoolAssumption DEF PoolInv
<1>3. Holds(pagesize, P, blocks)
  BY DEF PoolInv
<1>4. ASSUME pages' = <<>>
      PROVE  pagesize' = 0
  <2>1. P.pages = pages /\ pages \in Seq(PageRec)
    <3>1. P.pages = pages
      BY DEF P
    <3> QED
      BY <1>3, <3>1 DEF Holds, PoolRec
  <2>2. Len(pages) <= Len(t.pages)
    BY <2>1 DEF Grows
  <2>3. Len(pages) = 0
    BY <1>1, <1>4, <2>1, <2>2
  <2>4. pages = <<>>
    BY <2>1, <2>3
  <2> QED
    BY <2>4 DEF PoolInv
<1>5. ASSUME NEW n \in 1..Len(levels), marked[n] # {}
      PROVE  Covers(pagesize, levels[n], t, C, marked[n])
  <2>1. Covers(pagesize, levels[n], P, blocks, marked[n])
    BY <1>5 DEF PoolInv
  <2> QED
    BY <1>2, <1>3, <2>1, CoversGrows
<1> QED
  BY <1>1, <1>4, <1>5 DEF PoolInv

LEMMA PoolStarts == PoolInit => PoolInv
<1> SUFFICES ASSUME PoolInit
             PROVE  PoolInv
  OBVIOUS
<1> DEFINE e == [pages |-> <<>>, allocd |-> <<>>, space |-> NoSpace]
           t == add_page(e, PoolPageSize)
<1>1. PoolPageSize \in Int /\ PageHeader <= PoolPageSize
  BY PoolAssumption
<1>2. Holds(PoolPageSize, e, {})
  BY <1>1, HoldsNothing
<1>3. Len(e.pages) = 0
  OBVIOUS
<1>4. /\ pagesize = PoolPageSize /\ pages = t.pages /\ allocd = t.allocd
      /\ space = t.space /\ levels = <<>> /\ blocks = {} /\ marked = <<>>
  BY DEF PoolInit
<1> HIDE DEF e
<1>5. Holds(PoolPageSize, t, {}) /\ Len(t.pages) = 0 + 1
  BY <1>1, <1>2, <1>3, HoldsAddPage
<1> HIDE DEF t
<1>6. t = [pages |-> t.pages, allocd |-> t.allocd, space |-> t.space]
  BY <1>5 DEF Holds, PoolRec
<1>7. P = t
  BY <1>4, <1>6 DEF P
<1>8. pages # <<>>
  BY <1>4, <1>5
<1>9. levels \in Seq(LevelRec) /\ marked \in Seq(SUBSET Block) /\ Len(levels) = 0
      /\ Len(marked) = 0
  BY <1>4
<1> QED
  BY <1>4, <1>5, <1>7, <1>8, <1>9 DEF PoolInv

LEMMA AllocKeeps ==
  ASSUME PoolInv, NEW sz \in PoolSizes, NEW align \in BOOLEAN, NEW mem \in PoolMem,
         PoolAlloc(sz, align, mem)
  PROVE  PoolInv'
<1> DEFINE t == palloc(sz, align, mem)
           C == blocks \cup NewBlock(t, sz)
<1>1. sz \in Nat \ {0}
  BY PoolAssumption
<1>2. Holds(pagesize, t, C) /\ Grows(P, blocks, t, C)
  BY <1>1, PallocGrows
<1>3. /\ Becomes(t) /\ blocks' = C /\ pagesize' = pagesize
      /\ levels' = levels /\ marked' = marked
  BY DEF PoolAlloc
<1> HIDE DEF t, C
<1>4. /\ pagesize' \in {0, PoolPageSize} /\ (pages' = <<>> => pagesize' = 0)
      /\ Holds(pagesize', P', blocks')
      /\ \A n \in 1..Len(levels) :
           marked[n] # {} => Covers(pagesize', levels[n], P', blocks', marked[n])
  BY <1>2, <1>3, GrownHolds
<1> QED
  BY <1>3, <1>4 DEF PoolInv

\* The place of the last allocation is a level that covers all there is.
LEMMA LevelCovers ==
  ASSUME NEW ps \in Int, NEW t, NEW C, Holds(ps, t, C)
  PROVE  Covers(ps, Level(t), t, C, C)
<1> DEFINE n == Len(t.pages)
           lv == Level(t)
           c == lv.space.cur
<1>0. PageHeader \in Nat
  BY PoolAssumption
<1>1. t.pages \in Seq(PageRec) /\ n \in Nat /\ Len(t.allocd) \in Nat
  BY DEF Holds, PoolRec
<1>2. /\ lv.page = n /\ lv.allocd = Len(t.allocd)
      /\ lv.space = IF n = 0 THEN NewPage ELSE t.pages[n]
  BY DEF Level, Top
<1>3. lv \in LevelRec
  <2>1. NewPage \in PageRec
    BY <1>0 DEF NewPage, PageRec
  <2>2. n # 0 => t.pages[n] \in PageRec
    BY <1>1
  <2>3. (IF n = 0 THEN NewPage ELSE t.pages[n]) \in PageRec
    BY <2>1, <2>2
  <2>4. lv = [page |-> n, allocd |-> Len(t.allocd),
              space |-> IF n = 0 THEN NewPage ELSE t.pages[n]]
    BY DEF Level, Top
  <2> QED
    BY <1>1, <2>3, <2>4 DEF LevelRec
<1> HIDE DEF lv
<1>4. c \in Nat
  BY <1>3 DEF LevelRec, PageRec
<1>5. \A b \in C : b.page \in Nat /\ b.off \in Nat /\ b.size \in Nat \ {0}
  BY DEF Holds, Lie, Block
<1>6. \A b \in C : b.page = 0 => b.off \in 1..Len(t.allocd)
  BY DEF Holds, Lie
<1>7. \A b \in C : b.page # 0 => b.page \in 1..n /\ b.off + b.size <= t.pages[b.page].cur
  BY DEF Holds, Lie
<1>8. \A b \in C : b.page # 0 /\ b.page = n => b.off + b.size <= c
  BY <1>2, <1>7
<1>9. \A b \in C : b.page # 0 /\ b.page = n => b.off < c
  <2> HIDE DEF c
  <2> QED
    BY <1>4, <1>5, <1>8
<1>10. ASSUME n # 0
       PROVE  /\ n \in 1..n /\ PageOK(ps, lv.space) /\ c <= t.pages[n].cur
              /\ lv.space.used = SizeOf(InFront(C, n, c))
  <2>1. n \in 1..n /\ lv.space = t.pages[n]
    BY <1>1, <1>2, <1>10
  <2>2. PageOK(ps, t.pages[n]) /\ t.pages[n].used = SizeOf(InPage(C, n))
    BY <2>1 DEF Holds, Count
  <2>3. InFront(C, n, c) = InPage(C, n)
    <3> HIDE DEF c, n
    <3> QED
      BY <1>9, <1>10 DEF InFront, InPage
  <2>4. c <= c
    BY <1>4
  <2> QED
    BY <2>1, <2>2, <2>3, <2>4
<1>11. n = 0 => t.pages = <<>>
  BY <1>1
<1>12. \A b \in C : IF b.page = 0 THEN b.off <= lv.allocd
                    ELSE b.page < n \/ (b.page = n /\ b.off < c)
  <2>1. \A b \in C : b.page = 0 => b.off <= lv.allocd
    BY <1>1, <1>2, <1>6
  <2>2. \A b \in C : b.page # 0 => b.page < n \/ b.page = n
    <3> HIDE DEF n
    <3> QED
      BY <1>1, <1>5, <1>7
  <2> QED
    BY <1>9, <2>1, <2>2
<1>13. lv.allocd <= Len(t.allocd)
  BY <1>1, <1>2
<1> QED
  BY <1>2, <1>3, <1>8, <1>10, <1>11, <1>12, <1>13 DEF Covers, lv

\* Every other level was marked before it.
LEMMA LevelLast ==
  ASSUME NEW ps \in Int, NEW t, NEW C, Holds(ps, t, C), NEW lv, NEW M,
         Covers(ps, lv, t, C, M)
  PROVE  Before(lv, Level(t))
<1> DEFINE n == Len(t.pages)
           top == Level(t)
<1>1. t.pages \in Seq(PageRec) /\ n \in Nat
  BY DEF Holds, PoolRec
<1>2. /\ top.page = n /\ top.allocd = Len(t.allocd)
      /\ (n # 0 => top.space = t.pages[n])
  BY DEF Level, Top
<1>3. /\ lv.allocd <= Len(t.allocd) /\ lv.page \in Nat
      /\ lv.page = 0 => t.pages = <<>>
      /\ lv.page # 0 => lv.page \in 1..n /\ lv.space.cur <= t.pages[lv.page].cur
  BY DEF Covers, LevelRec
<1> HIDE DEF top
<1>4. CASE lv.page = 0
  <2>1. n = 0
    BY <1>3, <1>4
  <2> QED
    BY <1>2, <1>3, <1>4, <2>1 DEF Before, top
<1>5. CASE lv.page # 0
  <2>1. lv.page < n \/ lv.page = n
    <3> HIDE DEF n
    <3> QED
      BY <1>1, <1>3, <1>5
  <2>2. lv.page = n => lv.space.cur <= top.space.cur
    BY <1>2, <1>3, <1>5
  <2> QED
    BY <1>2, <1>3, <2>1, <2>2 DEF Before, top
<1> QED
  BY <1>4, <1>5

LEMMA MarkKeeps ==
  ASSUME PoolInv, NEW mem \in PoolMem, PoolMark(mem)
  PROVE  PoolInv'
<1> DEFINE t == palloc(LevelSize, TRUE, mem)
           C == blocks \cup NewBlock(t, LevelSize)
           k == Len(levels)
           lv == Level(t)
<1>1. LevelSize \in Nat \ {0} /\ pagesize \in Int
  BY PoolAssumption DEF PoolInv
<1>2. Holds(pagesize, t, C) /\ Grows(P, blocks, t, C)
  BY <1>1, PallocGrows
<1>3. /\ Becomes(t) /\ blocks' = C /\ pagesize' = pagesize
      /\ levels' = Append(levels, lv) /\ marked' = Append(marked, blocks')
  BY DEF PoolMark
<1> HIDE DEF t, C, lv
<1>4. /\ pagesize' \in {0, PoolPageSize} /\ (pages' = <<>> => pagesize' = 0)
      /\ P' = t /\ Holds(pagesize', P', blocks')
      /\ \A n \in 1..k :
           marked[n] # {} => Covers(pagesize', levels[n], P', blocks', marked[n])
  BY <1>2, <1>3, GrownHolds
<1>5. Covers(pagesize, lv, t, C, C) /\ lv \in LevelRec
  BY <1>1, <1>2, LevelCovers DEF lv, Covers
<1>6. C \in SUBSET Block
  BY <1>2 DEF Holds, Lie
<1>7. levels \in Seq(LevelRec) /\ marked \in Seq(SUBSET Block) /\ Len(marked) = k /\ k \in Nat
  BY DEF PoolInv
<1>8. /\ levels' \in Seq(LevelRec) /\ Len(levels') = k + 1 /\ levels'[k + 1] = lv
      /\ \A n \in 1..k : levels'[n] = levels[n]
  BY <1>3, <1>5, <1>7
<1>9. /\ marked' \in Seq(SUBSET Block) /\ Len(marked') = k + 1 /\ marked'[k + 1] = C
      /\ \A n \in 1..k : marked'[n] = marked[n]
  BY <1>3, <1>6, <1>7
<1> HIDE DEF k
<1>10. \A n \in 1..(k + 1) : n \in 1..k \/ n = k + 1
  BY <1>7
<1>11. \A n \in 1..(k + 1) :
         marked'[n] # {} => Covers(pagesize', levels'[n], P', blocks', marked'[n])
  BY <1>3, <1>4, <1>5, <1>8, <1>9, <1>10
<1>12. ASSUME NEW m \in 1..(k + 1), NEW n \in 1..(k + 1), m < n,
              marked'[m] # {}, marked'[n] # {}
       PROVE  Before(levels'[m], levels'[n])
  <2>1. m \in 1..k
    BY <1>7, <1>12
  <2>2. CASE n \in 1..k
    BY <1>8, <1>9, <1>12, <2>1, <2>2 DEF PoolInv, k
  <2>3. CASE n = k + 1
    <3>1. Covers(pagesize, levels[m], t, C, marked[m])
      BY <1>3, <1>4, <1>9, <1>12, <2>1
    <3>2. Before(levels[m], lv)
      BY <1>1, <1>2, <3>1, LevelLast DEF lv
    <3> QED
      BY <1>8, <2>1, <2>3, <3>2
  <2> QED
    BY <1>10, <2>2, <2>3
<1> QED
  BY <1>4, <1>8, <1>9, <1>11, <1>12 DEF PoolInv

\* Draining to level lv leaves the blocks that the model calls kept.
LEMMA DrainHolds ==
  ASSUME PoolInv, NEW lv, NEW M, Covers(pagesize, lv, P, blocks, M)
  PROVE  LET t == Drained(lv)
         IN  /\ Holds(pagesize, t, Kept(lv))
             /\ Len(t.pages) = lv.page /\ Len(t.allocd) = KeptAllocd(lv)
             /\ \A i \in 1..lv.page :
                  t.pages[i] = IF i = lv.page THEN lv.space ELSE pages[i]
<1> DEFINE k == KeptAllocd(lv)
           F == FreeAllocd(P, k)
           R == RemovePages(F, lv.page)
           B == Under(Low(blocks, k), lv.page)
           t == Drained(lv)
<1>1. /\ pagesize \in Int /\ Holds(pagesize, P, blocks) /\ P.pages = pages
      /\ P.allocd = allocd
  BY PoolAssumption DEF PoolInv, P
<1>2. Len(pages) \in Nat /\ Len(allocd) \in Nat
  BY <1>1 DEF Holds, PoolRec
<1>3. lv.allocd \in Nat /\ lv.allocd <= Len(allocd) /\ lv.page \in 0..Len(pages)
  BY <1>1, <1>2 DEF Covers, LevelRec
<1>4. k \in 0..Len(allocd) /\ lv.allocd <= k
  BY <1>2, <1>3 DEF KeptAllocd
<1> HIDE DEF k
<1>5. Holds(pagesize, F, Low(blocks, k)) /\ F.pages = pages /\ Len(F.allocd) = k
  BY <1>1, <1>4, HoldsFreed
<1> HIDE DEF F
<1>6. /\ Holds(pagesize, R, B) /\ Len(R.pages) = lv.page /\ R.allocd = F.allocd
      /\ \A j \in 1..lv.page : R.pages[j] = pages[j]
  BY <1>1, <1>3, <1>5, HoldsRemoved
<1> HIDE DEF R
<1>7. t = RollBack(R, lv)
  BY DEF Drained, R, F, k
<1> HIDE DEF t
<1>8. \A b \in blocks : b.page \in Nat /\ b.off \in Nat
  BY <1>1 DEF Holds, Lie, Block
<1>9. CASE lv.page = 0
  <2>1. t = R
    BY <1>7, <1>9 DEF RollBack
  <2>2. B = Kept(lv)
    <3>1. \A b \in blocks : (b.page <= 0 <=> b.page = 0) /\ ~(b.page < 0)
      BY <1>8
    <3> QED
      BY <1>9, <3>1 DEF Under, Low, Kept, k
  <2>3. 1..lv.page = {}
    BY <1>9
  <2> HIDE DEF B
  <2> QED
    BY <1>5, <1>6, <2>1, <2>2, <2>3 DEF t, k
<1>10. CASE lv.page # 0
  <2> DEFINE c == lv.space.cur
  <2>1. /\ lv.page \in 1..Len(pages) /\ PageOK(pagesize, lv.space) /\ lv \in LevelRec
        /\ c <= pages[lv.page].cur
        /\ lv.space.used = SizeOf(InFront(blocks, lv.page, c))
        /\ \A b \in blocks : b.page = lv.page => b.off + b.size <= c \/ b.off >= c
    BY <1>1, <1>10 DEF Covers
  <2>2. /\ \A b \in blocks : b.page = lv.page => b \in B
        /\ B \subseteq blocks
    BY <1>3, <1>8, <1>10 DEF Under, Low
  <2>3. InFront(B, lv.page, c) = InFront(blocks, lv.page, c)
    <3> HIDE DEF B, c
    <3> QED
      BY <2>2 DEF InFront
  <2>4. lv.page \in 1..lv.page
    BY <1>3, <1>10
  <2>5. Covers(pagesize, lv, R, B, {})
    <3> HIDE DEF B
    <3>1. lv.allocd <= Len(R.allocd)
      BY <1>4, <1>5, <1>6
    <3>2. lv.page \in 1..Len(R.pages) /\ c <= R.pages[lv.page].cur
      BY <1>6, <2>1, <2>4
    <3>3. lv.space.used = SizeOf(InFront(B, lv.page, c))
      BY <2>1, <2>3
    <3> QED
      BY <1>10, <2>1, <2>2, <3>1, <3>2, <3>3 DEF Covers
  <2>6. Left(B, lv.page, c) = Kept(lv)
    <3>1. \A b \in blocks : b.page <= lv.page <=> b.page < lv.page \/ b.page = lv.page
      BY <1>3, <1>8
    <3>2. \A b \in blocks : b.page = 0 => b.page <= lv.page /\ b.page # lv.page
      BY <1>3, <1>10
    <3>3. \A b \in blocks : b.page < lv.page => b.page # lv.page
      BY <1>3, <1>8
    <3> QED
      BY <3>1, <3>2, <3>3 DEF Left, Under, Low, Kept, k
  <2> HIDE DEF B
  <2>7. /\ Holds(pagesize, t, Left(B, lv.page, c)) /\ Len(t.pages) = lv.page
        /\ t.allocd = R.allocd /\ t.pages[lv.page] = lv.space
        /\ \A i \in 1..lv.page : i # lv.page => t.pages[i] = R.pages[i]
    BY <1>1, <1>6, <1>7, <1>10, <2>5, HoldsRollBack
  <2> HIDE DEF c
  <2> QED
    BY <1>5, <1>6, <2>6, <2>7 DEF t, k
<1> QED
  BY <1>9, <1>10

\* A level that was marked before lv is good after a drain to lv.
LEMMA DrainCovers ==
  ASSUME PoolInv, NEW lv, NEW M, Covers(pagesize, lv, P, blocks, M),
         NEW lm, NEW N, Covers(pagesize, lm, P, blocks, N), Before(lm, lv)
  PROVE  Covers(pagesize, lm, Drained(lv), Kept(lv), N)
<1> DEFINE t == Drained(lv)
           K == Kept(lv)
           c == lm.space.cur
           d == lv.space.cur
<1>1. /\ pagesize \in Int /\ Holds(pagesize, P, blocks) /\ P.pages = pages
      /\ P.allocd = allocd
  BY PoolAssumption DEF PoolInv, P
<1>2. Len(pages) \in Nat /\ Len(allocd) \in Nat
  BY <1>1 DEF Holds, PoolRec
<1>3. /\ lv.allocd \in Nat /\ lv.page \in Nat /\ d \in Nat
      /\ lm.allocd \in Nat /\ lm.page \in Nat /\ c \in Nat
  BY DEF Covers, LevelRec, PageRec
<1>4. /\ Len(t.pages) = lv.page /\ Len(t.allocd) = KeptAllocd(lv)
      /\ \A i \in 1..lv.page :
           t.pages[i] = IF i = lv.page THEN lv.space ELSE pages[i]
      /\ t.pages \in Seq(PageRec)
  BY DrainHolds DEF Holds, PoolRec
<1> HIDE DEF t
<1>5. \A b \in blocks : b.page \in Nat /\ b.off \in Nat
  BY <1>1 DEF Holds, Lie, Block
<1>6. lm.allocd <= Len(allocd) /\ lm.allocd <= lv.allocd
  BY <1>1 DEF Covers, Before
<1>7. lm.allocd <= KeptAllocd(lv)
  BY <1>6 DEF KeptAllocd
<1>8. \/ lm.page < lv.page
      \/ lm.page = lv.page /\ (lm.page # 0 => c <= d)
  BY DEF Before
<1>9. lm.page = 0 => t.pages = <<>>
  <2> SUFFICES ASSUME lm.page = 0
               PROVE  t.pages = <<>>
    OBVIOUS
  <2>1. pages = <<>>
    BY <1>1 DEF Covers
  <2>2. Len(pages) = 0
    BY <2>1
  <2>3. lv.page # 0 => lv.page \in 1..Len(pages)
    BY <1>1 DEF Covers
  <2>4. lv.page = 0
    BY <1>3, <2>2, <2>3
  <2> QED
    BY <1>4, <2>4
<1>10. \A b \in blocks : IF b.page = 0 THEN b.off <= lm.allocd => b \in K
                         ELSE /\ b.page < lm.page => b \in K
                              /\ b.page = lm.page /\ b.off < c => b \in K
  <2> SUFFICES ASSUME NEW b \in blocks
               PROVE  IF b.page = 0 THEN b.off <= lm.allocd => b \in K
                      ELSE /\ b.page < lm.page => b \in K
                           /\ b.page = lm.page /\ b.off < c => b \in K
    OBVIOUS
  <2>0. /\ b.page = 0 /\ b.off <= KeptAllocd(lv) => b \in K
        /\ b.page # 0 /\ (b.page < lv.page \/ (b.page = lv.page /\ b.off < d)) => b \in K
    BY DEF Kept
  <2> HIDE DEF K, c, d
  <2>1. b.page = 0 /\ b.off <= lm.allocd => b.off <= KeptAllocd(lv)
    <3>1. KeptAllocd(lv) \in Nat
      BY <1>2, <1>3 DEF KeptAllocd
    <3> QED
      BY <1>3, <1>5, <1>7, <3>1
  <2>2. b.page # 0 /\ b.page < lm.page => b.page < lv.page
    BY <1>3, <1>5, <1>8
  <2>3. b.page # 0 /\ b.page = lm.page /\ b.off < c =>
          b.page < lv.page \/ (b.page = lv.page /\ b.off < d)
    BY <1>3, <1>5, <1>8
  <2> QED
    BY <2>0, <2>1, <2>2, <2>3
<1>11. \A b \in K : b \in blocks
  BY DEF Kept
<1> HIDE DEF K
<1>12. N \subseteq K
  BY <1>10 DEF Covers
<1>13. ASSUME lm.page # 0
       PROVE  /\ lm.page \in 1..Len(t.pages) /\ c <= t.pages[lm.page].cur
              /\ InFront(K, lm.page, c) = InFront(blocks, lm.page, c)
  <2>1. lm.page \in 1..Len(pages) /\ c <= pages[lm.page].cur
    BY <1>1, <1>13 DEF Covers
  <2>2. lm.page \in 1..lv.page
    BY <1>3, <1>8, <1>13
  <2>3. c <= t.pages[lm.page].cur
    <3>1. CASE lm.page = lv.page
      <4>1. t.pages[lm.page] = lv.space
        BY <1>4, <2>2, <3>1
      <4>2. c <= d
        BY <1>3, <1>8, <1>13, <3>1
      <4> QED
        BY <4>1, <4>2
    <3>2. CASE lm.page # lv.page
      BY <1>4, <2>1, <2>2, <3>2
    <3> QED
      BY <3>1, <3>2
  <2>4. InFront(K, lm.page, c) = InFront(blocks, lm.page, c)
    <3> HIDE DEF c
    <3> QED
      BY <1>10, <1>11, <1>13 DEF InFront
  <2> QED
    BY <1>4, <2>2, <2>3, <2>4
<1>14. lm.page # 0 => /\ PageOK(pagesize, lm.space)
                      /\ lm.space.used = SizeOf(InFront(blocks, lm.page, c))
                      /\ \A b \in blocks : b.page = lm.page =>
                           b.off + b.size <= c \/ b.off >= c
  BY DEF Covers
<1>15. lm \in LevelRec /\ lm.allocd <= Len(t.allocd)
  BY <1>4, <1>7 DEF Covers
<1>16. \A b \in N : IF b.page = 0 THEN b.off <= lm.allocd
                    ELSE b.page < lm.page \/ (b.page = lm.page /\ b.off < c)
  BY DEF Covers
<1>17. Covers(pagesize, lm, t, K, N)
  BY <1>9, <1>11, <1>12, <1>13, <1>14, <1>15, <1>16 DEF Covers
<1> QED
  BY <1>17 DEF t, K

LEMMA DrainKeepsAll ==
  ASSUME PoolInv, NEW n \in 1..MaxLevels, PoolDrain(n)
  PROVE  PoolInv'
<1> DEFINE lv == levels[n]
           t == Drained(lv)
           k == Len(levels)
<1>1. levels \in Seq(LevelRec) /\ marked \in Seq(SUBSET Block) /\ Len(marked) = k /\ k \in Nat
  BY DEF PoolInv
<1>2. /\ n \in DOMAIN levels /\ marked[n] # {} /\ Becomes(t) /\ blocks' = Kept(lv)
      /\ marked' = [i \in DOMAIN marked |-> IF i > n THEN {} ELSE marked[i]]
      /\ pagesize' = pagesize /\ levels' = levels
  BY DEF PoolDrain
<1>3. n \in 1..k
  BY <1>1, <1>2
<1>4. Covers(pagesize, lv, P, blocks, marked[n])
  BY <1>2, <1>3 DEF PoolInv
<1>5. Holds(pagesize, t, Kept(lv)) /\ Len(t.pages) = lv.page
  BY <1>4, DrainHolds
<1> HIDE DEF t
<1>6. P' = t /\ pages' = t.pages
  BY <1>2, <1>5, BecomesPool DEF Holds
<1>7. /\ marked' \in Seq(SUBSET Block) /\ Len(marked') = k
      /\ \A i \in 1..k : marked'[i] = IF i > n THEN {} ELSE marked[i]
  <2>1. DOMAIN marked = 1..k
    BY <1>1
  <2>2. \A i \in 1..k : marked[i] \in SUBSET Block
    BY <1>1
  <2> DEFINE w == [i \in 1..k |-> IF i > n THEN {} ELSE marked[i]]
  <2>3. marked' = w
    BY <1>2, <2>1
  <2>4. \A i \in 1..k : w[i] \in SUBSET Block
    BY <2>2
  <2>5. w \in [1..k -> SUBSET Block]
    BY <2>4
  <2>6. \A i \in 1..k : w[i] = IF i > n THEN {} ELSE marked[i]
    OBVIOUS
  <2> HIDE DEF w, k
  <2>7. w \in Seq(SUBSET Block) /\ Len(w) = k
    BY <1>1, <2>5
  <2> QED
    BY <2>3, <2>6, <2>7
<1>8. ASSUME NEW m \in 1..k, marked'[m] # {}
      PROVE  m <= n /\ marked'[m] = marked[m] /\ marked[m] # {}
  BY <1>1, <1>3, <1>7, <1>8
<1>9. ASSUME NEW m \in 1..k, marked'[m] # {}
      PROVE  Covers(pagesize, levels[m], t, Kept(lv), marked'[m])
  <2>1. m <= n /\ marked'[m] = marked[m] /\ marked[m] # {}
    BY <1>8, <1>9
  <2>2. Covers(pagesize, levels[m], P, blocks, marked[m])
    BY <2>1 DEF PoolInv
  <2>3. Before(levels[m], lv)
    <3>1. CASE m = n
      <4>1. lv.allocd \in Nat /\ lv.space.cur \in Nat
        BY <1>4 DEF Covers, LevelRec, PageRec
      <4>2. lv.allocd <= lv.allocd /\ lv.space.cur <= lv.space.cur
        BY <4>1
      <4> QED
        BY <3>1, <4>2 DEF Before
    <3>2. CASE m # n
      <4>1. m < n
        BY <1>1, <1>3, <2>1, <3>2
      <4> QED
        BY <1>2, <1>3, <2>1, <4>1 DEF PoolInv
    <3> QED
      BY <3>1, <3>2
  <2> HIDE DEF lv
  <2> QED
    BY <1>4, <2>1, <2>2, <2>3, DrainCovers DEF t
<1>10. ASSUME NEW i \in 1..k, NEW j \in 1..k, i < j, marked'[i] # {}, marked'[j] # {}
       PROVE  Before(levels[i], levels[j])
  BY <1>8, <1>10 DEF PoolInv
<1>11. pages' = <<>> => pagesize = 0
  <2> SUFFICES ASSUME pages' = <<>>
               PROVE  pagesize = 0
    OBVIOUS
  <2>1. lv.page = 0
    BY <1>5, <1>6
  <2>2. P.pages = <<>>
    BY <1>4, <2>1 DEF Covers
  <2> QED
    BY <2>2 DEF P, PoolInv
<1>12. pagesize \in {0, PoolPageSize}
  BY DEF PoolInv
<1> HIDE DEF lv
<1> QED
  BY <1>1, <1>2, <1>5, <1>6, <1>7, <1>9, <1>10, <1>11, <1>12 DEF PoolInv

LEMMA DrainAllKeeps ==
  ASSUME PoolInv, PoolDrainAll
  PROVE  PoolInv'
<1> DEFINE F == FreeAllocd(P, 0)
           R == RemovePages(F, 0)
           t == [R EXCEPT !.space = NoSpace]
           e == [pages |-> <<>>, allocd |-> <<>>, space |-> NoSpace]
<1>1. pagesize \in Int /\ Holds(pagesize, P, blocks)
  BY PoolAssumption DEF PoolInv
<1>2. 0 \in 0..Len(P.allocd)
  BY <1>1 DEF Holds, PoolRec
<1>3. Holds(pagesize, F, Low(blocks, 0)) /\ Len(F.allocd) = 0
  BY <1>1, <1>2, HoldsFreed
<1> HIDE DEF F
<1>4. 0 \in 0..Len(F.pages)
  BY <1>3 DEF Holds, PoolRec
<1>5. /\ Holds(pagesize, R, Under(Low(blocks, 0), 0)) /\ Len(R.pages) = 0
      /\ R.allocd = F.allocd
  BY <1>1, <1>3, <1>4, HoldsRemoved
<1>6. /\ Becomes(t) /\ pagesize' = 0 /\ levels' = <<>> /\ blocks' = {} /\ marked' = <<>>
  BY DEF PoolDrainAll, F
<1> HIDE DEF R
<1>7. R \in PoolRec /\ R.pages = <<>> /\ R.allocd = <<>>
  BY <1>3, <1>5 DEF Holds, PoolRec
<1>8. t = e
  BY <1>7 DEF PoolRec
<1>9. Holds(0, e, {})
  BY HoldsNothing
<1>10. e \in PoolRec
  BY <1>9 DEF Holds
<1> HIDE DEF e, t
<1>11. P' = e
  BY <1>6, <1>8, <1>10, BecomesPool
<1>12. levels' \in Seq(LevelRec) /\ marked' \in Seq(SUBSET Block) /\ Len(levels') = 0
       /\ Len(marked') = 0
  BY <1>6
<1> QED
  BY <1>6, <1>9, <1>11, <1>12 DEF PoolInv

LEMMA PoolStep ==
  PoolInv /\ [PoolNext]_poolVars => PoolInv'
<1> SUFFICES ASSUME PoolInv, [PoolNext]_poolVars
             PROVE  PoolInv'
  OBVIOUS
<1>1. CASE \E sz \in PoolSizes, al \in BOOLEAN, mem \in PoolMem : PoolAlloc(sz, al, mem)
  BY <1>1, AllocKeeps
<1>2. CASE \E mem \in PoolMem : PoolMark(mem)
  BY <1>2, MarkKeeps
<1>3. CASE \E n \in 1..MaxLevels : PoolDrain(n)
  BY <1>3, DrainKeepsAll
<1>4. CASE PoolDrainAll
  BY <1>4, DrainAllKeeps
<1>5. CASE UNCHANGED poolVars
  BY <1>5 DEF poolVars, PoolInv, P
<1> QED
  BY <1>1, <1>2, <1>3, <1>4, <1>5 DEF PoolNext

\* What the invariant is for.
LEMMA InvIntact == PoolInv => PoolIntact
<1> SUFFICES ASSUME PoolInv
             PROVE  PoolIntact
  OBVIOUS
<1>1. /\ Holds(pagesize, P, blocks) /\ P.pages = pages /\ P.allocd = allocd
      /\ P.space = space
  BY DEF PoolInv, P
<1>2. pages \in Seq(PageRec) /\ allocd \in Seq(Nat)
  BY <1>1 DEF Holds, PoolRec
<1>3. DOMAIN pages = 1..Len(pages) /\ DOMAIN allocd = 1..Len(allocd)
  BY <1>2
<1>4. PoolNoOverlap
  BY <1>1, <1>3 DEF PoolNoOverlap, Holds, Lie
<1>5. PoolDrainKeeps
  <2> SUFFICES ASSUME NEW n \in DOMAIN marked
               PROVE  marked[n] \subseteq blocks
    BY DEF PoolDrainKeeps
  <2>1. n \in 1..Len(levels)
    BY DEF PoolInv
  <2>2. CASE marked[n] = {}
    BY <2>2
  <2>3. CASE marked[n] # {}
    BY <2>1, <2>3 DEF PoolInv, Covers
  <2> QED
    BY <2>2, <2>3
<1>6. PoolAccounting
  BY <1>1 DEF PoolAccounting, FreeIn, Holds, Count, InPages, NotInPage
<1> QED
  BY <1>4, <1>5, <1>6 DEF PoolIntact

\* For pages, headers, alignments and sizes of any number of bytes and any
\* number of levels: blocks in use never share memory and lie inside their
\* pages, no drain frees what was in use when its level was marked, and the
\* space counters say what the pages and blocks add up to (pool.c).
THEOREM PoolStaysIntact == PoolSpec => []PoolIntact
<1>1. PoolInit => PoolInv
  BY PoolStarts
<1>2. PoolInv /\ [PoolNext]_poolVars => PoolInv'
  BY PoolStep
<1>3. PoolInv => PoolIntact
  BY InvIntact
<1> QED
  BY <1>1, <1>2, <1>3, PTL DEF PoolSpec
=============================================================================
