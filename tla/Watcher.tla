------------------------------- MODULE Watcher -------------------------------
(***************************************************************************)
(* The watchers of Lua code (core_lua_api.c, watchers.c): timers and IO    *)
(* watchers that call a function or resume a coroutine.  libev keeps a     *)
(* pointer to a watcher it may call, and the watcher is memory of the      *)
(* garbage collector: starting it puts a reference into the Lua registry,  *)
(* stopping it takes the reference out.  The handler is a second reference.*)
(*                                                                         *)
(* External: libev marks a watcher pending when its event happens and      *)
(* calls pending watchers later; a timer without repeat is stopped when it *)
(* fires.  luaL_ref gives the slot released last to the next reference.    *)
(***************************************************************************)
EXTENDS Integers, Sequences

CONSTANTS
  NWatchers,     \* number of watchers created
  NCoros,        \* number of coroutines
  MaxHandlerSets \* bound on the handlers given to watchers after their creation

VARIABLES
  wt,            \* the watchers
  reg,           \* the registry: its slots, and the free ones
  co,            \* each coroutine: waits on a watcher or elsewhere, or is dead
  lua,           \* the Lua code that runs: in a callback of w, as coroutine c
  given,         \* history: the handler each watcher was given last
  sets,          \* counts the handlers given, for the bound
  nilled,        \* history: nil was assigned to a handler
  crash          \* why the process ended, or "no"

watcherVars == <<wt, reg, co, lua, given, sets, nilled, crash>>

Watchers == 1..NWatchers
Coros == 1..NCoros
\* A timer without or with repeat, or a watcher for io, a signal or a child.
Types == {"once", "repeat", "io"}
NOREF == 0
NoLua == [on |-> FALSE, w |-> 0, c |-> 0, own |-> TRUE]
None == <<"none", 0>>

ASSUME WatcherAssumption ==
  /\ NWatchers \in Nat /\ NCoros \in Nat
  /\ MaxHandlerSets \in Nat

\* (retimed is history: a timer that had fired was made to repeat.)
Fresh == [life |-> "none", type |-> "once", active |-> FALSE, pending |-> FALSE,
          self |-> NOREF, handler |-> NOREF, thread |-> 0, retimed |-> FALSE]
WatcherInit ==
  /\ wt = [w \in Watchers |-> Fresh]
  /\ reg = [slot |-> <<>>, free |-> <<>>]
  /\ co = [c \in Coros |-> "elsewhere"]
  /\ lua = NoLua /\ crash = "no" /\ sets = 0 /\ nilled = FALSE
  /\ given = [w \in Watchers |-> None]
-----------------------------------------------------------------------------
(* The registry and libev.                                                 *)

\* luaL_ref and luaL_unref.
NextRef(g) == IF g.free # <<>> THEN Head(g.free) ELSE Len(g.slot) + 1
Ref(g, v) ==
  IF g.free # <<>>
  THEN [slot |-> [g.slot EXCEPT ![Head(g.free)] = v], free |-> Tail(g.free)]
  ELSE [slot |-> Append(g.slot, v), free |-> <<>>]
Unref(g, r) ==
  IF r = NOREF THEN g
  ELSE [slot |-> [g.slot EXCEPT ![r] = None], free |-> <<r>> \o g.free]
Registered(r) == IF r \in DOMAIN reg.slot THEN reg.slot[r] ELSE None

\* shuso_ev_*_init, _start and _stop.
Ev(call, r) ==
  CASE call = "start" -> [r EXCEPT !.active = TRUE]
    [] OTHER -> [r EXCEPT !.active = FALSE, !.pending = FALSE]
\* The repeat of a timer is set, whatever the timer is doing.
Timed(r, t) ==
  [r EXCEPT !.type = t,
            !.retimed = @ \/ (t = "repeat" /\ ~r.active /\ r.self # NOREF)]

\* Lua_watcher_stop: lua_watcher_unref forgets the coroutine, but keeps the
\* handler.
Stopped(s, w) ==
  [wt |-> [s.wt EXCEPT ![w] = [Ev("stop", @) EXCEPT !.self = NOREF,
             !.retimed = FALSE,
             !.thread = IF s.wt[w].self = NOREF THEN s.wt[w].thread ELSE 0]],
   reg |-> Unref(s.reg, s.wt[w].self)]

\* Mutant: no reference is kept while the watcher is active.
Started_Unpinned(s, w) ==
  [s EXCEPT !.wt[w] = IF @.active \/ @.handler = NOREF THEN @
                      ELSE Ev("start", @)]
\* Lua_watcher_start, which raises an error when active, without a handler, or,
\* once it has started the watcher, when it is referenced already.
Started(s, w) ==
  LET r == s.wt[w] IN
  IF r.active \/ r.handler = NOREF THEN s
  ELSE IF r.self # NOREF THEN [s EXCEPT !.wt[w] = Ev("start", @)]
  ELSE [wt |-> [s.wt EXCEPT ![w] = [Ev("start", @) EXCEPT
                                      !.self = NextRef(s.reg)]],
        reg |-> Ref(s.reg, <<"self", w>>)]

Now == [wt |-> wt, reg |-> reg]
-----------------------------------------------------------------------------
(* What Lua code does.                                                     *)

Handlers(w) == {<<"fn", w>>} \cup {<<"co", c>> : c \in Coros}
Usable(w) == lua.on /\ wt[w].life = "live"
WatcherIs(s) == wt' = s.wt /\ reg' = s.reg
Runs == UNCHANGED <<co, lua, crash>>
Keeps == UNCHANGED <<given, sets, nilled>>
Sets == sets < MaxHandlerSets /\ sets' = sets + 1
\* The call for a watcher of type u may set type t and handler h: for a timer
\* it takes a repeat or a handler, not both.
SetArgs(u, t, h) ==
  IF u = "io" THEN t = "io" ELSE t # "io" /\ (h # None => t = "once")

\* Mutant: the handler given before stays in its slot.
Handled_Keeps(s, w, v) ==
  [wt |-> [s.wt EXCEPT ![w].handler = IF @ = NOREF THEN NextRef(s.reg) ELSE @],
   reg |-> Ref(s.reg, v)]
\* The end of Lua_watcher_set: the new handler is referenced first.
Handled(s, w, v) ==
  [wt |-> [s.wt EXCEPT ![w].handler = NextRef(s.reg)],
   reg |-> Unref(Ref(s.reg, v), s.wt[w].handler)]

\* Lua_shuso_new_watcher.
WatcherNew(w) ==
  /\ lua.on /\ wt[w].life = "none" /\ \A v \in 1..(w - 1) : wt[v].life # "none"
  /\ \E t \in Types, h \in Handlers(w) \cup {None} :
       LET s == [Now EXCEPT !.wt[w] = [Fresh EXCEPT
                   !.life = "live", !.type = t]]
       IN  /\ SetArgs(t, t, h)
           /\ WatcherIs(IF h = None THEN s ELSE Handled(s, w, h))
           /\ given' = [given EXCEPT ![w] = h]
  /\ UNCHANGED <<sets, nilled>> /\ Runs

\* Lua_watcher_set, refused while libev has the watcher: the timer is set anew,
\* and the handler is replaced if the call has one.
WatcherSet(w) ==
  /\ Usable(w) /\ ~wt[w].active /\ ~wt[w].pending
  /\ \E t \in Types, h \in Handlers(w) \cup {None} :
       LET s == [Now EXCEPT !.wt[w] = Timed(Ev("init", @), t)]
       IN  /\ SetArgs(wt[w].type, t, h)
           /\ IF h = None THEN WatcherIs(s) /\ UNCHANGED <<given, sets>>
              ELSE /\ WatcherIs(Handled(s, w, h)) /\ Sets
                   /\ given' = [given EXCEPT ![w] = h]
  /\ UNCHANGED nilled /\ Runs

\* Lua_watcher_newindex of handler: the old one is released first; nil leaves
\* its number in place.
WatcherAssign(w) ==
  /\ Usable(w) /\ Sets
  /\ \E h \in Handlers(w) \cup {None} :
       LET g == Unref(reg, wt[w].handler)
           keep == IF wt[w].handler = NOREF THEN wt[w].thread ELSE 0
       IN  /\ IF h = None
              THEN /\ wt' = [wt EXCEPT ![w].thread = keep]
                   /\ reg' = g
              ELSE /\ wt' = [wt EXCEPT ![w].handler = NextRef(g),
                        ![w].thread = IF h[1] = "co" THEN h[2] ELSE 0]
                   /\ reg' = Ref(g, h)
           /\ given' = [given EXCEPT ![w] = h]
           /\ nilled' = (nilled \/ h = None)
  /\ Runs
\* Lua_watcher_newindex of repeat.
WatcherRepeat(w) ==
  /\ Usable(w) /\ wt[w].type # "io"
  /\ \E t \in {"once", "repeat"} : wt' = [wt EXCEPT ![w] = Timed(@, t)]
  /\ UNCHANGED reg /\ Keeps /\ Runs

WatcherStart(w) == Usable(w) /\ WatcherIs(Started(Now, w)) /\ Keeps /\ Runs
WatcherStop(w) == Usable(w) /\ WatcherIs(Stopped(Now, w)) /\ Keeps /\ Runs

\* Lua_watcher_gc, once neither Lua code nor the registry refers to the
\* watcher; the reference to the handler stays in the registry.  (The fields of
\* a collected watcher are not read again, but for its type.)
WatcherGc(w) ==
  /\ Usable(w)
  /\ \A r \in DOMAIN reg.slot : reg.slot[r] # <<"self", w>>
  /\ wt' = [wt EXCEPT ![w].life = "gone", ![w].handler = NOREF,
                      ![w].thread = 0]
  /\ UNCHANGED reg /\ Keeps /\ Runs
-----------------------------------------------------------------------------
(* Callbacks.                                                              *)

\* Mutant: only a coroutine that is done stops its watcher.
Callback_NoTimer(s, rc) ==
  IF lua.w = 0 \/ ~(lua.c # 0 /\ rc = "ok")
  THEN WatcherIs(s) /\ UNCHANGED crash
  ELSE WatcherIs(Stopped(s, lua.w)) /\ UNCHANGED crash
\* The end of watcher_callback, after the handler: when the coroutine is done
\* or the timer does not repeat, the watcher is looked up by its reference
\* once more and stopped.
Callback(s, rc) ==
  IF lua.w = 0 \/ ~(\/ lua.c # 0 /\ rc = "ok"
                    \/ s.wt[lua.w].type = "once")
  THEN WatcherIs(s) /\ UNCHANGED crash
  ELSE IF s.wt[lua.w].life = "gone" \/ s.wt[lua.w].self = NOREF
  THEN WatcherIs(s) /\ crash' = "no watcher"
  ELSE WatcherIs(Stopped(s, lua.w)) /\ UNCHANGED crash

\* Lua_watcher_yield; it is refused for a watcher with another handler.
WatcherYield(w) ==
  /\ Usable(w) /\ lua.c # 0
  /\ IF wt[w].thread = lua.c
     THEN /\ crash' = "assert"
          /\ UNCHANGED <<wt, reg, co, lua, given>>
     ELSE /\ wt[w].handler = NOREF
          /\ LET s == Started([wt |-> [wt EXCEPT ![w].handler = NextRef(reg),
                                                 ![w].thread = lua.c],
                               reg |-> Ref(reg, <<"co", lua.c>>)], w)
             IN  Callback(s, "yield")
          /\ co' = [co EXCEPT ![lua.c] = "waits"]
          /\ lua' = NoLua
          /\ given' = [given EXCEPT ![w] = <<"co", lua.c>>]
  /\ UNCHANGED <<sets, nilled>>

\* The Lua code returns, raises an error, or waits for something else.
WatcherReturn ==
  /\ lua.on
  /\ \E rc \in IF lua.c = 0 THEN {"ok"} ELSE {"ok", "error", "yield"} :
       /\ Callback(Now, rc)
       /\ co' = IF lua.c = 0 THEN co
                ELSE [co EXCEPT ![lua.c] =
                        IF rc = "yield" THEN "elsewhere" ELSE "dead"]
  /\ lua' = NoLua /\ Keeps

\* Other Lua code runs: from another event, or a coroutine woken by one.
WatcherOther ==
  /\ ~lua.on
  /\ \E c \in {0} \cup {d \in Coros : co[d] = "elsewhere"} :
       lua' = [on |-> TRUE, w |-> 0, c |-> c, own |-> TRUE]
  /\ UNCHANGED <<wt, reg, co, crash>> /\ Keeps

\* The event of an active watcher happens.
WatcherFire(w) ==
  /\ ~lua.on /\ wt[w].active /\ ~wt[w].pending
  /\ wt' = [wt EXCEPT ![w].pending = TRUE,
                      ![w].active = wt[w].type # "once"]
  /\ UNCHANGED <<reg, co, lua, crash>> /\ Keeps

\* luaS_resume: a coroutine that has ended cannot be resumed.
Resumes(c) == co[c] # "dead"

\* watcher_callback, up to its handler: what is neither a function nor a
\* coroutine cannot be called.
WatcherInvoke(w) ==
  /\ ~lua.on /\ wt[w].pending
  /\ LET v == Registered(wt[w].handler)
         called == [wt EXCEPT ![w].pending = FALSE]
     IN  CASE v[1] = "co" /\ ~Resumes(v[2]) ->
                /\ WatcherIs(IF wt[w].type = "once"
                           THEN Stopped([Now EXCEPT !.wt = called], w)
                           ELSE [Now EXCEPT !.wt = called])
                /\ UNCHANGED <<co, lua, crash>>
           [] v[1] = "fn" \/ (v[1] = "co" /\ Resumes(v[2])) ->
                /\ WatcherIs([Now EXCEPT !.wt = called])
                /\ lua' = [on |-> TRUE, w |-> w,
                           c |-> IF v[1] = "co" THEN v[2] ELSE 0,
                           own |-> v = given[w]]
                /\ co' = IF v[1] = "co" THEN [co EXCEPT ![v[2]] = "elsewhere"]
                         ELSE co
                /\ UNCHANGED crash
           [] OTHER ->
                /\ crash' = "not a function"
                /\ UNCHANGED <<wt, reg, co, lua>>
  /\ Keeps

WatcherLua == WatcherOther \/ WatcherReturn \/ \E w \in Watchers :
  \/ WatcherNew(w) \/ WatcherSet(w) \/ WatcherAssign(w) \/ WatcherRepeat(w)
  \/ WatcherStart(w) \/ WatcherStop(w) \/ WatcherGc(w)
  \/ WatcherYield(w)
WatcherNext ==
  /\ crash = "no"
  /\ WatcherLua \/ \E w \in Watchers : WatcherFire(w) \/ WatcherInvoke(w)
-----------------------------------------------------------------------------
(* Properties.                                                             *)
(*                                                                         *)
(* nil releases a handler's slot and leaves its number in the watcher, so  *)
(* that the slot may soon be another's: nothing is claimed after that.     *)

\* libev never holds a watcher the garbage collector may take: as long as it
\* may call one, the registry refers to it (lua_watcher_ref, lua_watcher_unref).
WatcherPinned ==
  \A w \in Watchers : wt[w].active \/ wt[w].pending =>
    /\ wt[w].life = "live"
    /\ Registered(wt[w].self) = <<"self", w>>

\* A watcher nobody will call again is not kept by the registry: the trailing
\* stop of watcher_callback releases a timer that libev has stopped itself.
\* But it looks at the repeat as it is then: a timer that was made to repeat
\* after it fired is neither called again nor released, until it is stopped.
WatcherReleased ==
  \A w \in Watchers :
    ~wt[w].active /\ ~wt[w].pending /\ ~wt[w].retimed /\ lua.w # w /\ crash = "no"
      => \A r \in DOMAIN reg.slot : reg.slot[r] # <<"self", w>>

\* Until nil is assigned to one, a callback runs the handler its watcher was
\* given last, though slots of the registry are given out again
\* (Lua_watcher_set, Lua_watcher_newindex).
WatcherRunsOwn == ~nilled => lua.own /\ crash # "not a function"

\* The assertions of Lua_watcher_yield hold.
WatcherYieldAsserts == crash # "assert"

\* Until nil is assigned to a handler, the registry keeps a watcher alive
\* exactly as long as libev may call it.
WatcherHeld == ~nilled => WatcherPinned /\ WatcherReleased
=============================================================================
