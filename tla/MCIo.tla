-------------------------------- MODULE MCIo --------------------------------
(***************************************************************************)
(* The IO coroutines with each of the coroutines the program runs on them: *)
(* one that does any operation, one driven from Lua, a listener, and the   *)
(* sender of descriptors with the receiver at the other end.  Which one    *)
(* runs is chosen at the start; the others stay as they are.               *)
(***************************************************************************)
EXTENDS LuaIo, Listener, FdPassing

CONSTANT Kinds
VARIABLE kind

ASSUME KindsAssumption == Kinds \subseteq {"plain", "lua", "listener", "fd"}

MCVectors == {<<1>>, <<3>>, <<2, 2>>}

luaOwn == <<ld, running>>
listenerOwn == <<lstage, backlog, made, published, stopping>>
fdOwn == <<fdbuf, fdstage, msg, wire, got, rx, refs, slot, timers, started,
           ended, fault>>
vars == <<ioVars, luaOwn, listenerOwn, fdOwn, kind>>

LuaIdle == ld = [op |-> "none", complete |-> TRUE, partial |-> FALSE,
                 buf |-> FALSE, ref |-> FALSE] /\ running = FALSE
ListenerIdle ==
  /\ lstage = "off" /\ backlog = 0 /\ made = 0 /\ stopping = FALSE
  /\ published = [taken |-> 0, closed |-> 0, bad |-> 0]
FdIdle ==
  /\ fdbuf = buffer_init("heap") /\ fdstage = "start" /\ msg = NoLink
  /\ wire = <<>> /\ got = <<>> /\ rx = FALSE
  /\ refs = [r \in 1..MaxRefs |-> 0]
  /\ slot = NoTimer /\ timers = {} /\ started = 0 /\ ended = {}
  /\ fault = {}

Init ==
  /\ kind \in Kinds
  /\ CASE kind = "plain" -> /\ IoInit({{"r"}, {"w"}, {"r", "w"}}, FALSE)
                            /\ LuaIdle /\ ListenerIdle /\ FdIdle
       [] kind = "lua" -> LuaIoInit /\ ListenerIdle /\ FdIdle
       [] kind = "listener" -> ListenerInit /\ LuaIdle /\ FdIdle
       [] kind = "fd" -> FdInit /\ LuaIdle /\ ListenerIdle

Plain == kind = "plain" /\ IoNext /\ UNCHANGED <<luaOwn, listenerOwn, fdOwn>>
Lua == kind = "lua" /\ LuaIoNext /\ UNCHANGED <<listenerOwn, fdOwn>>
Listen == kind = "listener" /\ ListenerNext /\ UNCHANGED <<luaOwn, fdOwn>>
Pass == kind = "fd" /\ FdNext /\ UNCHANGED <<luaOwn, listenerOwn>>

Next == (Plain \/ Lua \/ Listen \/ Pass) /\ UNCHANGED kind

\* The event loop runs, and its system calls return.
Fairness ==
  WF_vars(/\ kind = "listener" /\ (ListenerCoro \/ ListenerStopped)
          /\ UNCHANGED <<luaOwn, fdOwn, kind>>)
Spec == Init /\ [][Next]_vars /\ Fairness

\* LuaIoExact, of the coroutine that is driven from Lua: every operation
\* completes once and leaves nothing of itself behind (lua_io_handler).
OneCompletion == kind = "lua" => LuaIoExact
=============================================================================
