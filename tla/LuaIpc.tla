------------------------------- MODULE LuaIpc -------------------------------
(***************************************************************************)
(* Lua messages between processes (ipc_lua_api.c, ipc.lua).  The sender    *)
(* packs the data and keeps it until every receiver has answered; the      *)
(* answer wakes the coroutine that sent and lets the data be released.     *)
(* Messages between the master and a worker go through the manager.  While *)
(* data is unreleased, the stop event of its processes is delayed.         *)
(*                                                                         *)
(* The IPC layer delivers what it accepted (IpcChannel); this protocol     *)
(* does not rely on the order, so messages on their way are a set.         *)
(***************************************************************************)
EXTENDS Integers, FiniteSets

CONSTANTS
  NLuaWorkers,   \* number of workers
  MaxLuaMsgs,    \* bound on the messages sent
  LuaStops       \* whether processes stop

VARIABLES
  lmsg,          \* lmsg[i]: the packed data of message i
  active,        \* ctx->ipc_messages_active, of each heap
  flight,        \* IPC messages on their way or in an output buffer
  proxies,       \* the shuso_lua_ipc_proxy_msg_t in shared memory
  lrun,          \* the state of each process
  lsend,         \* the destinations a process has found running
  reading,       \* the message each process is about to unpack, or 0
  lfault         \* history: what went wrong

luaIpcVars == <<lmsg, active, flight, proxies, lrun, lsend, reading, lfault>>

LMaster == -2
LManager == -1
LWorkers == 0..(NLuaWorkers - 1)
LProcs == {LMaster, LManager} \cup LWorkers
Ids == 1..MaxLuaMsgs

ASSUME LuaIpcAssumption ==
  NLuaWorkers \in Nat /\ MaxLuaMsgs \in Nat /\ LuaStops \in BOOLEAN

\* shuso_processes_share_heap: the manager and its threads; the counter of the
\* messages was allocated before the fork.
Heap(p) == IF p = LMaster THEN "master" ELSE "manager"
Heaps == {"master", "manager"}
ByProxy(p, d) == LMaster \in {p, d} /\ {p, d} \cap LWorkers # {}

Unsent == [st |-> "none", origin |-> LMaster, auto |-> FALSE, dsts |-> {},
           acks |-> 0, woken |-> 0]
LuaIpcInit ==
  /\ lmsg = [i \in Ids |-> Unsent]
  /\ active = [h \in Heaps |-> 0]
  /\ flight = {} /\ proxies = {} /\ lfault = {}
  /\ lrun = [p \in LProcs |-> "running"]
  /\ lsend = [p \in LProcs |-> {}]
  /\ reading = [p \in LProcs |-> 0]

Free(p) == lrun[p] # "stopped" /\ lsend[p] = {} /\ reading[p] = 0
Live(i) == lmsg[i].st = "live"

\* shuso_ipc_send refuses a process that has stopped; what it accepts is in
\* the ring of the receiver or still in the output buffer of the sender.
LuaRefuses(d) == lrun[d] = "stopped"
Msg(i, cmd, code, p, to, dst) ==
  [id |-> i, cmd |-> cmd, code |-> code, from |-> p, to |-> to, dst |-> dst]
-----------------------------------------------------------------------------
(* Releasing.                                                              *)

\* luaS_lua_ipc_gc_data, in process p.
Released(p, i) ==
  /\ active' = [active EXCEPT ![Heap(p)] = @ - 1]
  /\ lfault' = lfault \cup (IF Live(i) THEN {} ELSE {"released twice"})
                     \cup (IF lmsg[i].origin = p THEN {} ELSE {"not the origin"})

\* Mutant: the last answer to a broadcast does not count.
Answered_OneEarly(p, i) ==
  LET acks == lmsg[i].acks + 1
      last == lmsg[i].auto \/ acks + 1 >= Cardinality(lmsg[i].dsts)
  IN  /\ lmsg' = [lmsg EXCEPT ![i].acks = acks,
                              ![i].woken = IF last THEN @ + 1 ELSE @,
                              ![i].st = IF last THEN "gone" ELSE @]
      /\ IF last THEN Released(p, i) ELSE UNCHANGED <<active, lfault>>
\* handle_lua_ipc_response; ipc_send_acknowledged_handler_coro of a broadcast
\* releases the data when all have answered.
Answered(p, i) ==
  LET acks == lmsg[i].acks + 1
      last == lmsg[i].auto \/ acks = Cardinality(lmsg[i].dsts)
  IN  /\ lmsg' = [lmsg EXCEPT ![i].acks = acks,
                              ![i].woken = IF last THEN @ + 1 ELSE @,
                              ![i].st = IF last THEN "gone" ELSE @]
      /\ IF last THEN Released(p, i) ELSE UNCHANGED <<active, lfault>>
-----------------------------------------------------------------------------
(* Sending.                                                                *)

\* ipc_broadcast: "others" includes the sender, and "other_workers" the master
\* and the manager, as the precedence of its operators has it.
Destinations(p) ==
  {{d} : d \in LProcs \ {p}} \cup {LProcs, LWorkers, LProcs \ {p}}

\* IPC.send and ipc_broadcast look at the states first.
LuaCheck(p) ==
  /\ Free(p) /\ lrun[p] = "running"
  /\ Cardinality({i \in Ids : lmsg[i].st = "none"})
       > Cardinality({q \in LProcs : lsend[q] # {}})
  /\ \E ds \in Destinations(p) \ {{}} :
       /\ \A d \in ds : lrun[d] = "running"
       /\ lsend' = [lsend EXCEPT ![p] = ds]
  /\ UNCHANGED <<lmsg, active, flight, proxies, lrun, reading, lfault>>

\* luaS_ipc_send_message to each of the destinations, up to the first that is
\* refused: then a broadcast raises an error, and a message of its own is
\* released only if it was to go by proxy.
LuaSend(p) ==
  /\ lsend[p] # {}
  /\ LET i == CHOOSE j \in Ids : lmsg[j].st = "none"
         ds == lsend[p]
         one == Cardinality(ds) = 1
         via(d) == IF ByProxy(p, d) THEN LManager ELSE d
         to == {d \in ds : \A e \in ds : e <= d => ~LuaRefuses(via(e))}
         undone == one /\ to = {} /\ \A d \in ds : ByProxy(p, d)
     IN  /\ lmsg' = [lmsg EXCEPT ![i] =
               [Unsent EXCEPT !.st = IF undone THEN "gone" ELSE "live",
                              !.origin = p, !.auto = one, !.dsts = ds]]
         /\ active' = [active EXCEPT ![Heap(p)] = IF undone THEN @ ELSE @ + 1]
         /\ flight' = flight \cup
              {IF ByProxy(p, d) THEN Msg(i, "proxy", "msg", p, LManager, d)
               ELSE Msg(i, "msg", "msg", p, d, d) : d \in to}
         /\ proxies' = proxies \cup {<<i, d>> : d \in {e \in to : ByProxy(p, e)}}
  /\ lsend' = [lsend EXCEPT ![p] = {}]
  /\ UNCHANGED <<lrun, reading, lfault>>
-----------------------------------------------------------------------------
(* Receiving.                                                              *)

Gets(p, m, cmd) == Free(p) /\ m.to = p /\ m.cmd = cmd
Replaced(m, new) == flight' = (flight \ {m}) \cup
                              {n \in new : ~LuaRefuses(n.to)}

\* lua_ipc_handler answers, and then handles the message.
LuaMessage(p) ==
  /\ \E m \in flight :
       /\ Gets(p, m, "msg")
       /\ Replaced(m, {Msg(m.id, "resp", "resp", p, lmsg[m.id].origin, p)})
       /\ reading' = [reading EXCEPT ![p] = m.id]
  /\ UNCHANGED <<lmsg, active, proxies, lrun, lsend, lfault>>
\* handle_lua_ipc_message: the data is unpacked and its receivers are run.
LuaUnpack(p) ==
  /\ reading[p] # 0 /\ reading' = [reading EXCEPT ![p] = 0]
  /\ UNCHANGED <<lmsg, active, flight, proxies, lrun, lsend, lfault>>

LuaResponse(p) ==
  /\ \E m \in flight : Gets(p, m, "resp") /\ Replaced(m, {}) /\ Answered(p, m.id)
  /\ UNCHANGED <<proxies, lrun, lsend, reading>>

\* Mutant: the manager passes messages on, but not their answers.
LuaProxy_OneWay ==
  /\ \E m \in flight :
       /\ Gets(LManager, m, "proxy")
       /\ Replaced(m, IF m.code = "msg"
                      THEN {Msg(m.id, "proxied", m.code, LManager, m.dst, m.dst)}
                      ELSE {})
  /\ UNCHANGED <<lmsg, active, proxies, lrun, lsend, reading, lfault>>
\* lua_ipc_manager_proxy_handler
LuaProxy ==
  /\ \E m \in flight :
       /\ Gets(LManager, m, "proxy")
       /\ Replaced(m, {Msg(m.id, "proxied", m.code, LManager,
                           IF m.code = "msg" THEN m.dst
                           ELSE lmsg[m.id].origin, m.dst)})
  /\ UNCHANGED <<lmsg, active, proxies, lrun, lsend, reading, lfault>>

\* Mutant: the proxy message is not freed with the answer.
LuaProxyReceive_Leaks(p) ==
  /\ \E m \in flight :
       /\ Gets(p, m, "proxied")
       /\ IF m.code = "msg"
          THEN /\ Replaced(m, {Msg(m.id, "proxy", "resp", p, LManager, m.dst)})
               /\ reading' = [reading EXCEPT ![p] = m.id]
               /\ UNCHANGED <<lmsg, active, proxies, lfault>>
          ELSE /\ Replaced(m, {}) /\ Answered(p, m.id)
               /\ UNCHANGED <<reading, proxies>>
  /\ UNCHANGED <<lrun, lsend>>
\* lua_ipc_proxy_receive_handler
LuaProxyReceive(p) ==
  /\ \E m \in flight :
       /\ Gets(p, m, "proxied")
       /\ IF m.code = "msg"
          THEN /\ Replaced(m, {Msg(m.id, "proxy", "resp", p, LManager, m.dst)})
               /\ reading' = [reading EXCEPT ![p] = m.id]
               /\ UNCHANGED <<lmsg, active, proxies, lfault>>
          ELSE /\ Replaced(m, {}) /\ Answered(p, m.id)
               /\ proxies' = proxies \ {<<m.id, m.dst>>}
               /\ UNCHANGED reading
  /\ UNCHANGED <<lrun, lsend>>
-----------------------------------------------------------------------------
(* Stopping.                                                               *)

LuaStop(p) ==
  /\ LuaStops /\ lrun[p] = "running" /\ Free(p)
  /\ lrun' = [lrun EXCEPT ![p] = "stopping"]
  /\ UNCHANGED <<lmsg, active, flight, proxies, lsend, reading, lfault>>

\* core_manager_try_stop waits for the workers, and the master for the manager.
After(p) == CASE p = LMaster -> {LManager}
              [] p = LManager -> LWorkers
              [] OTHER -> {}

\* Mutant: the stop event does not look at the counter.
InTransit_Never(p) == FALSE
\* "Lua IPC messages still in transit"
InTransit(p) == active[Heap(p)] > 0

\* lua_module_stop_process_event, and the process ends.  What is in its output
\* buffer is cancelled: lua_ipc_cancel_handler takes what it is given for the
\* packed data, which a proxy message is not; answers are dropped.
LuaStopped(p) ==
  /\ lrun[p] = "stopping" /\ Free(p) /\ ~InTransit(p)
  /\ \A q \in After(p) : lrun[q] = "stopped"
  /\ \E buffered \in SUBSET {m \in flight : m.from = p} :
       /\ flight' = flight \ buffered
       /\ lfault' = lfault \cup
            {IF m.cmd = "msg" THEN "cancelled" ELSE "confused" :
               m \in {n \in buffered : n.cmd # "resp"}}
  /\ lrun' = [lrun EXCEPT ![p] = "stopped"]
  /\ UNCHANGED <<lmsg, active, proxies, lsend, reading>>

LuaIpcStep(p) ==
  \/ LuaSend(p) \/ LuaMessage(p) \/ LuaUnpack(p)
  \/ LuaResponse(p) \/ LuaProxyReceive(p) \/ LuaStopped(p)
  \/ (p = LManager /\ LuaProxy)
LuaIpcNext == \E p \in LProcs : LuaCheck(p) \/ LuaStop(p) \/ LuaIpcStep(p)
-----------------------------------------------------------------------------
(* Properties.                                                             *)

\* The counter that delays the stop is the number of unreleased messages: no
\* data is released twice, and only by the process that packed it, as
\* luaS_lua_ipc_gc_data asserts.
LuaReleasedOnce ==
  /\ lfault \cap {"released twice", "not the origin"} = {}
  /\ \A h \in Heaps :
       active[h] = Cardinality({i \in Ids : Live(i) /\ Heap(lmsg[i].origin) = h})

\* The sender's coroutine is woken once, and of a broadcast not before every
\* destination has answered.
LuaWokenOnce ==
  \A i \in Ids :
    /\ lmsg[i].woken <= 1
    /\ lmsg[i].woken = 1 =>
         /\ lmsg[i].acks = Cardinality(lmsg[i].dsts)
         /\ \A m \in flight : m.id # i

\* A process that has stopped has no unreleased message, so no answer is still
\* to come to it, and nothing was cancelled under its coroutines.
LuaStoppedOwesNothing ==
  /\ \A i \in Ids : Live(i) => lrun[lmsg[i].origin] # "stopped"
  /\ "cancelled" \notin lfault

\* Unless a process stopped, a proxy message in shared memory is on its way.
LuaProxiesFreed ==
  (\A p \in LProcs : lrun[p] # "stopped") =>
    proxies = {<<m.id, m.dst>> : m \in {n \in flight : n.cmd \in {"proxy", "proxied"}}}

\* Every message is answered by all, unless a process stops.
LuaAnswered ==
  \A i \in Ids :
    Live(i) ~> (lmsg[i].st = "gone" \/ \E p \in LProcs : lrun[p] # "running")

\* "save reference so that it doesn't get GC'd" (comment in pack_field): what
\* a receiver unpacks has not been released.
LuaUnpacksLive == \A p \in LProcs : reading[p] # 0 => Live(reading[p])

\* However answers, proxies and stops interleave, data is released once, its
\* sender is woken once, no proxy message is lost, and no process stops while
\* an answer is owed to it.
LuaExactlyOnce == /\ LuaReleasedOnce /\ LuaWokenOnce
                  /\ LuaProxiesFreed /\ LuaStoppedOwesNothing
=============================================================================
