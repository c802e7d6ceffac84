------------------------------- MODULE Server -------------------------------
(***************************************************************************)
(* How the server module starts to listen (server.lua, server.c).  The     *)
(* manager asks the master, which may bind privileged ports, for one       *)
(* socket per worker for each binding, takes them from the socket that     *)
(* passes descriptors, and gives each worker one per binding; the worker   *)
(* starts a listener (module Listener).  When all workers are done the     *)
(* manager has every process publish server:start.  Any of the three kinds *)
(* of process may fail or be stopped on the way, or before it: the manager *)
(* begins when a worker's report finds all workers running.                *)
(*                                                                         *)
(* A send of a Lua message is refused unless both ends are running, and is *)
(* then an error of the startup; what is accepted is received in order     *)
(* (modules IpcRing, LuaIpc, FdPassing).                                   *)
(***************************************************************************)
EXTENDS Integers, Sequences, FiniteSets

CONSTANTS
  NServers,       \* number of bindings
  NSWorkers,      \* number of workers
  ServerFaults    \* what may go wrong: "socket", "host", "listen", "timeout",
                  \* "resolve", "stop"

VARIABLES
  spc,            \* where the startup coroutine of each process is
  chan,           \* chan[<<p, q>>]: messages of p that q has not received
  fdq,            \* descriptors for the manager's FD_Receiver
  mfds,           \* sockets the master has open
  socks,          \* socks[b]: sockets of binding b the manager holds
  want,           \* the manager's binding and worker, and sockets to come
  hosts,          \* parts of bindings' host data in shared memory
  listening,      \* listening[w]: the worker's listeners, [b, fd, on]
  shared,         \* the atomics: aborted and done_count
  finished,       \* Server.startup_finished of each process
  srun,           \* the state of each process
  starts,         \* server:start events published by each process
  reports         \* WORKER_STARTED reports the manager has yet to handle

serverVars == <<spc, chan, fdq, mfds, socks, want, hosts, listening, shared,
                finished, srun, starts, reports>>

AllServerFaults ==
  {"socket", "host", "listen", "timeout", "resolve", "stop"}
ASSUME ServerAssumption ==
  /\ NServers \in Nat /\ NSWorkers \in Nat \ {0}
  /\ ServerFaults \subseteq AllServerFaults

SMaster == -2
SManager == -1
SWorkers == 0..(NSWorkers - 1)
SProcs == {SMaster, SManager} \cup SWorkers
Bindings == 1..NServers

\* All workers are running; the coroutines of the master and the workers wait.
ServerInit ==
  /\ spc = [p \in SProcs |-> IF p = SManager THEN "off" ELSE "wait"]
  /\ reports \in 1..NSWorkers
  /\ chan = [e \in SProcs \X SProcs |-> <<>>]
  /\ fdq = <<>> /\ mfds = {} /\ hosts = {}
  /\ socks = [b \in Bindings |-> {}]
  /\ want = [b |-> 1, w |-> 0, n |-> 0, timer |-> TRUE]
  /\ listening = [w \in SWorkers |-> {}]
  /\ shared = [aborted |-> FALSE, done |-> 0]
  /\ finished = [p \in SProcs |-> FALSE]
  /\ srun = [p \in SProcs |-> "running"]
  /\ starts = [p \in SProcs |-> 0]

Goto(p, pc) == spc' = [spc EXCEPT ![p] = pc]
\* finish_server_startup, when the startup raised an error and when it did not
Aborts(p) ==
  /\ shared' = [shared EXCEPT !.aborted = TRUE]
  /\ finished' = [finished EXCEPT ![p] = TRUE] /\ Goto(p, "failed")
Finishes(p) == finished' = [finished EXCEPT ![p] = TRUE] /\ Goto(p, "done")

\* ipc_try_send of msg, after the sender received what its channels c hold no
\* more: the coroutine goes on at pc, or the startup aborts.
TrySend(p, q, msg, c, pc) ==
  IF srun[p] = "running" /\ srun[q] = "running"
  THEN /\ chan' = [c EXCEPT ![<<p, q>>] = Append(@, msg)] /\ Goto(p, pc)
       /\ UNCHANGED <<shared, finished>>
  ELSE chan' = c /\ Aborts(p)

Alive(p) == srun[p] # "stopped"
First(p, q) == Head(chan[<<p, q>>])
Has(p, q) == Alive(q) /\ chan[<<p, q>>] # <<>>
Took(p, q) == [chan EXCEPT ![<<p, q>>] = Tail(@)]
Fault(f) == f \in ServerFaults
-----------------------------------------------------------------------------
(* The manager.                                                            *)

\* worker_started_handle: core:manager.workers_started if all workers run.
\* Reports after that change nothing and are dropped.
ServerReport ==
  /\ spc[SManager] = "off" /\ reports > 0 /\ Alive(SManager)
  /\ IF \A w \in SWorkers : srun[w] = "running"
     THEN Goto(SManager, "resolve") /\ reports' = 0
     ELSE UNCHANGED spc /\ reports' = reports - 1
  /\ UNCHANGED <<chan, fdq, mfds, socks, want, hosts, listening, shared,
                 finished, srun, starts>>

\* core:manager.workers_started: hosts are resolved and bindings made unique.
\* A host that cannot be ends the coroutine before finish_server_startup.
ServerResolve ==
  /\ spc[SManager] = "resolve" /\ Alive(SManager)
  /\ \/ Goto(SManager, IF NServers = 0 THEN "done_worker" ELSE "request")
     \/ Fault("resolve") /\ Goto(SManager, "unresolved")
  /\ UNCHANGED <<chan, fdq, mfds, socks, want, hosts, listening, shared,
                 finished, srun, starts, reports>>

\* luaS_create_binding_data, luaS_create_shared_host_data, and the request.  If
\* memory is short for the address, the name stays behind.
ServerRequest ==
  /\ spc[SManager] = "request" /\ Alive(SManager)
  /\ \/ /\ TrySend(SManager, SMaster, <<"sockets", want.b>>, chan, "response")
        /\ hosts' = hosts \cup ({want.b} \X {"host", "name", "address"})
     \/ /\ Fault("host") /\ Aborts(SManager) /\ UNCHANGED chan
        /\ hosts' \in {hosts, hosts \cup {<<want.b, "name">>}}
  /\ UNCHANGED <<fdq, mfds, socks, want, listening, srun, starts, reports>>

ServerResponse ==
  /\ spc[SManager] = "response" /\ Has(SMaster, SManager)
  /\ want' = [want EXCEPT !.n = First(SMaster, SManager)[2]]
  /\ chan' = Took(SMaster, SManager) /\ Goto(SManager, "receive")
  /\ UNCHANGED <<fdq, mfds, socks, hosts, listening, shared, finished, srun,
                 starts, reports>>

\* A descriptor arrives, or the 5 seconds of the FD_Receiver are over.
ServerReceiveFd ==
  /\ spc[SManager] = "receive" /\ want.n > 0 /\ fdq # <<>> /\ Alive(SManager)
  /\ fdq' = Tail(fdq)
  /\ IF Head(fdq) = 0 THEN Aborts(SManager) /\ UNCHANGED <<socks, want>>
     ELSE /\ socks' = [socks EXCEPT ![want.b] = @ \cup {Head(fdq)}]
          /\ want' = [want EXCEPT !.n = @ - 1]
          /\ UNCHANGED <<shared, finished, spc>>
  /\ UNCHANGED <<chan, mfds, hosts, listening, srun, starts, reports>>
ServerTimeout ==
  /\ Fault("timeout") /\ want.timer /\ Alive(SManager)
  /\ spc[SManager] \in {"response", "receive", "request"}
  /\ want' = [want EXCEPT !.timer = FALSE] /\ fdq' = Append(fdq, 0)
  /\ UNCHANGED <<spc, chan, mfds, socks, hosts, listening, shared, finished,
                 srun, starts, reports>>

\* Mutant: the address is not freed.
FreeHost_Address(b) == hosts \ {<<b, "host">>}
\* luaS_free_shared_host_data: the name is not freed.
FreeHost(b) == hosts \ {<<b, "host">>, <<b, "address">>}
\* All sockets of the binding are there: "ok", and the host is freed.
ServerReceived ==
  /\ spc[SManager] = "receive" /\ want.n = 0 /\ Alive(SManager)
  /\ LET last == want.b = NServers
     IN  /\ TrySend(SManager, SMaster, <<"ok", 0>>, chan,
                    IF last THEN "give" ELSE "request")
         /\ want' = [want EXCEPT !.b = IF last THEN 1 ELSE @ + 1]
  /\ hosts' = IF spc'[SManager] = "failed" THEN hosts ELSE FreeHost(want.b)
  /\ UNCHANGED <<fdq, mfds, socks, listening, srun, starts, reports>>

\* Mutant: the socket stays with the manager and is given to the next worker.
Give_Keeps(b, fd) == UNCHANGED socks
\* table.remove(binding.sockets)
Give(b, fd) == socks' = [socks EXCEPT ![b] = @ \ {fd}]
\* One socket of the binding goes to the worker.
ServerGive ==
  /\ spc[SManager] = "give" /\ Alive(SManager)
  /\ IF socks[want.b] = {}
     THEN Aborts(SManager) /\ UNCHANGED <<chan, socks>>
     ELSE LET fd == CHOOSE f \in socks[want.b] : \A g \in socks[want.b] : g <= f
          IN  /\ Give(want.b, fd)
              /\ TrySend(SManager, want.w, <<"socket", <<want.b, fd>>>>, chan,
                         "answer")
  /\ UNCHANGED <<fdq, mfds, want, hosts, listening, srun, starts, reports>>
ServerAnswer ==
  /\ spc[SManager] = "answer" /\ Has(want.w, SManager)
  /\ chan' = Took(want.w, SManager)
  /\ IF First(want.w, SManager)[1] = "ok"
     THEN LET last == want.b = NServers
          IN  /\ Goto(SManager, IF last THEN "done_worker" ELSE "give")
              /\ want' = [want EXCEPT !.b = IF last THEN 1 ELSE @ + 1]
              /\ UNCHANGED <<shared, finished>>
     ELSE Aborts(SManager) /\ UNCHANGED want
  /\ UNCHANGED <<fdq, mfds, socks, hosts, listening, srun, starts, reports>>
ServerDoneWorker ==
  /\ spc[SManager] = "done_worker" /\ Alive(SManager)
  /\ LET last == want.w = NSWorkers - 1
     IN  /\ TrySend(SManager, want.w, <<"done", 0>>, chan,
                    IF last THEN "done_master"
                    ELSE IF NServers = 0 THEN "done_worker" ELSE "give")
         /\ want' = [want EXCEPT !.w = IF last THEN @ ELSE @ + 1]
  /\ UNCHANGED <<fdq, mfds, socks, hosts, listening, srun, starts, reports>>
ServerDoneMaster ==
  /\ spc[SManager] = "done_master" /\ Alive(SManager)
  /\ IF srun[SManager] = "running" /\ srun[SMaster] = "running"
     THEN /\ chan' = [chan EXCEPT ![<<SManager, SMaster>>] =
                                      Append(@, <<"done", 0>>)]
          /\ Finishes(SManager) /\ UNCHANGED shared
     ELSE Aborts(SManager) /\ UNCHANGED chan
  /\ UNCHANGED <<fdq, mfds, socks, want, hosts, listening, srun, starts,
                 reports>>

\* server:workers_started: IPC.send("all", "server:start") if all are running
ServerStartAll ==
  /\ \E w \in SWorkers :
       /\ Has(w, SManager) /\ First(w, SManager)[1] = "started"
       /\ chan' = LET c == Took(w, SManager)
                  IN  IF \E p \in SProcs : srun[p] # "running" THEN c
                      ELSE [e \in DOMAIN c |-> IF e[1] # SManager THEN c[e]
                                               ELSE Append(c[e], <<"start", 0>>)]
  /\ UNCHANGED <<spc, fdq, mfds, socks, want, hosts, listening, shared,
                 finished, srun, starts, reports>>
-----------------------------------------------------------------------------
(* The master.                                                             *)

\* luaS_handle_fd_request for each worker; the answer; IPC.send_fd of each
ServerOpen ==
  /\ spc[SMaster] = "wait" /\ Has(SManager, SMaster)
  /\ First(SManager, SMaster)[1] = "sockets"
  /\ \E n \in 0..NSWorkers :
       /\ n < NSWorkers => Fault("socket")
       /\ LET b == First(SManager, SMaster)[2]
              fds == [i \in 1..n |-> (b - 1) * NSWorkers + i]
          IN  /\ mfds' = {fds[i] : i \in 1..n}
              /\ TrySend(SMaster, SManager, <<"count", n>>,
                         Took(SManager, SMaster), "sent")
              /\ fdq' = IF spc'[SMaster] = "failed" THEN fdq ELSE fdq \o fds
  /\ UNCHANGED <<socks, want, hosts, listening, srun, starts, reports>>
\* Mutant: the master keeps the sockets it has sent.
CloseSent_Keeps == UNCHANGED mfds
\* Core.fd_close of each of them
CloseSent == mfds' = {}
\* The manager has them: they are closed here.
ServerClose ==
  /\ spc[SMaster] = "sent" /\ Has(SManager, SMaster)
  /\ chan' = Took(SManager, SMaster)
  /\ IF First(SManager, SMaster)[1] = "ok"
     THEN Goto(SMaster, "wait") /\ CloseSent /\ UNCHANGED <<shared, finished>>
     ELSE Aborts(SMaster) /\ UNCHANGED mfds
  /\ UNCHANGED <<fdq, socks, want, hosts, listening, srun, starts, reports>>
ServerMasterDone ==
  /\ spc[SMaster] = "wait" /\ Has(SManager, SMaster)
  /\ First(SManager, SMaster)[1] = "done"
  /\ chan' = Took(SManager, SMaster) /\ Finishes(SMaster)
  /\ UNCHANGED <<fdq, mfds, socks, want, hosts, listening, shared, srun,
                 starts, reports>>
-----------------------------------------------------------------------------
(* A worker.                                                               *)

\* luaS_start_worker_io_listener_coroutine, and the answer
ServerListen(w) ==
  /\ spc[w] = "wait" /\ Has(SManager, w) /\ First(SManager, w)[1] = "socket"
  /\ LET s == First(SManager, w)[2]
     IN  \/ /\ listening' = [listening EXCEPT ![w] =
                               @ \cup {[b |-> s[1], fd |-> s[2], on |-> TRUE]}]
            /\ TrySend(w, SManager, <<"ok", 0>>, Took(SManager, w), "wait")
         \/ /\ Fault("listen") /\ UNCHANGED listening
            /\ TrySend(w, SManager, <<"not ok", 0>>, Took(SManager, w), "wait")
  /\ UNCHANGED <<fdq, mfds, socks, want, hosts, srun, starts, reports>>
\* "done": the count is incremented ...
ServerCount(w) ==
  /\ spc[w] = "wait" /\ Has(SManager, w) /\ First(SManager, w)[1] = "done"
  /\ chan' = Took(SManager, w) /\ Goto(w, "counted")
  /\ shared' = [shared EXCEPT !.done = @ + 1]
  /\ UNCHANGED <<fdq, mfds, socks, want, hosts, listening, finished, srun,
                 starts, reports>>
\* Mutant: any worker is the last.
AllDone_Any(n) == TRUE
\* Mutant: the count is compared as it was before this worker's.
AllDone_Before(n) == n = NSWorkers + 1
\* The count of workers that are done, against their number.
AllDone(n) == n = NSWorkers
\* ... and read: the last worker tells the manager.
ServerLast(w) ==
  /\ spc[w] = "counted" /\ Alive(w)
  /\ LET tell == AllDone(shared.done)
         able == srun[w] = "running" /\ srun[SManager] = "running"
     IN  IF tell /\ ~able THEN Aborts(w) /\ UNCHANGED chan
         ELSE /\ Finishes(w) /\ UNCHANGED shared
              /\ chan' = IF tell THEN [chan EXCEPT ![<<w, SManager>>] =
                                                     Append(@, <<"started", 0>>)]
                         ELSE chan
  /\ UNCHANGED <<fdq, mfds, socks, want, hosts, listening, srun, starts,
                 reports>>

\* publish_server_started_event, in any process
ServerStart(p) ==
  /\ Has(SManager, p) /\ First(SManager, p)[1] = "start"
  /\ chan' = Took(SManager, p)
  /\ starts' = [starts EXCEPT ![p] = @ + 1]
  /\ UNCHANGED <<spc, fdq, mfds, socks, want, hosts, listening, shared,
                 finished, srun, reports>>
-----------------------------------------------------------------------------
(* Stopping.                                                               *)

\* A process is asked to stop, from the start of its loop on.
ServerStop(p) ==
  /\ Fault("stop") /\ srun[p] = "running"
  /\ srun' = [srun EXCEPT ![p] = "stopping"]
  /\ UNCHANGED <<spc, chan, fdq, mfds, socks, want, hosts, listening, shared,
                 finished, starts, reports>>

\* Mutant: the stop waits for the startup even when it was aborted.
MayStop_Waits(p) == finished[p]
\* delay_stopping
MayStop(p) == finished[p] \/ shared.aborted
StopsAfter(p) == CASE p = SMaster -> {SManager}
                   [] p = SManager -> SWorkers
                   [] OTHER -> {}
\* The processes below are gone and delay_stopping lets the event pass: the
\* next listener, of core:worker.stop, stops what listens by then.
ServerClosing(p) ==
  /\ srun[p] = "stopping" /\ MayStop(p)
  /\ \A q \in StopsAfter(p) : srun[q] = "stopped"
  /\ srun' = [srun EXCEPT ![p] = "closing"]
  /\ listening' = [w \in SWorkers |->
        IF w # p THEN listening[w]
        ELSE {[l EXCEPT !.on = FALSE] : l \in listening[w]}]
  /\ UNCHANGED <<spc, chan, fdq, mfds, socks, want, hosts, shared, finished,
                 starts, reports>>
\* The other listeners, and the end of the loop.
ServerStopped(p) ==
  /\ srun[p] = "closing"
  /\ srun' = [srun EXCEPT ![p] = "stopped"]
  /\ UNCHANGED <<spc, chan, fdq, mfds, socks, want, hosts, listening, shared,
                 finished, starts, reports>>

ServerStep ==
  \/ ServerReport \/ ServerResolve \/ ServerRequest \/ ServerResponse
  \/ ServerReceiveFd \/ ServerReceived \/ ServerGive \/ ServerAnswer
  \/ ServerDoneWorker \/ ServerDoneMaster \/ ServerStartAll
  \/ ServerOpen \/ ServerClose \/ ServerMasterDone
  \/ \E w \in SWorkers : ServerListen(w) \/ ServerCount(w) \/ ServerLast(w)
  \/ \E p \in SProcs : ServerStart(p) \/ ServerClosing(p) \/ ServerStopped(p)
ServerNext == ServerStep \/ ServerTimeout \/ \E p \in SProcs : ServerStop(p)
-----------------------------------------------------------------------------
(* Properties.                                                             *)

\* server:start is published nowhere before every worker has a listener for
\* every binding.
ServerStartsComplete ==
  (\E p \in SProcs : starts[p] > 0) =>
    \A w \in SWorkers : {l.b : l \in listening[w]} = Bindings

\* No socket is listened on by two workers, or for two bindings.
ServerOwnSockets ==
  \A v, w \in SWorkers : \A k \in listening[v], l \in listening[w] :
    k.fd = l.fd => v = w /\ k.b = l.b

\* A startup that was not aborted leaves no socket open but those that are
\* listened on, and of the shared host data nothing but the names, which are
\* never freed; and then no socket of a worker that has stopped is listened on.
ServerKeepsNothing ==
  /\ finished[SManager] /\ finished[SMaster] /\ ~shared.aborted =>
       /\ mfds = {} /\ \A b \in Bindings : socks[b] = {}
       /\ \A h \in hosts : h[2] = "name"
  /\ ~shared.aborted => \A w \in SWorkers : srun[w] = "stopped" =>
       \A l \in listening[w] : ~l.on

\* When all processes are asked to stop they do, wherever the startup is once
\* it has begun: unless a host could not be resolved, which leaves it
\* unfinished.  (A startup that a stop forestalls never ends, and neither does
\* the stop: InitializingEnds of module Lifecycle.)
ServerStopCompletes ==
  spc[SManager] # "off" /\ (\A p \in SProcs : srun[p] # "running") ~>
    (spc[SManager] = "unresolved" \/ \A p \in SProcs : srun[p] = "stopped")

\* A startup that has begun ends: with a server:start in every process, or
\* aborted.
ServerStartEnds ==
  spc[SManager] # "off" ~>
    \/ \A p \in SProcs : starts[p] > 0
    \/ shared.aborted \/ spc[SManager] = "unresolved"
    \/ \E p \in SProcs : srun[p] # "running"

\* However resolving, binding, passing and listening interleave, a server is
\* announced only when complete, on sockets of its own, and nothing is left.
ServerSound == ServerStartsComplete /\ ServerOwnSockets /\ ServerKeepsNothing
=============================================================================
