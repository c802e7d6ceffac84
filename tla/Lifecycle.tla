----------------------------- MODULE Lifecycle ------------------------------
(***************************************************************************)
(* Start and stop of a Shuttlesock server: the master process, the manager *)
(* process it forks and the worker threads the manager spawns.             *)
(*                                                                         *)
(* The processes share their runstates (an atomic word each, in shared     *)
(* memory) and send each other IPC commands.  The channel is taken at its  *)
(* promise (module IpcChannel): inbox[p] holds what has reached p's ring.  *)
(* What shuso_ipc_send does before that is kept: it refuses a destination  *)
(* that has not started or has stopped, and buffers for one that is        *)
(* starting or behind what is already buffered.                            *)
(*                                                                         *)
(* Each process is a thread of shuso_run or shuso_run_worker (pc) that ends *)
(* up in its event loop, where the callbacks are actions of their own.     *)
(***************************************************************************)
EXTENDS Integers, Sequences, FiniteSets

CONSTANTS NWorkers,     \* config.workers
          Faults,       \* what may go wrong or be asked besides shuso_stop
          MaxRequests,  \* bound: stop requests and signals
          MaxInbox      \* bound: unread messages when the master asks again

AllFaults == {"init",       \* shuso_initialize_worker fails
              "spawn",      \* pthread_create fails
              "crash",      \* the manager process is killed
              "stop_one",   \* shuso_stop_worker is called for one worker
              "lua",        \* Lua IPC messages are in transit during a stop
              "signal"}     \* the manager gets SIGINT, SIGQUIT or SIGTERM

ASSUME LifecycleAssumption == /\ NWorkers \in Nat \ {0}
                              /\ Faults \subseteq AllFaults
                              /\ MaxRequests \in Nat
                              /\ MaxInbox \in Nat \ {0}

Master  == -2     \* SHUTTLESOCK_MASTER
Manager == -1     \* SHUTTLESOCK_MANAGER
Workers == 0..(NWorkers - 1)
Procs   == {Master, Manager} \cup Workers

VARIABLES
  state,           \* *process->state of every process, in shared memory
  pc,              \* where shuso_run and shuso_run_worker are
  inbox,           \* messages in the process's ring
  outbuf,          \* S->ipc.buf: <<destination, message>> waiting to be sent
  shutdown_timer,  \* a 0-second timer for shutdown_handle_cb is pending
  stop_delayed,    \* the listener the process's stop event waits in
  break_timer,     \* a 0-second timer for stop_thing_callback is pending
  initialized,     \* workers shuso_initialize_workers has a state for
  all_workers_running,
  sigchld,         \* a SIGCHLD for the manager waits in the master's loop
  published,       \* core events each process has published, in order
  initializing,    \* the server module has yet to start in some process
  requests,        \* stop requests made so far
  stop_asked       \* shuso_stop has been called on some process

comm   == <<inbox, outbuf>>
timers == <<shutdown_timer, stop_delayed, break_timer>>
vars   == <<state, pc, comm, timers, initialized, all_workers_running, sigchld,
            published, initializing, requests, stop_asked>>

States == {"NIL", "STARTING", "RUNNING", "STOPPING", "STOPPED", "DEAD"}

Init ==
  /\ state = [p \in Procs |-> IF p = Master THEN "STARTING" ELSE "NIL"]
  /\ pc    = [p \in Procs |-> IF p = Master THEN "run" ELSE "none"]
  /\ inbox  = [p \in Procs |-> <<>>]
  /\ outbuf = [p \in Procs |-> <<>>]
  /\ shutdown_timer = [p \in Procs |-> FALSE]
  /\ stop_delayed   = [p \in Procs |-> "none"]
  /\ break_timer    = [p \in Procs |-> FALSE]
  /\ initialized = {}
  /\ all_workers_running = FALSE
  /\ sigchld = FALSE
  /\ published = [p \in Procs |-> <<>>]
  /\ initializing = TRUE
  /\ requests = 0
  /\ stop_asked = FALSE

-----------------------------------------------------------------------------
Goto(p, place)     == pc' = [pc EXCEPT ![p] = place]
SetState(p, s)     == state' = [state EXCEPT ![p] = s]
Publish(p, event)  == published' = [published EXCEPT ![p] = Append(@, event)]
Published(p, event) == \E i \in DOMAIN published[p] : published[p][i] = event
Announced == Published(Manager, "workers_started")

\* shuso_ipc_send returns false and sends nothing to such a destination.
Refused(dst) == state[dst] \in {"NIL", "STOPPED", "DEAD"}

\* What is left for the processes S, in the order of their numbers.
Each(S, msg) ==
  [i \in 1..Cardinality(S) |->
     <<CHOOSE d \in S : Cardinality({e \in S : e < d}) = i - 1, msg>>]

\* shuso_ipc_send of msg to each of the processes dsts in the order of their
\* numbers, none of them refused: from the first one that is starting on, or
\* from the start if the sender's buffer is not empty, they are appended to
\* it.  box is inbox without the message that is being handled.
SendEach(box, p, dsts, msg) ==
  LET direct == {d \in dsts : /\ outbuf[p] = <<>>
                              /\ \A e \in dsts :
                                   e <= d => state[e] # "STARTING"}
  IN /\ inbox' = [d \in Procs |-> IF d \in direct THEN Append(box[d], msg)
                                  ELSE box[d]]
     /\ outbuf' = [outbuf EXCEPT ![p] = @ \o Each(dsts \ direct, msg)]

Send(box, p, dst, msg) ==
  SendEach(box, p, {d \in {dst} : ~Refused(d)}, msg)

\* shuso_ipc_send_workers: ret = ret && shuso_ipc_send(...), so the loop sends
\* nothing more after the first refusal.
SendWorkers(msg) ==
  SendEach(inbox, Manager, {w \in Workers : \A v \in 0..w : ~Refused(v)}, msg)

\* ipc_send_retry_cb: the buffered messages go out in order, whatever the
\* state of their destination.
FlushOutbuf(p) ==
  LET m == Head(outbuf[p]) IN
  /\ pc[p] = "loop" /\ outbuf[p] # <<>>
  /\ inbox' = [inbox EXCEPT ![m[1]] = Append(@, m[2])]
  /\ outbuf' = [outbuf EXCEPT ![p] = Tail(@)]
  /\ UNCHANGED <<state, pc, timers, initialized, all_workers_running, sigchld,
                 published, requests, stop_asked, initializing>>

-----------------------------------------------------------------------------
(********************************** starting *******************************)

\* shuso_run up to the fork: the channels exist, the master is RUNNING.
MasterRun ==
  /\ pc[Master] = "run"
  /\ SetState(Master, "RUNNING")
  /\ Goto(Master, "fork")
  /\ UNCHANGED <<comm, timers, initialized, all_workers_running, sigchld,
                 published, requests, stop_asked, initializing>>

\* shuso_fork_manager in the parent.
Fork ==
  /\ pc[Master] = "fork"
  /\ pc' = [pc EXCEPT ![Master] = "local", ![Manager] = "forked"]
  /\ UNCHANGED <<state, comm, timers, initialized, all_workers_running,
                 sigchld, published, requests, stop_asked, initializing>>

\* shuso_fork_manager in the child.
ManagerStarting ==
  /\ pc[Manager] = "forked"
  /\ SetState(Manager, "STARTING")
  /\ Goto(Manager, "starting")
  /\ UNCHANGED <<comm, timers, initialized, all_workers_running, sigchld,
                 published, requests, stop_asked, initializing>>

ManagerRunning ==
  /\ pc[Manager] = "starting"
  /\ SetState(Manager, "RUNNING")
  /\ Goto(Manager, "init")
  /\ UNCHANGED <<comm, timers, initialized, all_workers_running, sigchld,
                 published, requests, stop_asked, initializing>>

\* shuso_initialize_worker copies the manager's Lua state and initializes the
\* modules, any of which may fail: the workers for which it may succeed.
InitializeWorker == IF "init" \in Faults THEN SUBSET Workers ELSE {Workers}

\* shuso_initialize_workers: a worker whose initialization fails leaves a
\* NULL entry and keeps the state NIL; the loop goes on.
InitializeWorkers ==
  /\ pc[Manager] = "init"
  /\ initialized' \in InitializeWorker
  /\ Goto(Manager, "local")
  /\ UNCHANGED <<state, comm, timers, all_workers_running, sigchld, published,
                 requests, stop_asked, initializing>>

\* shuso_ipc_channel_local_start returns once the notice coroutine finds no
\* more notices.  A message whose sender has yet to write its notice stays in
\* the ring for the event loop, so this may happen whatever inbox[p] holds.
\* Then come the start event and the event loop, in the manager after the
\* workers have been spawned.
LocalStarted(p) ==
  /\ pc[p] = "local"
  /\ \/ /\ p = Master
        /\ Goto(p, "loop") /\ Publish(p, "start")
        /\ UNCHANGED state
     \/ /\ p = Manager
        /\ Goto(p, "spawn")
        /\ UNCHANGED <<state, published>>
     \/ /\ p \in Workers
        /\ Goto(p, "start") /\ SetState(p, "RUNNING")
        /\ UNCHANGED published
  /\ UNCHANGED <<comm, timers, initialized, all_workers_running, sigchld,
                 requests, stop_asked, initializing>>

\* shuso_spawn_worker: the state is STARTING before the thread exists, and
\* stays so when there is none.
SpawnWorker(w) ==
  /\ pc[Manager] = "spawn" /\ w \in initialized /\ state[w] = "NIL"
  /\ \A v \in initialized : v < w => state[v] # "NIL"
  /\ SetState(w, "STARTING")
  /\ \/ Goto(w, "local")
     \/ "spawn" \in Faults /\ Goto(w, "failed")
  /\ UNCHANGED <<comm, timers, initialized, all_workers_running, sigchld,
                 published, requests, stop_asked, initializing>>

\* The end of shuso_spawn_workers, and the rest of shuso_run: into the loop,
\* or to its fail label, where the manager declares itself DEAD.
WorkersSpawned ==
  /\ pc[Manager] = "spawn" /\ \A w \in initialized : state[w] # "NIL"
  /\ \/ /\ \E w \in Workers : pc[w] = "failed"
        /\ SetState(Manager, "DEAD")
        /\ Goto(Manager, "done")
        /\ UNCHANGED published
     \/ /\ \A w \in Workers : pc[w] # "failed"
        /\ Publish(Manager, "start")
        /\ Goto(Manager, "loop")
        /\ UNCHANGED state
  /\ UNCHANGED <<comm, timers, initialized, all_workers_running, sigchld,
                 requests, stop_asked, initializing>>

\* shuso_run_worker: worker.start, then WORKER_STARTED for the manager.
WorkerStart(w) ==
  /\ pc[w] = "start"
  /\ Publish(w, "start")
  /\ Goto(w, "report")
  /\ UNCHANGED <<state, comm, timers, initialized, all_workers_running,
                 sigchld, requests, stop_asked, initializing>>

WorkerReport(w) ==
  /\ pc[w] = "report"
  /\ Send(inbox, w, Manager, "WORKER_STARTED")
  /\ Goto(w, "loop")
  /\ UNCHANGED <<state, timers, initialized, all_workers_running, sigchld,
                 published, requests, stop_asked, initializing>>

-----------------------------------------------------------------------------
(***************************** IPC command handlers ************************)

\* ipc_receive hands the next message to its handler, in the event loop or
\* already in shuso_ipc_channel_local_start.
Received(p, msgs) == /\ pc[p] \in {"local", "loop"}
                     /\ inbox[p] # <<>> /\ Head(inbox[p]) \in msgs
Unread(p) == [inbox EXCEPT ![p] = Tail(@)]

\* shutdown_handle: not from within the handler, but from a 0-second timer.
\* received_proxied_message_handle calls it for a command the manager proxied.
ShutdownHandle(p) ==
  /\ Received(p, {"SHUTDOWN", "PROXIED_SHUTDOWN"})
  /\ shutdown_timer' = [shutdown_timer EXCEPT ![p] = TRUE]
  /\ inbox' = Unread(p)
  /\ UNCHANGED <<state, pc, outbuf, stop_delayed, break_timer, initialized,
                 all_workers_running, sigchld, published, requests, stop_asked,
                 initializing>>

\* signal_handle: the master passes SIGINT and SIGQUIT back to the manager.
SignalHandle ==
  /\ Received(Master, {"SIGINT", "SIGQUIT", "SIGTERM"})
  /\ \/ /\ Head(inbox[Master]) # "SIGTERM"
        /\ Send(Unread(Master), Master, Manager, "SHUTDOWN")
     \/ /\ Head(inbox[Master]) = "SIGTERM"
        /\ inbox' = Unread(Master) /\ UNCHANGED outbuf
  /\ UNCHANGED <<state, pc, timers, initialized, all_workers_running, sigchld,
                 published, requests, stop_asked, initializing>>

\* Mutant: the proxied command is freed without being passed on.
ManagerProxyHandle_Drops ==
  /\ Received(Manager, {"PROXY_SHUTDOWN"})
  /\ inbox' = Unread(Manager)
  /\ UNCHANGED <<state, pc, outbuf, timers, initialized, all_workers_running,
                 sigchld, published, requests, stop_asked, initializing>>

\* manager_proxy_message_handle
ManagerProxyHandle ==
  /\ Received(Manager, {"PROXY_SHUTDOWN"})
  /\ Send(Unread(Manager), Manager, Master, "PROXIED_SHUTDOWN")
  /\ UNCHANGED <<state, pc, timers, initialized, all_workers_running, sigchld,
                 published, requests, stop_asked, initializing>>

\* Mutant: one running worker is enough.
AllRunning_Any == \E w \in Workers : state[w] = "RUNNING"

\* worker_started_handle: the first time all workers are found RUNNING,
\* manager.workers_started and ALL_WORKERS_STARTED for everyone.
AllRunning == \A w \in Workers : state[w] = "RUNNING"

\* The master is told first, then the workers; a refusal is ignored.
Announce ==
  /\ SendEach(Unread(Manager), Manager,
              {p \in Procs \ {Manager} : ~Refused(p)}, "ALL_WORKERS_STARTED")
  /\ Publish(Manager, "workers_started")

\* Mutant: every report that finds all workers running announces it.
WorkerStartedHandle_Repeats ==
  /\ Received(Manager, {"WORKER_STARTED"})
  /\ all_workers_running' = (all_workers_running \/ AllRunning)
  /\ \/ AllRunning /\ Announce
     \/ /\ ~AllRunning
        /\ inbox' = Unread(Manager)
        /\ UNCHANGED <<outbuf, published>>
  /\ UNCHANGED <<state, pc, timers, initialized, sigchld, requests, stop_asked,
                 initializing>>

\* Mutant: the flag is set by the first report, whatever it finds.
WorkerStartedHandle_FlagEarly ==
  /\ Received(Manager, {"WORKER_STARTED"})
  /\ all_workers_running' = TRUE
  /\ \/ AllRunning /\ ~all_workers_running /\ Announce
     \/ /\ ~AllRunning \/ all_workers_running
        /\ inbox' = Unread(Manager)
        /\ UNCHANGED <<outbuf, published>>
  /\ UNCHANGED <<state, pc, timers, initialized, sigchld, requests, stop_asked,
                 initializing>>

WorkerStartedHandle ==
  /\ Received(Manager, {"WORKER_STARTED"})
  /\ all_workers_running' = (all_workers_running \/ AllRunning)
  /\ \/ AllRunning /\ ~all_workers_running /\ Announce
     \/ /\ ~AllRunning \/ all_workers_running
        /\ inbox' = Unread(Manager)
        /\ UNCHANGED <<outbuf, published>>
  /\ UNCHANGED <<state, pc, timers, initialized, sigchld, requests, stop_asked,
                 initializing>>

\* all_worker_started_handle
AllWorkersStartedHandle(p) ==
  /\ Received(p, {"ALL_WORKERS_STARTED"})
  /\ Publish(p, "workers_started")
  /\ inbox' = Unread(p)
  /\ UNCHANGED <<state, pc, outbuf, timers, initialized, all_workers_running,
                 sigchld, requests, stop_asked, initializing>>

\* finish_server_startup: the server module's coroutines have come to their end
\* in every process, or one of them to an error, which Server.shared.aborted
\* tells all.  They wait for the one that manager.workers_started starts
\* (module Server).
ServerStartup ==
  /\ initializing /\ Announced
  /\ initializing' = FALSE
  /\ UNCHANGED <<state, pc, comm, timers, initialized, all_workers_running,
                 sigchld, published, requests, stop_asked>>

-----------------------------------------------------------------------------
(********************************** stopping *******************************)

Delay(p, listener) == /\ stop_delayed' = [stop_delayed EXCEPT ![p] = listener]
                      /\ UNCHANGED break_timer

\* lua_module_stop_process_event waits for the Lua IPC messages in transit;
\* core_*_stop, the last listener, sets the timer that ends the loop.
LuaStopListener(p) ==
  \/ "lua" \in Faults /\ Delay(p, "lua")
  \/ /\ stop_delayed' = [stop_delayed EXCEPT ![p] = "none"]
     /\ break_timer' = [break_timer EXCEPT ![p] = TRUE]

\* What the stop event passes in every process: delay_stopping of the server
\* module, "still initializing", until its part of the startup is over, and the
\* listeners after it.
LastStopListeners(p) ==
  \/ initializing /\ Delay(p, "server")
  \/ Announced /\ LuaStopListener(p)

\* Mutant: a manager that has not come up yet is taken for one that is gone.
MasterTryStop_NoManagerYet ==
  /\ SetState(Master, "STOPPING")
  /\ \/ state[Manager] = "RUNNING" /\ Send(inbox, Master, Manager, "SHUTDOWN")
     \/ state[Manager] # "RUNNING" /\ UNCHANGED comm
  /\ \/ state[Manager] \notin {"NIL", "DEAD"} /\ Delay(Master, "try")
     \/ state[Manager] \in {"NIL", "DEAD"} /\ LastStopListeners(Master)

\* Mutant: the manager is only asked on the first try.
MasterTryStop_AsksOnce ==
  /\ SetState(Master, "STOPPING")
  /\ \/ /\ state[Manager] = "RUNNING" /\ state[Master] = "RUNNING"
        /\ Send(inbox, Master, Manager, "SHUTDOWN")
     \/ /\ state[Manager] # "RUNNING" \/ state[Master] # "RUNNING"
        /\ UNCHANGED comm
  /\ \/ state[Manager] # "DEAD" /\ Delay(Master, "try")
     \/ state[Manager] = "DEAD" /\ LastStopListeners(Master)

\* core_master_try_stop, the first listener of master.stop: ask a RUNNING
\* manager to stop, and wait until it is DEAD.
MasterTryStop ==
  /\ SetState(Master, "STOPPING")
  /\ \/ state[Manager] = "RUNNING" /\ Send(inbox, Master, Manager, "SHUTDOWN")
     \/ state[Manager] # "RUNNING" /\ UNCHANGED comm
  /\ \/ state[Manager] # "DEAD" /\ Delay(Master, "try")
     \/ state[Manager] = "DEAD" /\ LastStopListeners(Master)

\* core_manager_try_stop tells the workers on the first try and, every time,
\* joins the threads of those that are STOPPED.
TellWorkers ==
  \/ /\ state[Manager] = "RUNNING"
     /\ SendWorkers("SHUTDOWN")
  \/ state[Manager] # "RUNNING" /\ UNCHANGED comm

Joined == {w \in Workers : state[w] \in {"STOPPED", "DEAD"}}
JoinWorkers ==
  state' = [p \in Procs |-> IF p = Manager THEN "STOPPING"
                            ELSE IF p \in Joined THEN "DEAD" ELSE state[p]]

\* Mutant: a worker that has begun to stop need not be waited for.
ManagerTryStop_Hasty ==
  /\ TellWorkers
  /\ JoinWorkers
  /\ \/ (\E w \in Workers : state[w] = "RUNNING") /\ Delay(Manager, "try")
     \/ /\ \A w \in Workers : state[w] # "RUNNING"
        /\ LastStopListeners(Manager)

\* ... and waits until all of them are DEAD.
ManagerTryStop ==
  /\ TellWorkers
  /\ JoinWorkers
  /\ \/ Joined # Workers /\ Delay(Manager, "try")
     \/ Joined = Workers /\ LastStopListeners(Manager)

\* shuso_stop in the master and shuso_stop_manager in the manager: only a
\* RUNNING process publishes its stop event, whose first listener then runs.
StopMaster  == state[Master] = "RUNNING" /\ Publish(Master, "stop")
               /\ MasterTryStop
StopManager == state[Manager] = "RUNNING" /\ Publish(Manager, "stop")
               /\ ManagerTryStop

\* shuso_stop_worker in the worker itself
StopWorker(w) ==
  /\ state[w] = "RUNNING"
  /\ SetState(w, "STOPPING")
  /\ Publish(w, "stop")
  /\ LastStopListeners(w)
  /\ UNCHANGED comm

\* shutdown_handle_cb: nothing to do for a process that is already stopping.
ShutdownTimer(p) ==
  /\ pc[p] = "loop" /\ shutdown_timer[p]
  /\ shutdown_timer' = [shutdown_timer EXCEPT ![p] = FALSE]
  /\ \/ p = Master /\ StopMaster
     \/ p = Manager /\ StopManager
     \/ p \in Workers /\ StopWorker(p)
     \/ /\ state[p] = "STOPPING"
        /\ UNCHANGED <<state, comm, stop_delayed, break_timer, published>>
  /\ UNCHANGED <<pc, initialized, all_workers_running, sigchld, requests,
                 stop_asked, initializing>>

\* The delay is over: the same listener runs again.  (MaxInbox: the master
\* waits with a further SHUTDOWN while that many messages are unread.)
StopDelay(p) ==
  /\ pc[p] = "loop"
  /\ \/ /\ stop_delayed[p] = "try" /\ p = Master
        /\ state[Manager] = "RUNNING" => Len(inbox[Manager]) < MaxInbox
        /\ MasterTryStop
     \/ stop_delayed[p] = "try" /\ p = Manager /\ ManagerTryStop
     \/ /\ \/ stop_delayed[p] = "server" /\ LastStopListeners(p)
           \/ stop_delayed[p] = "lua" /\ LuaStopListener(p)
        /\ UNCHANGED <<state, comm>>
  /\ UNCHANGED <<pc, shutdown_timer, initialized, all_workers_running, sigchld,
                 published, requests, stop_asked, initializing>>

\* stop_thing_callback: ev_break
BreakTimer(p) ==
  /\ pc[p] = "loop" /\ break_timer[p]
  /\ break_timer' = [break_timer EXCEPT ![p] = FALSE]
  /\ Goto(p, "exit")
  /\ UNCHANGED <<state, comm, shutdown_timer, stop_delayed, initialized,
                 all_workers_running, sigchld, published, requests, stop_asked,
                 initializing>>

\* shuso_cleanup_loop stops the channel, which drops what is still buffered,
\* and the timers.
CleanupLoop(p) ==
  /\ outbuf' = [outbuf EXCEPT ![p] = <<>>]
  /\ shutdown_timer' = [shutdown_timer EXCEPT ![p] = FALSE]
  /\ UNCHANGED <<inbox, stop_delayed, break_timer>>

\* shuso_run after ev_run
Exit(p) ==
  /\ pc[p] = "exit" /\ p \notin Workers
  /\ Publish(p, "exit")
  /\ CleanupLoop(p)
  /\ SetState(p, "STOPPED")
  /\ Goto(p, "done")
  /\ UNCHANGED <<initialized, all_workers_running, sigchld, requests,
                 stop_asked, initializing>>

\* shuso_worker_shutdown: STOPPED is the last thing the thread writes, and
\* there is no worker.exit.
WorkerShutdown(w) ==
  /\ pc[w] = "exit"
  /\ CleanupLoop(w)
  /\ SetState(w, "STOPPED")
  /\ Goto(w, "done")
  /\ UNCHANGED <<initialized, all_workers_running, sigchld, published,
                 requests, stop_asked, initializing>>

\* The manager process ends, after shuso_run or because it was killed; its
\* worker threads end with it and the master gets a SIGCHLD.
ManagerGone ==
  /\ \/ pc[Manager] = "done"
     \/ "crash" \in Faults /\ pc[Manager] \notin {"none", "gone"}
  /\ pc' = [p \in Procs |-> IF p = Master THEN pc[p] ELSE "gone"]
  /\ sigchld' = TRUE
  /\ UNCHANGED <<state, comm, timers, initialized, all_workers_running,
                 published, requests, stop_asked, initializing>>

\* Mutant: the dead manager is recorded as never started.
Sigchild_Resets ==
  /\ pc[Master] = "loop" /\ sigchld
  /\ sigchld' = FALSE
  /\ SetState(Manager, "NIL")
  /\ \/ state[Manager] # "DEAD" /\ Publish(Master, "manager_exited")
     \/ state[Manager] = "DEAD" /\ UNCHANGED published
  /\ UNCHANGED <<pc, comm, timers, initialized, all_workers_running, requests,
                 stop_asked, initializing>>

\* shuso_handle_sigchild: shuso_stop, which it calls in a stopping master,
\* does nothing there; the delayed listener finds the manager DEAD.
Sigchild ==
  /\ pc[Master] = "loop" /\ sigchld
  /\ sigchld' = FALSE
  /\ SetState(Manager, "DEAD")
  /\ \/ state[Manager] # "DEAD" /\ Publish(Master, "manager_exited")
     \/ state[Manager] = "DEAD" /\ UNCHANGED published
  /\ UNCHANGED <<pc, comm, timers, initialized, all_workers_running, requests,
                 stop_asked, initializing>>

-----------------------------------------------------------------------------
(******************************* stop requests *****************************)

Request == requests < MaxRequests /\ requests' = requests + 1

\* shuso_stop, called in any process; SIGINT and SIGTERM in the master.
Stop(p) ==
  /\ Request /\ pc[p] = "loop"
  /\ stop_asked' = TRUE
  /\ \/ p = Master /\ StopMaster
     \/ /\ p = Manager /\ Send(inbox, Manager, Master, "SHUTDOWN")
        /\ UNCHANGED <<state, stop_delayed, break_timer, published>>
     \/ /\ p \in Workers /\ ~Refused(Master)
        /\ Send(inbox, p, Manager, "PROXY_SHUTDOWN")
        /\ UNCHANGED <<state, stop_delayed, break_timer, published>>
  /\ UNCHANGED <<pc, shutdown_timer, initialized, all_workers_running, sigchld,
                 initializing>>

\* signal_watcher_cb in the manager
ManagerSignal ==
  /\ "signal" \in Faults /\ Request /\ pc[Manager] = "loop"
  /\ \E sig \in {"SIGINT", "SIGQUIT", "SIGTERM"} :
       Send(inbox, Manager, Master, sig)
  /\ UNCHANGED <<state, pc, timers, initialized, all_workers_running, sigchld,
                 published, stop_asked, initializing>>

\* shuso_stop_worker, called in the manager
StopOneWorker(w) ==
  /\ "stop_one" \in Faults /\ Request /\ pc[Manager] = "loop"
  /\ Send(inbox, Manager, w, "SHUTDOWN")
  /\ UNCHANGED <<state, pc, timers, initialized, all_workers_running, sigchld,
                 published, stop_asked, initializing>>

-----------------------------------------------------------------------------
Startup(p) ==
  \/ p = Master /\ (MasterRun \/ Fork)
  \/ p = Manager /\ (\/ ManagerStarting \/ ManagerRunning \/ InitializeWorkers
                     \/ WorkersSpawned \/ \E w \in Workers : SpawnWorker(w))
  \/ p \in Workers /\ (WorkerStart(p) \/ WorkerReport(p))
  \/ LocalStarted(p)

ReceiveMessage(p) ==
  \/ ShutdownHandle(p)
  \/ AllWorkersStartedHandle(p)
  \/ p = Master /\ SignalHandle
  \/ p = Manager /\ (ManagerProxyHandle \/ WorkerStartedHandle)

Next ==
  \/ \E p \in Procs : \/ Startup(p) \/ ReceiveMessage(p) \/ FlushOutbuf(p)
                      \/ ShutdownTimer(p) \/ StopDelay(p) \/ BreakTimer(p)
                      \/ Exit(p) \/ Stop(p)
  \/ \E w \in Workers : WorkerShutdown(w) \/ StopOneWorker(w)
  \/ ManagerGone
  \/ Sigchild
  \/ ManagerSignal
  \/ ServerStartup

Spec == Init /\ [][Next]_vars

\* The manager is gone without having left its loop.
ManagerLost == pc[Manager] = "gone" /\ ~Published(Manager, "exit")
StillInitializing(p) == stop_delayed[p] = "server" /\ initializing

\* The scheduler runs every thread, and libev every watcher that is ready:
\* the ring's notice, each timer, the child watcher.  Lua IPC messages do not
\* stay in transit for ever: a StopDelay that repeats itself is no step.  The
\* startup of the server module, once begun, ends in every process if hosts
\* resolve and the manager stays until it exits (ServerStopCompletes and
\* ServerStartEnds of module Server).
\* Nobody is obliged to stop the server, to send signals or to crash.
Fairness ==
  /\ \A p \in Procs : /\ WF_vars(Startup(p))
                      /\ WF_vars(ReceiveMessage(p))
                      /\ WF_vars(FlushOutbuf(p))
                      /\ WF_vars(ShutdownTimer(p))
                      /\ WF_vars(StopDelay(p) /\ ~StillInitializing(p))
                      /\ WF_vars(BreakTimer(p))
                      /\ WF_vars(Exit(p))
  /\ \A w \in Workers : WF_vars(WorkerShutdown(w))
  /\ WF_vars(pc[Manager] = "done" /\ ManagerGone)
  /\ WF_vars(Sigchild)
  /\ WF_vars(ServerStartup /\ ~ManagerLost)

FairSpec == Spec /\ Fairness

-----------------------------------------------------------------------------
(******************************** properties *******************************)

Places == {"none", "run", "fork", "forked", "starting", "init", "local",
           "spawn", "start", "report", "loop", "exit", "done", "failed",
           "gone"}
Messages(p) ==
  {"SHUTDOWN"} \cup
  (IF p = Master THEN {"PROXIED_SHUTDOWN", "SIGINT", "SIGQUIT", "SIGTERM",
                       "ALL_WORKERS_STARTED"}
   ELSE IF p = Manager THEN {"PROXY_SHUTDOWN", "WORKER_STARTED"}
   ELSE {"ALL_WORKERS_STARTED"})
Events == {"start", "workers_started", "stop", "manager_exited", "exit"}

\* Type invariant.  Every message is one its receiver has a handler for: the
\* handlers assert the process they run in.
TypeOK ==
  /\ state \in [Procs -> States]
  /\ pc \in [Procs -> Places]
  /\ DOMAIN inbox = Procs /\ \A p \in Procs : inbox[p] \in Seq(Messages(p))
  /\ DOMAIN outbuf = Procs
  /\ \A p \in Procs : \A i \in DOMAIN outbuf[p] :
       \E d \in Procs, m \in UNION {Messages(q) : q \in Procs} :
         outbuf[p][i] = <<d, m>> /\ m \in Messages(d)
  /\ shutdown_timer \in [Procs -> BOOLEAN]
  /\ stop_delayed \in [Procs -> {"none", "try", "server", "lua"}]
  /\ break_timer \in [Procs -> BOOLEAN]
  /\ initialized \subseteq Workers
  /\ all_workers_running \in BOOLEAN
  /\ sigchld \in BOOLEAN
  /\ published \in [Procs -> Seq(Events)]
  /\ initializing \in BOOLEAN
  /\ requests \in 0..MaxRequests
  /\ stop_asked \in BOOLEAN

\* shuso_cleanup_loop in the manager frees the workers' rings: no worker
\* thread is left by then that could still use them.
ManagerLeavesLast ==
  pc[Manager] = "exit" \/ state[Manager] = "STOPPED" =>
    \A w \in Workers : pc[w] \in {"done", "gone"} /\ state[w] = "DEAD"

\* The master does not leave its loop while a manager it forked is at work.
MasterLeavesLast ==
  pc[Master] \in {"exit", "done"} => pc[Manager] \in {"done", "gone"}

\* The processes leave in order: workers, manager, master.
LeavesInOrder == ManagerLeavesLast /\ MasterLeavesLast

\* The events a process publishes about itself are published once each, and
\* in the manager and the workers nothing comes before start.
EventsOnce ==
  \A p \in Procs :
    /\ \A i, j \in DOMAIN published[p] :
         published[p][i] = published[p][j] => i = j
    /\ p # Master /\ published[p] # <<>> => published[p][1] = "start"

\* workers_started is only announced, anywhere, once every worker has been
\* RUNNING, whichever of them reports last and however the reports and the
\* announcements overtake each other.
StartedMeansRunning ==
  (\E p \in Procs : Published(p, "workers_started")) =>
    \A w \in Workers : state[w] \notin {"NIL", "STARTING"}

\* A runstate only moves forward, although the manager's is written by the
\* manager and by the master's SIGCHLD handler, and a worker's by the manager
\* and by the worker.
Rank(s) == CASE s = "NIL" -> 0 [] s = "STARTING" -> 1 [] s = "RUNNING" -> 2
             [] s = "STOPPING" -> 3 [] s = "STOPPED" -> 4 [] s = "DEAD" -> 5
StatesAdvance ==
  [][\A p \in Procs : Rank(state'[p]) >= Rank(state[p])]_vars

\* Once all workers have started, a master that has begun to stop comes to its
\* end: through the manager and all the workers, or through the manager's
\* death.  A manager that is killed in the startup of the server module leaves
\* the master's part of it unfinished, and its stop delayed (Orphaned).
Orphaned == ManagerLost /\ initializing
StopCompletes ==
  state[Master] = "STOPPING" /\ Announced ~> pc[Master] = "done" \/ Orphaned

\* The manager has died or been stopped on its own, or has lost a worker.
Broken == \/ pc[Manager] = "gone" \/ state[Manager] \in {"STOPPING", "STOPPED"}
          \/ \E w \in Workers : pc[w] \in {"failed", "gone"}

\* shuso_stop in any process stops the whole server, once all workers have
\* started, unless the manager is lost that has to relay it.
StopReachesMaster ==
  stop_asked /\ Announced ~> (pc[Master] = "done" \/ pc[Manager] = "gone")

\* "still initializing" (the reason delay_stopping gives for a delay): a
\* process whose stop waits for the startup of the server module does not wait
\* for ever.
InitializingEnds ==
  \A p \in Procs : stop_delayed[p] = "server" ~> stop_delayed[p] # "server"

\* A server that nobody stops, and that loses no process, comes up completely.
StartCompletes ==
  <>(stop_asked \/ Published(Master, "workers_started") \/ Broken)

\* "forward it to all the workers": a manager that stops gets every worker
\* that runs to stop.
ForwardedToAll ==
  \A w \in Workers : state[Manager] = "STOPPING" ~> state[w] # "RUNNING"
=============================================================================
