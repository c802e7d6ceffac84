-------------------------- MODULE LifecycleProofs ---------------------------
(***************************************************************************)
(* Proofs about start and stop for every number of workers and every       *)
(* choice of what may go wrong.                                            *)
(***************************************************************************)
EXTENDS Lifecycle, FiniteSetTheorems, FunctionTheorems,
        WellFoundedInduction, TLAPS

(***************************** the invariant *******************************)

\* The part of the type invariant that the runstates depend on.
RunType == /\ state \in [Procs -> States]
           /\ pc \in [Procs -> Places]
           /\ stop_delayed \in [Procs -> {"none", "try", "server", "lua"}]
           /\ break_timer \in [Procs -> BOOLEAN]
           /\ sigchld \in BOOLEAN

\* What a thread has written to its runstate by the time it is at a place,
\* and where it may be once others have written to it.
PlaceState ==
  \A p \in Procs :
    /\ pc[p] \in {"none", "forked"} => state[p] = "NIL"
    /\ pc[p] \in {"run", "starting", "failed"} => state[p] = "STARTING"
    /\ pc[p] \in {"fork", "init", "spawn", "start", "report"} =>
         state[p] = "RUNNING"
    /\ pc[p] = "local" =>
         state[p] = IF p \in Workers THEN "STARTING" ELSE "RUNNING"
    /\ pc[p] = "loop" => state[p] \in {"RUNNING", "STOPPING"}
    /\ pc[p] = "exit" => state[p] = "STOPPING"
    /\ pc[p] = "done" => state[p] \in {"STOPPED", "DEAD"}

\* Only a process that stops waits in its stop event or for its loop's end.
StopPlace ==
  \A p \in Procs : stop_delayed[p] # "none" \/ break_timer[p] =>
    /\ pc[p] \in {"loop", "exit", "done", "gone"}
    /\ pc[p] = "loop" => state[p] = "STOPPING"

\* The manager is there before its workers and they go with it.
Nesting ==
  /\ pc[Master] \in {"run", "fork"} => pc[Manager] = "none"
  /\ \A w \in Workers :
       /\ pc[w] # "none" =>
            pc[Manager] \in {"spawn", "loop", "exit", "done", "gone"}
       /\ pc[w] = "gone" => pc[Manager] = "gone"
  /\ sigchld => pc[Manager] = "gone"

\* The stop event of a process has got past the listener that waits for the
\* processes below it.
PastTry(p) ==
  pc[p] = "loop" /\ (break_timer[p] \/ stop_delayed[p] \in {"server", "lua"})

WorkersLeft ==
  PastTry(Manager) \/ pc[Manager] = "exit" \/ state[Manager] = "STOPPED" =>
    \A w \in Workers : pc[w] \in {"done", "gone"} /\ state[w] = "DEAD"

ManagerLeft ==
  PastTry(Master) \/ pc[Master] \in {"exit", "done"} =>
    pc[Manager] \in {"done", "gone"}

RunInv == /\ RunType /\ PlaceState /\ StopPlace /\ Nesting
          /\ WorkersLeft /\ ManagerLeft
(* Master, manager and workers are different processes, and all there are. *)
LEMMA ProcFacts ==
  /\ Master \in Procs /\ Manager \in Procs /\ Master # Manager
  /\ \A w \in Workers : w \in Procs /\ w # Master /\ w # Manager
  /\ \A p \in Procs : p = Master \/ p = Manager \/ p \in Workers
  BY LifecycleAssumption DEF Procs, Workers, Master, Manager

-----------------------------------------------------------------------------
(************************ steps keep the invariant *************************)

\* What every step does: runstates move forward.
Advances == \A p \in Procs : Rank(state'[p]) >= Rank(state[p])

\* A step that has nothing to do with starting and stopping.
RunUnchanged == UNCHANGED <<state, pc, stop_delayed, break_timer, sigchld>>

\* A step that leaves the processes and their stops alone keeps the invariant.
LEMMA QuietStep ==
  ASSUME RunInv, RunUnchanged
  PROVE  RunInv' /\ Advances
  <1>1. RunType' /\ PlaceState' /\ StopPlace' /\ Nesting'
    BY DEF RunInv, RunUnchanged, RunType, PlaceState, StopPlace, Nesting
  <1>2. WorkersLeft' /\ ManagerLeft'
    BY DEF RunInv, RunUnchanged, WorkersLeft, ManagerLeft, PastTry
  <1>3. Advances
    <2>1. \A s \in States : Rank(s) \in Int
      BY DEF States, Rank
    <2>2. \A p \in Procs : state'[p] = state[p] /\ Rank(state[p]) \in Int
      BY <2>1 DEF RunInv, RunType, RunUnchanged
    <2> QED
      BY <2>2 DEF Advances
  <1> QED
    BY <1>1, <1>2, <1>3 DEF RunInv

(* The order of the runstates. *)
LEMMA RankFacts ==
  /\ Rank("NIL") = 0 /\ Rank("STARTING") = 1 /\ Rank("RUNNING") = 2
  /\ Rank("STOPPING") = 3 /\ Rank("STOPPED") = 4 /\ Rank("DEAD") = 5
  /\ \A s \in States : Rank(s) \in 0..5
  <1>1. /\ Rank("NIL") = 0 /\ Rank("STARTING") = 1 /\ Rank("RUNNING") = 2
        /\ Rank("STOPPING") = 3 /\ Rank("STOPPED") = 4 /\ Rank("DEAD") = 5
    BY DEF Rank
  <1>2. 0 \in 0..5 /\ 1 \in 0..5 /\ 2 \in 0..5 /\ 3 \in 0..5 /\ 4 \in 0..5
        /\ 5 \in 0..5
    OBVIOUS
  <1> QED
    BY <1>1, <1>2 DEF States

(* One lemma for each step that starts a process. *)
LEMMA MasterRunStep ==
  ASSUME RunInv, MasterRun
  PROVE  RunInv' /\ Advances
  <1>1. /\ pc[Master] = "run"
        /\ state' = [state EXCEPT ![Master] = "RUNNING"]
        /\ pc' = [pc EXCEPT ![Master] = "fork"]
        /\ UNCHANGED <<stop_delayed, break_timer, sigchld>>
    BY DEF MasterRun, SetState, Goto, timers
  <1>2. RunType'
    BY <1>1, ProcFacts DEF RunInv, RunType, States, Places
  <1>3. PlaceState'
    BY <1>1, ProcFacts DEF RunInv, RunType, PlaceState
  <1>4. StopPlace'
    BY <1>1, ProcFacts DEF RunInv, RunType, StopPlace
  <1>5. Nesting'
    BY <1>1, ProcFacts DEF RunInv, RunType, Nesting
  <1>6. WorkersLeft'
    BY <1>1, ProcFacts
    DEF RunInv, RunType, PlaceState, StopPlace, WorkersLeft, PastTry
  <1>7. ManagerLeft'
    BY <1>1, ProcFacts
    DEF RunInv, RunType, PlaceState, StopPlace, ManagerLeft, PastTry
  <1>8. Advances
    BY <1>1, ProcFacts, RankFacts
    DEF RunInv, RunType, PlaceState, Advances
  <1> QED
    BY <1>2, <1>3, <1>4, <1>5, <1>6, <1>7, <1>8 DEF RunInv

(* shuso_fork_manager, in the master. *)
LEMMA ForkStep ==
  ASSUME RunInv, Fork
  PROVE  RunInv' /\ Advances
  <1>1. /\ pc[Master] = "fork" /\ pc[Manager] = "none"
        /\ pc' = [pc EXCEPT ![Master] = "local", ![Manager] = "forked"]
        /\ UNCHANGED <<state, stop_delayed, break_timer, sigchld>>
    BY DEF Fork, timers, RunInv, Nesting
  <1>2. RunType'
    BY <1>1, ProcFacts DEF RunInv, RunType, States, Places
  <1>3. PlaceState'
    BY <1>1, ProcFacts DEF RunInv, RunType, PlaceState
  <1>4. StopPlace'
    BY <1>1, ProcFacts DEF RunInv, RunType, StopPlace
  <1>5. Nesting'
    BY <1>1, ProcFacts DEF RunInv, RunType, Nesting
  <1>6. WorkersLeft'
    BY <1>1, ProcFacts
    DEF RunInv, RunType, PlaceState, StopPlace, WorkersLeft, PastTry
  <1>7. ManagerLeft'
    BY <1>1, ProcFacts
    DEF RunInv, RunType, PlaceState, StopPlace, ManagerLeft, PastTry
  <1>8. Advances
    BY <1>1, ProcFacts, RankFacts
    DEF RunInv, RunType, PlaceState, Advances
  <1> QED
    BY <1>2, <1>3, <1>4, <1>5, <1>6, <1>7, <1>8 DEF RunInv

(* shuso_fork_manager, in the manager. *)
LEMMA ManagerStartingStep ==
  ASSUME RunInv, ManagerStarting
  PROVE  RunInv' /\ Advances
  <1>1. /\ pc[Manager] = "forked"
        /\ state' = [state EXCEPT ![Manager] = "STARTING"]
        /\ pc' = [pc EXCEPT ![Manager] = "starting"]
        /\ UNCHANGED <<stop_delayed, break_timer, sigchld>>
    BY DEF ManagerStarting, SetState, Goto, timers
  <1>2. RunType'
    BY <1>1, ProcFacts DEF RunInv, RunType, States, Places
  <1>3. PlaceState'
    BY <1>1, ProcFacts DEF RunInv, RunType, PlaceState
  <1>4. StopPlace'
    BY <1>1, ProcFacts DEF RunInv, RunType, StopPlace
  <1>5. Nesting'
    BY <1>1, ProcFacts DEF RunInv, RunType, Nesting
  <1>6. WorkersLeft'
    BY <1>1, ProcFacts
    DEF RunInv, RunType, PlaceState, StopPlace, WorkersLeft, PastTry
  <1>7. ManagerLeft'
    BY <1>1, ProcFacts
    DEF RunInv, RunType, PlaceState, StopPlace, ManagerLeft, PastTry
  <1>8. Advances
    BY <1>1, ProcFacts, RankFacts
    DEF RunInv, RunType, PlaceState, Advances
  <1> QED
    BY <1>2, <1>3, <1>4, <1>5, <1>6, <1>7, <1>8 DEF RunInv

(* The manager has the state of a running process. *)
LEMMA ManagerRunningStep ==
  ASSUME RunInv, ManagerRunning
  PROVE  RunInv' /\ Advances
  <1>1. /\ pc[Manager] = "starting"
        /\ state' = [state EXCEPT ![Manager] = "RUNNING"]
        /\ pc' = [pc EXCEPT ![Manager] = "init"]
        /\ UNCHANGED <<stop_delayed, break_timer, sigchld>>
    BY DEF ManagerRunning, SetState, Goto, timers
  <1>2. RunType'
    BY <1>1, ProcFacts DEF RunInv, RunType, States, Places
  <1>3. PlaceState'
    BY <1>1, ProcFacts DEF RunInv, RunType, PlaceState
  <1>4. StopPlace'
    BY <1>1, ProcFacts DEF RunInv, RunType, StopPlace
  <1>5. Nesting'
    BY <1>1, ProcFacts DEF RunInv, RunType, Nesting
  <1>6. WorkersLeft'
    BY <1>1, ProcFacts
    DEF RunInv, RunType, PlaceState, StopPlace, WorkersLeft, PastTry
  <1>7. ManagerLeft'
    BY <1>1, ProcFacts
    DEF RunInv, RunType, PlaceState, StopPlace, ManagerLeft, PastTry
  <1>8. Advances
    BY <1>1, ProcFacts, RankFacts
    DEF RunInv, RunType, PlaceState, Advances
  <1> QED
    BY <1>2, <1>3, <1>4, <1>5, <1>6, <1>7, <1>8 DEF RunInv

(* Workers that are not initialized keep the state NIL. *)
LEMMA InitializeWorkersStep ==
  ASSUME RunInv, InitializeWorkers
  PROVE  RunInv' /\ Advances
  <1>1. /\ pc[Manager] = "init"
        /\ pc' = [pc EXCEPT ![Manager] = "local"]
        /\ UNCHANGED <<state, stop_delayed, break_timer, sigchld>>
    BY DEF InitializeWorkers, Goto, timers
  <1>2. RunType'
    BY <1>1, ProcFacts DEF RunInv, RunType, States, Places
  <1>3. PlaceState'
    BY <1>1, ProcFacts DEF RunInv, RunType, PlaceState
  <1>4. StopPlace'
    BY <1>1, ProcFacts DEF RunInv, RunType, StopPlace
  <1>5. Nesting'
    BY <1>1, ProcFacts DEF RunInv, RunType, Nesting
  <1>6. WorkersLeft'
    BY <1>1, ProcFacts
    DEF RunInv, RunType, PlaceState, StopPlace, WorkersLeft, PastTry
  <1>7. ManagerLeft'
    BY <1>1, ProcFacts
    DEF RunInv, RunType, PlaceState, StopPlace, ManagerLeft, PastTry
  <1>8. Advances
    BY <1>1, ProcFacts, RankFacts
    DEF RunInv, RunType, PlaceState, Advances
  <1> QED
    BY <1>2, <1>3, <1>4, <1>5, <1>6, <1>7, <1>8 DEF RunInv

(* A process has started its channel. *)
LEMMA LocalStartedStep ==
  ASSUME RunInv, NEW p \in Procs, LocalStarted(p)
  PROVE  RunInv' /\ Advances
  <1>1. /\ pc[p] = "local"
        /\ \/ /\ p = Master /\ state' = state
              /\ pc' = [pc EXCEPT ![p] = "loop"]
           \/ /\ p = Manager /\ state' = state
              /\ pc' = [pc EXCEPT ![p] = "spawn"]
           \/ /\ p \in Workers /\ state' = [state EXCEPT ![p] = "RUNNING"]
              /\ pc' = [pc EXCEPT ![p] = "start"]
        /\ UNCHANGED <<stop_delayed, break_timer, sigchld>>
    BY DEF LocalStarted, SetState, Goto, timers
  <1>2. RunType'
    BY <1>1, ProcFacts DEF RunInv, RunType, States, Places
  <1>3. PlaceState'
    BY <1>1, ProcFacts DEF RunInv, RunType, PlaceState
  <1>4. StopPlace'
    BY <1>1, ProcFacts DEF RunInv, RunType, StopPlace
  <1>5. Nesting'
    BY <1>1, ProcFacts DEF RunInv, RunType, Nesting
  <1>6. WorkersLeft'
    BY <1>1, ProcFacts
    DEF RunInv, RunType, PlaceState, StopPlace, WorkersLeft, PastTry
  <1>7. ManagerLeft'
    BY <1>1, ProcFacts
    DEF RunInv, RunType, PlaceState, StopPlace, ManagerLeft, PastTry
  <1>8. Advances
    BY <1>1, ProcFacts, RankFacts
    DEF RunInv, RunType, PlaceState, Advances
  <1> QED
    BY <1>2, <1>3, <1>4, <1>5, <1>6, <1>7, <1>8 DEF RunInv

(* A worker's thread is created, or is not. *)
LEMMA SpawnWorkerStep ==
  ASSUME RunInv, NEW w \in Workers, SpawnWorker(w)
  PROVE  RunInv' /\ Advances
  <1>1. /\ pc[Manager] = "spawn" /\ state[w] = "NIL"
        /\ state' = [state EXCEPT ![w] = "STARTING"]
        /\ \/ pc' = [pc EXCEPT ![w] = "local"]
           \/ pc' = [pc EXCEPT ![w] = "failed"]
        /\ UNCHANGED <<stop_delayed, break_timer, sigchld>>
    BY DEF SpawnWorker, SetState, Goto, timers
  <1>2. RunType'
    BY <1>1, ProcFacts DEF RunInv, RunType, States, Places
  <1>3. PlaceState'
    BY <1>1, ProcFacts DEF RunInv, RunType, PlaceState
  <1>4. StopPlace'
    BY <1>1, ProcFacts DEF RunInv, RunType, PlaceState, Nesting, StopPlace
  <1>5. Nesting'
    BY <1>1, ProcFacts DEF RunInv, RunType, Nesting
  <1>6. WorkersLeft'
    BY <1>1, ProcFacts
    DEF RunInv, RunType, PlaceState, StopPlace, WorkersLeft, PastTry
  <1>7. ManagerLeft'
    BY <1>1, ProcFacts
    DEF RunInv, RunType, PlaceState, StopPlace, ManagerLeft, PastTry
  <1>8. Advances
    BY <1>1, ProcFacts, RankFacts
    DEF RunInv, RunType, PlaceState, Advances
  <1> QED
    BY <1>2, <1>3, <1>4, <1>5, <1>6, <1>7, <1>8 DEF RunInv

(* The manager enters its loop or gives up. *)
LEMMA WorkersSpawnedStep ==
  ASSUME RunInv, WorkersSpawned
  PROVE  RunInv' /\ Advances
  <1>1. /\ pc[Manager] = "spawn"
        /\ \/ /\ state' = [state EXCEPT ![Manager] = "DEAD"]
              /\ pc' = [pc EXCEPT ![Manager] = "done"]
           \/ /\ state' = state
              /\ pc' = [pc EXCEPT ![Manager] = "loop"]
        /\ UNCHANGED <<stop_delayed, break_timer, sigchld>>
    BY DEF WorkersSpawned, SetState, Goto, timers
  <1>2. RunType'
    BY <1>1, ProcFacts DEF RunInv, RunType, States, Places
  <1>3. PlaceState'
    BY <1>1, ProcFacts DEF RunInv, RunType, PlaceState
  <1>4. StopPlace'
    BY <1>1, ProcFacts DEF RunInv, RunType, StopPlace
  <1>5. Nesting'
    BY <1>1, ProcFacts DEF RunInv, RunType, Nesting
  <1>6. WorkersLeft'
    BY <1>1, ProcFacts
    DEF RunInv, RunType, PlaceState, StopPlace, WorkersLeft, PastTry
  <1>7. ManagerLeft'
    BY <1>1, ProcFacts
    DEF RunInv, RunType, PlaceState, StopPlace, ManagerLeft, PastTry
  <1>8. Advances
    BY <1>1, ProcFacts, RankFacts
    DEF RunInv, RunType, PlaceState, Advances
  <1> QED
    BY <1>2, <1>3, <1>4, <1>5, <1>6, <1>7, <1>8 DEF RunInv

(* A worker publishes worker.start ... *)
LEMMA WorkerStartStep ==
  ASSUME RunInv, NEW w \in Workers, WorkerStart(w)
  PROVE  RunInv' /\ Advances
  <1>1. /\ pc[w] = "start"
        /\ pc' = [pc EXCEPT ![w] = "report"]
        /\ UNCHANGED <<state, stop_delayed, break_timer, sigchld>>
    BY DEF WorkerStart, Goto, timers
  <1>2. RunType'
    BY <1>1, ProcFacts DEF RunInv, RunType, States, Places
  <1>3. PlaceState'
    BY <1>1, ProcFacts DEF RunInv, RunType, PlaceState
  <1>4. StopPlace'
    BY <1>1, ProcFacts DEF RunInv, RunType, StopPlace
  <1>5. Nesting'
    BY <1>1, ProcFacts DEF RunInv, RunType, Nesting
  <1>6. WorkersLeft'
    BY <1>1, ProcFacts
    DEF RunInv, RunType, PlaceState, StopPlace, WorkersLeft, PastTry
  <1>7. ManagerLeft'
    BY <1>1, ProcFacts
    DEF RunInv, RunType, PlaceState, StopPlace, ManagerLeft, PastTry
  <1>8. Advances
    BY <1>1, ProcFacts, RankFacts
    DEF RunInv, RunType, PlaceState, Advances
  <1> QED
    BY <1>2, <1>3, <1>4, <1>5, <1>6, <1>7, <1>8 DEF RunInv

(* ... and reports to the manager. *)
LEMMA WorkerReportStep ==
  ASSUME RunInv, NEW w \in Workers, WorkerReport(w)
  PROVE  RunInv' /\ Advances
  <1>1. /\ pc[w] = "report"
        /\ pc' = [pc EXCEPT ![w] = "loop"]
        /\ UNCHANGED <<state, stop_delayed, break_timer, sigchld>>
    BY DEF WorkerReport, Goto, timers
  <1>2. RunType'
    BY <1>1, ProcFacts DEF RunInv, RunType, States, Places
  <1>3. PlaceState'
    BY <1>1, ProcFacts DEF RunInv, RunType, PlaceState
  <1>4. StopPlace'
    BY <1>1, ProcFacts DEF RunInv, RunType, StopPlace
  <1>5. Nesting'
    BY <1>1, ProcFacts DEF RunInv, RunType, Nesting
  <1>6. WorkersLeft'
    BY <1>1, ProcFacts
    DEF RunInv, RunType, PlaceState, StopPlace, WorkersLeft, PastTry
  <1>7. ManagerLeft'
    BY <1>1, ProcFacts
    DEF RunInv, RunType, PlaceState, StopPlace, ManagerLeft, PastTry
  <1>8. Advances
    BY <1>1, ProcFacts, RankFacts
    DEF RunInv, RunType, PlaceState, Advances
  <1> QED
    BY <1>2, <1>3, <1>4, <1>5, <1>6, <1>7, <1>8 DEF RunInv

(* The end of a stop event: wait for the servers to start or for Lua, or   *)
(* set the timer.                                                          *)
Ends(p) ==
  \/ /\ \/ stop_delayed' = [stop_delayed EXCEPT ![p] = "server"]
        \/ stop_delayed' = [stop_delayed EXCEPT ![p] = "lua"]
     /\ break_timer' = break_timer
  \/ /\ stop_delayed' = [stop_delayed EXCEPT ![p] = "none"]
     /\ break_timer' = [break_timer EXCEPT ![p] = TRUE]

LEMMA LastStopListenersEffect ==
  ASSUME NEW p \in Procs, LastStopListeners(p) \/ LuaStopListener(p)
  PROVE  Ends(p)
  BY DEF LastStopListeners, LuaStopListener, Delay, Ends

(* core_master_try_stop, called by shuso_stop or again after a delay. *)
LEMMA MasterTryStopStep ==
  ASSUME RunInv, MasterTryStop, pc[Master] = "loop", UNCHANGED <<pc, sigchld>>
  PROVE  RunInv' /\ Advances
  <1>1. /\ state' = [state EXCEPT ![Master] = "STOPPING"]
        /\ \/ /\ stop_delayed' = [stop_delayed EXCEPT ![Master] = "try"]
              /\ break_timer' = break_timer
           \/ state[Manager] = "DEAD" /\ Ends(Master)
    BY ProcFacts, LastStopListenersEffect DEF MasterTryStop, Delay, SetState
  <1>2. state[Manager] = "DEAD" => pc[Manager] \in {"done", "gone"}
    BY ProcFacts DEF RunInv, RunType, PlaceState, Places
  <1>3. RunType'
    BY <1>1, <1>2, ProcFacts DEF RunInv, RunType, States, Places, Ends
  <1>4. PlaceState'
    BY <1>1, <1>2, ProcFacts DEF RunInv, RunType, PlaceState
  <1>5. StopPlace'
    BY <1>1, <1>2, ProcFacts DEF RunInv, RunType, StopPlace, Ends
  <1>6. Nesting'
    BY <1>1, <1>2, ProcFacts DEF RunInv, RunType, Nesting
  <1>7. WorkersLeft'
    BY <1>1, <1>2, ProcFacts
    DEF RunInv, RunType, PlaceState, StopPlace, WorkersLeft, PastTry,
        Ends
  <1>8. ManagerLeft'
    BY <1>1, <1>2, ProcFacts
    DEF RunInv, RunType, PlaceState, StopPlace, ManagerLeft, PastTry,
        Ends
  <1>9. Advances
    BY <1>1, <1>2, ProcFacts, RankFacts
    DEF RunInv, RunType, PlaceState, Advances
  <1> QED
    BY <1>3, <1>4, <1>5, <1>6, <1>7, <1>8, <1>9 DEF RunInv

(* core_manager_try_stop, likewise: workers found STOPPED become DEAD. *)
LEMMA ManagerTryStopStep ==
  ASSUME RunInv, ManagerTryStop, pc[Manager] = "loop", UNCHANGED <<pc, sigchld>>
  PROVE  RunInv' /\ Advances
  <1>1. /\ state' \in [Procs -> States]
        /\ state'[Manager] = "STOPPING" /\ state'[Master] = state[Master]
        /\ \A w \in Workers :
             state'[w] = IF state[w] \in {"STOPPED", "DEAD"} THEN "DEAD"
                         ELSE state[w]
    <2>1. state \in [Procs -> States]
      BY DEF RunInv, RunType
    <2> QED
      BY <2>1, ProcFacts DEF ManagerTryStop, JoinWorkers, Joined, States
  <1>2. \/ /\ stop_delayed' = [stop_delayed EXCEPT ![Manager] = "try"]
           /\ break_timer' = break_timer
        \/ /\ \A w \in Workers : state[w] \in {"STOPPED", "DEAD"}
           /\ Ends(Manager)
    BY ProcFacts, LastStopListenersEffect DEF ManagerTryStop, Delay, Joined
  <1>3. \A w \in Workers : state[w] \in {"STOPPED", "DEAD"} =>
                            pc[w] \in {"done", "gone"}
    BY ProcFacts DEF RunInv, RunType, PlaceState, Places
  <1>4. RunType'
    BY <1>1, <1>2, <1>3, ProcFacts DEF RunInv, RunType, States, Places, Ends
  <1>5. PlaceState'
    BY <1>1, <1>2, <1>3, ProcFacts DEF RunInv, RunType, PlaceState
  <1>6. StopPlace'
    BY <1>1, <1>2, <1>3, ProcFacts DEF RunInv, RunType, StopPlace, Ends
  <1>7. Nesting'
    BY <1>1, <1>2, <1>3, ProcFacts DEF RunInv, RunType, Nesting
  <1>8. WorkersLeft'
    BY <1>1, <1>2, <1>3, ProcFacts
    DEF RunInv, RunType, PlaceState, StopPlace, WorkersLeft, PastTry,
        Ends
  <1>9. ManagerLeft'
    BY <1>1, <1>2, <1>3, ProcFacts
    DEF RunInv, RunType, PlaceState, StopPlace, ManagerLeft, PastTry,
        Ends
  <1>10. Advances
    BY <1>1, <1>2, <1>3, ProcFacts, RankFacts
    DEF RunInv, RunType, PlaceState, Advances
  <1> QED
    BY <1>4, <1>5, <1>6, <1>7, <1>8, <1>9, <1>10 DEF RunInv

(* shuso_stop_worker in the worker. *)
LEMMA StopWorkerStep ==
  ASSUME RunInv, NEW w \in Workers, StopWorker(w), pc[w] = "loop",
         UNCHANGED <<pc, sigchld>>
  PROVE  RunInv' /\ Advances
  <1>1. /\ state[w] = "RUNNING" /\ state' = [state EXCEPT ![w] = "STOPPING"]
        /\ Ends(w)
    BY ProcFacts, LastStopListenersEffect DEF StopWorker, SetState
  <1>2. RunType'
    BY <1>1, ProcFacts DEF RunInv, RunType, States, Places, Ends
  <1>3. PlaceState'
    BY <1>1, ProcFacts DEF RunInv, RunType, PlaceState
  <1>4. StopPlace'
    BY <1>1, ProcFacts DEF RunInv, RunType, StopPlace, Ends
  <1>5. Nesting'
    BY <1>1, ProcFacts DEF RunInv, RunType, Nesting
  <1>6. WorkersLeft'
    BY <1>1, ProcFacts
    DEF RunInv, RunType, PlaceState, StopPlace, WorkersLeft, PastTry,
        Ends
  <1>7. ManagerLeft'
    BY <1>1, ProcFacts
    DEF RunInv, RunType, PlaceState, StopPlace, ManagerLeft, PastTry,
        Ends
  <1>8. Advances
    BY <1>1, ProcFacts, RankFacts
    DEF RunInv, RunType, PlaceState, Advances
  <1> QED
    BY <1>2, <1>3, <1>4, <1>5, <1>6, <1>7, <1>8 DEF RunInv

(* One of the last listeners runs again after its delay. *)
LEMMA LateDelayStep ==
  ASSUME RunInv, NEW p \in Procs, LastStopListeners(p) \/ LuaStopListener(p),
         pc[p] = "loop", stop_delayed[p] \in {"server", "lua"},
         UNCHANGED <<state, pc, sigchld>>
  PROVE  RunInv' /\ Advances
  <1>1. Ends(p)
    BY LastStopListenersEffect
  <1>2. RunType'
    BY <1>1, ProcFacts DEF RunInv, RunType, States, Places, Ends
  <1>3. PlaceState'
    BY <1>1, ProcFacts DEF RunInv, RunType, PlaceState
  <1>4. StopPlace'
    BY <1>1, ProcFacts DEF RunInv, RunType, StopPlace, Ends
  <1>5. Nesting'
    BY <1>1, ProcFacts DEF RunInv, RunType, Nesting
  <1>6. WorkersLeft'
    BY <1>1, ProcFacts
    DEF RunInv, RunType, PlaceState, StopPlace, WorkersLeft, PastTry,
        Ends
  <1>7. ManagerLeft'
    BY <1>1, ProcFacts
    DEF RunInv, RunType, PlaceState, StopPlace, ManagerLeft, PastTry,
        Ends
  <1>8. Advances
    BY <1>1, ProcFacts, RankFacts
    DEF RunInv, RunType, PlaceState, Advances
  <1> QED
    BY <1>2, <1>3, <1>4, <1>5, <1>6, <1>7, <1>8 DEF RunInv

(* A process leaves its loop ... *)
LEMMA BreakTimerStep ==
  ASSUME RunInv, NEW p \in Procs, BreakTimer(p)
  PROVE  RunInv' /\ Advances
  <1>1. /\ pc[p] = "loop" /\ break_timer[p]
        /\ break_timer' = [break_timer EXCEPT ![p] = FALSE]
        /\ pc' = [pc EXCEPT ![p] = "exit"]
        /\ UNCHANGED <<state, stop_delayed, sigchld>>
    BY DEF BreakTimer, Goto
  <1>2. RunType'
    BY <1>1, ProcFacts DEF RunInv, RunType, States, Places
  <1>3. PlaceState'
    BY <1>1, ProcFacts DEF RunInv, RunType, PlaceState, StopPlace
  <1>4. StopPlace'
    BY <1>1, ProcFacts DEF RunInv, RunType, StopPlace
  <1>5. Nesting'
    BY <1>1, ProcFacts DEF RunInv, RunType, Nesting
  <1>6. WorkersLeft'
    BY <1>1, ProcFacts
    DEF RunInv, RunType, PlaceState, StopPlace, WorkersLeft, PastTry
  <1>7. ManagerLeft'
    BY <1>1, ProcFacts
    DEF RunInv, RunType, PlaceState, StopPlace, ManagerLeft, PastTry
  <1>8. Advances
    BY <1>1, ProcFacts, RankFacts
    DEF RunInv, RunType, PlaceState, Advances
  <1> QED
    BY <1>2, <1>3, <1>4, <1>5, <1>6, <1>7, <1>8 DEF RunInv

(* ... and is through with shuso_run or shuso_run_worker. *)
LEMMA ExitStep ==
  ASSUME RunInv, NEW p \in Procs, Exit(p) \/ WorkerShutdown(p)
  PROVE  RunInv' /\ Advances
  <1>1. /\ pc[p] = "exit"
        /\ state' = [state EXCEPT ![p] = "STOPPED"]
        /\ pc' = [pc EXCEPT ![p] = "done"]
        /\ UNCHANGED <<stop_delayed, break_timer, sigchld>>
    BY DEF Exit, WorkerShutdown, CleanupLoop, SetState, Goto
  <1>2. RunType'
    BY <1>1, ProcFacts DEF RunInv, RunType, States, Places
  <1>3. PlaceState'
    BY <1>1, ProcFacts DEF RunInv, RunType, PlaceState
  <1>4. StopPlace'
    BY <1>1, ProcFacts DEF RunInv, RunType, StopPlace
  <1>5. Nesting'
    BY <1>1, ProcFacts DEF RunInv, RunType, Nesting
  <1>6. WorkersLeft'
    BY <1>1, ProcFacts
    DEF RunInv, RunType, PlaceState, StopPlace, WorkersLeft, PastTry
  <1>7. ManagerLeft'
    BY <1>1, ProcFacts
    DEF RunInv, RunType, PlaceState, StopPlace, ManagerLeft, PastTry
  <1>8. Advances
    BY <1>1, ProcFacts, RankFacts
    DEF RunInv, RunType, PlaceState, Advances
  <1> QED
    BY <1>2, <1>3, <1>4, <1>5, <1>6, <1>7, <1>8 DEF RunInv

(* The manager process and its threads end. *)
LEMMA ManagerGoneStep ==
  ASSUME RunInv, ManagerGone
  PROVE  RunInv' /\ Advances
  <1>1. /\ pc' = [p \in Procs |-> IF p = Master THEN pc[p] ELSE "gone"]
        /\ pc[Manager] # "none" /\ sigchld' = TRUE
        /\ UNCHANGED <<state, stop_delayed, break_timer>>
    BY DEF ManagerGone, timers
  <1>2. RunType'
    BY <1>1, ProcFacts DEF RunInv, RunType, States, Places
  <1>3. PlaceState'
    BY <1>1, ProcFacts DEF RunInv, RunType, PlaceState
  <1>4. StopPlace'
    BY <1>1, ProcFacts DEF RunInv, RunType, StopPlace
  <1>5. Nesting'
    BY <1>1, ProcFacts DEF RunInv, RunType, Nesting
  <1>6. WorkersLeft'
    BY <1>1, ProcFacts
    DEF RunInv, RunType, PlaceState, StopPlace, WorkersLeft, PastTry
  <1>7. ManagerLeft'
    BY <1>1, ProcFacts
    DEF RunInv, RunType, PlaceState, StopPlace, ManagerLeft, PastTry
  <1>8. Advances
    BY <1>1, ProcFacts, RankFacts
    DEF RunInv, RunType, PlaceState, Advances
  <1> QED
    BY <1>2, <1>3, <1>4, <1>5, <1>6, <1>7, <1>8 DEF RunInv

(* shuso_handle_sigchild *)
LEMMA SigchildStep ==
  ASSUME RunInv, Sigchild
  PROVE  RunInv' /\ Advances
  <1>1. /\ sigchld /\ pc[Manager] = "gone" /\ sigchld' = FALSE
        /\ state' = [state EXCEPT ![Manager] = "DEAD"]
        /\ UNCHANGED <<pc, stop_delayed, break_timer>>
    BY DEF Sigchild, SetState, timers, RunInv, Nesting
  <1>2. RunType'
    BY <1>1, ProcFacts DEF RunInv, RunType, States, Places
  <1>3. PlaceState'
    BY <1>1, ProcFacts DEF RunInv, RunType, PlaceState
  <1>4. StopPlace'
    BY <1>1, ProcFacts DEF RunInv, RunType, StopPlace
  <1>5. Nesting'
    BY <1>1, ProcFacts DEF RunInv, RunType, Nesting
  <1>6. WorkersLeft'
    BY <1>1, ProcFacts
    DEF RunInv, RunType, PlaceState, StopPlace, WorkersLeft, PastTry
  <1>7. ManagerLeft'
    BY <1>1, ProcFacts
    DEF RunInv, RunType, PlaceState, StopPlace, ManagerLeft, PastTry
  <1>8. Advances
    BY <1>1, ProcFacts, RankFacts
    DEF RunInv, RunType, PlaceState, Advances
  <1> QED
    BY <1>2, <1>3, <1>4, <1>5, <1>6, <1>7, <1>8 DEF RunInv

-----------------------------------------------------------------------------
\* The invariant holds before the master starts.
LEMMA RunInit == Init => RunInv
  <1> SUFFICES ASSUME Init PROVE RunInv
    OBVIOUS
  <1>1. /\ state = [p \in Procs |-> IF p = Master THEN "STARTING" ELSE "NIL"]
        /\ pc = [p \in Procs |-> IF p = Master THEN "run" ELSE "none"]
        /\ stop_delayed = [p \in Procs |-> "none"]
        /\ break_timer = [p \in Procs |-> FALSE]
        /\ sigchld = FALSE
    BY DEF Init
  <1>2. RunType
    BY <1>1 DEF RunType, States, Places
  <1>3. PlaceState /\ StopPlace
    BY <1>1 DEF PlaceState, StopPlace
  <1>4. Nesting /\ WorkersLeft /\ ManagerLeft
    BY <1>1, ProcFacts DEF Nesting, WorkersLeft, ManagerLeft, PastTry
  <1> QED
    BY <1>2, <1>3, <1>4 DEF RunInv

(* The callbacks of a stopping process. *)
LEMMA StoppingStep ==
  ASSUME RunInv, NEW p \in Procs, ShutdownTimer(p) \/ StopDelay(p)
  PROVE  RunInv' /\ Advances
  <1>1. pc[p] = "loop" /\ UNCHANGED <<pc, sigchld>>
    BY DEF ShutdownTimer, StopDelay
  <1>2. CASE p = Master /\ MasterTryStop
    BY <1>1, <1>2, MasterTryStopStep
  <1>3. CASE p = Manager /\ ManagerTryStop
    BY <1>1, <1>3, ManagerTryStopStep
  <1>4. CASE p \in Workers /\ StopWorker(p)
    BY <1>1, <1>4, StopWorkerStep
  <1>5. CASE UNCHANGED <<state, stop_delayed, break_timer>>
    BY <1>1, <1>5, QuietStep DEF RunUnchanged
  <1>6. CASE /\ stop_delayed[p] \in {"server", "lua"} /\ UNCHANGED state
             /\ LastStopListeners(p) \/ LuaStopListener(p)
    BY <1>1, <1>6, LateDelayStep
  <1> QED
    BY <1>2, <1>3, <1>4, <1>5, <1>6
    DEF ShutdownTimer, StopDelay, StopMaster, StopManager

(* shuso_stop is the master's own business or a message. *)
LEMMA StopStep ==
  ASSUME RunInv, NEW p \in Procs, Stop(p)
  PROVE  RunInv' /\ Advances
  <1>1. CASE p = Master /\ StopMaster
    <2>1. MasterTryStop /\ pc[Master] = "loop" /\ UNCHANGED <<pc, sigchld>>
      BY <1>1 DEF Stop, StopMaster
    <2> QED
      BY <2>1, MasterTryStopStep
  <1>2. CASE UNCHANGED <<state, stop_delayed, break_timer>>
    BY <1>2, QuietStep DEF Stop, RunUnchanged
  <1> QED
    BY <1>1, <1>2 DEF Stop

(* Sending and receiving messages has no other effect on the runstates. *)
LEMMA MessageStep ==
  ASSUME RunInv, NEW p \in Procs,
         \/ ReceiveMessage(p) \/ FlushOutbuf(p) \/ StopOneWorker(p)
         \/ ManagerSignal
  PROVE  RunInv' /\ Advances
  <1>1. RunUnchanged
    <2>1. CASE ReceiveMessage(p)
      BY <2>1
      DEF ReceiveMessage, ShutdownHandle, AllWorkersStartedHandle,
          SignalHandle, ManagerProxyHandle, WorkerStartedHandle, timers,
          RunUnchanged
    <2>2. CASE FlushOutbuf(p)
      BY <2>2 DEF FlushOutbuf, timers, RunUnchanged
    <2>3. CASE StopOneWorker(p)
      BY <2>3 DEF StopOneWorker, timers, RunUnchanged
    <2>4. CASE ManagerSignal
      BY <2>4 DEF ManagerSignal, timers, RunUnchanged
    <2> QED
      BY <2>1, <2>2, <2>3, <2>4
  <1> QED
    BY <1>1, QuietStep

\* A step of a process that starts keeps the invariant and only advances.
LEMMA StartupStep ==
  ASSUME RunInv, NEW p \in Procs, Startup(p)
  PROVE  RunInv' /\ Advances
  BY MasterRunStep, ForkStep, ManagerStartingStep, ManagerRunningStep,
     InitializeWorkersStep, WorkersSpawnedStep, SpawnWorkerStep,
     WorkerStartStep, WorkerReportStep, LocalStartedStep
  DEF Startup

\* Every step keeps the invariant, and every process only advances.
LEMMA RunStep == RunInv /\ [Next]_vars => RunInv' /\ Advances
  <1> SUFFICES ASSUME RunInv, [Next]_vars
               PROVE  RunInv' /\ Advances
    OBVIOUS
  <1>1. ASSUME NEW p \in Procs,
               \/ Startup(p) \/ ReceiveMessage(p) \/ FlushOutbuf(p)
               \/ ShutdownTimer(p) \/ StopDelay(p) \/ BreakTimer(p)
               \/ Exit(p) \/ Stop(p)
        PROVE  RunInv' /\ Advances
    BY <1>1, StartupStep, MessageStep, StoppingStep, BreakTimerStep, ExitStep,
       StopStep
  <1>2. ASSUME NEW w \in Workers, WorkerShutdown(w) \/ StopOneWorker(w)
        PROVE  RunInv' /\ Advances
    BY <1>2, ProcFacts, ExitStep, MessageStep
  <1>3. CASE ManagerGone
    BY <1>3, ManagerGoneStep
  <1>4. CASE Sigchild
    BY <1>4, SigchildStep
  <1>5. CASE ManagerSignal
    BY <1>5, ProcFacts, MessageStep
  <1>6. CASE UNCHANGED vars
    BY <1>6, QuietStep DEF vars, timers, RunUnchanged
  <1>7. CASE ServerStartup
    BY <1>7, QuietStep DEF ServerStartup, timers, RunUnchanged
  <1> QED
    BY <1>1, <1>2, <1>3, <1>4, <1>5, <1>6, <1>7 DEF Next

-----------------------------------------------------------------------------
(************************** what sequences contain *************************)

\* How often x is in s.
Count(s, x) == Cardinality({i \in DOMAIN s : s[i] = x})

\* A set of numbers has a least one.
LEMMA LeastNumber ==
  ASSUME NEW S \in SUBSET Nat, S # {}
  PROVE  \E i \in S : \A j \in S : i <= j
  <1>1. PICK i \in S : \A j \in S : ~(<<j, i>> \in OpToRel(<, Nat))
    BY WFMin, NatLessThanWellFounded
  <1>2. \A j \in S : ~(j < i)
    BY <1>1 DEF OpToRel
  <1> QED
    BY <1>2

\* So does a set of processes: they are numbered from Master on.
LEMMA LeastProc ==
  ASSUME NEW S \in SUBSET Procs, S # {}
  PROVE  \E p \in S : \A q \in S : p <= q
  <1>1. \A p \in S : p \in Int /\ p + 2 \in Nat
    BY LifecycleAssumption DEF Procs, Workers, Master, Manager
  <1> DEFINE N == {p + 2 : p \in S}
  <1>2. N \in SUBSET Nat /\ N # {}
    BY <1>1
  <1>3. PICK i \in N : \A j \in N : i <= j
    BY <1>2, LeastNumber
  <1>4. PICK p \in S : i = p + 2
    BY <1>3
  <1>5. \A q \in S : p + 2 <= q + 2
    BY <1>3, <1>4
  <1>6. \A q \in S : p <= q
    BY <1>1, <1>4, <1>5
  <1> QED
    BY <1>6

\* The processes are finitely many, and numbers.
LEMMA ProcsFinite == IsFiniteSet(Procs) /\ Procs \subseteq Int
  <1>1. Workers = 0..(NWorkers - 1) /\ NWorkers - 1 \in Int
    BY LifecycleAssumption DEF Workers
  <1>2. IsFiniteSet(Workers)
    BY <1>1, FS_Interval
  <1>3. IsFiniteSet({Master}) /\ IsFiniteSet({Manager})
    BY FS_Singleton
  <1>4. IsFiniteSet(({Master} \cup {Manager}) \cup Workers)
    BY <1>2, <1>3, FS_Union
  <1>5. Procs = ({Master} \cup {Manager}) \cup Workers
    BY DEF Procs
  <1>6. Procs \subseteq Int
    BY <1>1 DEF Procs, Master, Manager
  <1> QED
    BY <1>4, <1>5, <1>6

\* The places where x is in a sequence are finitely many.
LEMMA CountIs ==
  ASSUME NEW T, NEW s \in Seq(T), NEW x
  PROVE  /\ IsFiniteSet({i \in DOMAIN s : s[i] = x})
         /\ Count(s, x) \in Nat
         /\ Count(s, x) = 0 <=> \A i \in DOMAIN s : s[i] # x
  <1>1. DOMAIN s = 1..Len(s) /\ Len(s) \in Nat
    OBVIOUS
  <1>2. IsFiniteSet(1..Len(s))
    BY <1>1, FS_Interval
  <1>3. IsFiniteSet({i \in DOMAIN s : s[i] = x})
    BY <1>1, <1>2, FS_Subset
  <1> QED
    BY <1>3, FS_CardinalityType, FS_EmptySet DEF Count

\* What is there once is at one place.
LEMMA CountOnce ==
  ASSUME NEW T, NEW s \in Seq(T), NEW x, Count(s, x) <= 1,
         NEW i \in DOMAIN s, NEW j \in DOMAIN s, s[i] = x, s[j] = x
  PROVE  i = j
  <1> DEFINE S == {k \in DOMAIN s : s[k] = x}
  <1>1. IsFiniteSet(S) /\ Cardinality(S) <= 1 /\ i \in S /\ j \in S
    BY CountIs DEF Count
  <1> HIDE DEF S
  <1>2. Cardinality(S) \in Nat /\ Cardinality(S) # 0
    BY <1>1, FS_CardinalityType, FS_EmptySet
  <1>3. Cardinality(S) = 1
    BY <1>1, <1>2
  <1>4. PICK y : S = {y}
    BY <1>1, <1>3, FS_Singleton
  <1> QED
    BY <1>1, <1>4

\* One more for the element appended.
LEMMA CountAppend ==
  ASSUME NEW T, NEW s \in Seq(T), NEW y \in T, NEW x
  PROVE  Count(Append(s, y), x) = Count(s, x) + (IF x = y THEN 1 ELSE 0)
  <1> DEFINE S == {i \in DOMAIN s : s[i] = x}
             A == {i \in DOMAIN Append(s, y) : Append(s, y)[i] = x}
             n == Len(s) + 1
  <1>1. /\ DOMAIN s = 1..Len(s) /\ Len(s) \in Nat
        /\ DOMAIN Append(s, y) = 1..n
        /\ \A i \in 1..Len(s) : Append(s, y)[i] = s[i]
        /\ Append(s, y)[n] = y
    OBVIOUS
  <1>2. IsFiniteSet(S) /\ Cardinality(S) \in Nat
    BY CountIs DEF Count
  <1>3. n \notin S
    BY <1>1
  <1>4. CASE x = y
    <2>1. A = S \cup {n}
      BY <1>1, <1>4
    <2> HIDE DEF S, n
    <2>2. Cardinality(S \cup {n}) = Cardinality(S) + 1
      BY <1>2, <1>3, FS_AddElement
    <2> QED
      BY <1>4, <2>1, <2>2 DEF Count, S
  <1>5. CASE x # y
    <2>1. A = S
      BY <1>1, <1>5
    <2>2. /\ Count(s, x) = Cardinality(S)
          /\ Count(Append(s, y), x) = Cardinality(A)
      BY DEF Count
    <2> HIDE DEF S, A
    <2> QED
      BY <1>2, <1>5, <2>1, <2>2
  <1> QED
    BY <1>4, <1>5

\* Both parts of a concatenation count.
LEMMA CountConcat ==
  ASSUME NEW T, NEW s \in Seq(T), NEW t \in Seq(T), NEW x
  PROVE  Count(s \o t, x) = Count(s, x) + Count(t, x)
  <1> DEFINE S == {i \in DOMAIN s : s[i] = x}
             R == {i \in DOMAIN t : t[i] = x}
             C == {i \in DOMAIN (s \o t) : (s \o t)[i] = x}
             D == C \ S
             f == [i \in R |-> Len(s) + i]
  <1>1. /\ DOMAIN s = 1..Len(s) /\ Len(s) \in Nat
        /\ DOMAIN t = 1..Len(t) /\ Len(t) \in Nat
        /\ s \o t \in Seq(T) /\ Len(s \o t) = Len(s) + Len(t)
        /\ DOMAIN (s \o t) = 1..(Len(s) + Len(t))
        /\ \A i \in 1..(Len(s) + Len(t)) :
             (s \o t)[i] = IF i <= Len(s) THEN s[i] ELSE t[i - Len(s)]
    <2>1. /\ DOMAIN s = 1..Len(s) /\ Len(s) \in Nat
          /\ DOMAIN t = 1..Len(t) /\ Len(t) \in Nat
      OBVIOUS
    <2>2. s \o t \in Seq(T) /\ Len(s \o t) = Len(s) + Len(t)
      OBVIOUS
    <2>3. DOMAIN (s \o t) = 1..(Len(s) + Len(t))
      BY <2>2
    <2>4. \A i \in 1..(Len(s) + Len(t)) :
            (s \o t)[i] = IF i <= Len(s) THEN s[i] ELSE t[i - Len(s)]
      BY <2>1
    <2> QED
      BY <2>1, <2>2, <2>3, <2>4, Zenon
  <1>2. IsFiniteSet(S) /\ IsFiniteSet(R) /\ IsFiniteSet(C)
    <2>1. IsFiniteSet(S) /\ IsFiniteSet(R)
      BY CountIs
    <2> DEFINE c == s \o t
    <2>2. c \in Seq(T)
      BY <1>1
    <2>3. IsFiniteSet({i \in DOMAIN c : c[i] = x})
      <3> HIDE DEF c
      <3> QED
        BY <2>2, CountIs
    <2> QED
      BY <2>1, <2>3
  <1>3. S \subseteq C
    BY <1>1
  <1>4. f \in [R -> D]
    <2> SUFFICES ASSUME NEW i \in R PROVE Len(s) + i \in D
      OBVIOUS
    <2>1. i \in 1..Len(t) /\ t[i] = x
      BY <1>1
    <2> QED
      BY <1>1, <2>1
  <1>5. \A i, j \in R : f[i] = f[j] => i = j
    BY <1>1
  <1>6. \A d \in D : \E i \in R : f[i] = d
    <2> SUFFICES ASSUME NEW d \in D PROVE \E i \in R : f[i] = d
      OBVIOUS
    <2>1. d \in 1..(Len(s) + Len(t)) /\ (s \o t)[d] = x /\ d \notin S
      BY <1>1
    <2>2. d > Len(s)
      BY <1>1, <2>1
    <2>3. d - Len(s) \in R
      BY <1>1, <2>1, <2>2
    <2> QED
      BY <1>1, <2>1, <2>3
  <1>7. ExistsBijection(R, D)
    <2> HIDE DEF R, D, f
    <2> QED
      BY <1>4, <1>5, <1>6
      DEF ExistsBijection, Bijection, Injection, Surjection, IsInjective
  <1>8. Cardinality(D) = Cardinality(R) /\ IsFiniteSet(D)
    BY <1>2, <1>7, FS_Bijection
  <1>9. C = S \cup D /\ S \cap D = {}
    BY <1>3
  <1>10. /\ Count(s, x) = Cardinality(S) /\ Count(t, x) = Cardinality(R)
         /\ Count(s \o t, x) = Cardinality(C)
    BY DEF Count
  <1> HIDE DEF S, R, C, D
  <1>11. Cardinality(C) = Cardinality(S) + Cardinality(D) - 0
    BY <1>2, <1>8, <1>9, FS_Union, FS_EmptySet
  <1>12. Cardinality(S) \in Nat /\ Cardinality(R) \in Nat
    BY <1>2, FS_CardinalityType
  <1> QED
    BY <1>8, <1>10, <1>11, <1>12

\* One less for the head that is taken off.
LEMMA CountTail ==
  ASSUME NEW T, NEW s \in Seq(T), s # <<>>, NEW x
  PROVE  Count(s, x) = Count(Tail(s), x) + (IF x = Head(s) THEN 1 ELSE 0)
  <1> DEFINE e == <<>>
             h == Head(s)
             r == Tail(s)
             a == Append(e, h)
  <1>1. /\ h \in T /\ r \in Seq(T) /\ e \in Seq(T) /\ a \in Seq(T)
        /\ s = a \o r
        /\ \A i \in DOMAIN e : FALSE
    OBVIOUS
  <1> HIDE DEF e, h, r
  <1>2. Count(e, x) = 0
    BY <1>1, CountIs
  <1>3. Count(a, x) = Count(e, x) + (IF x = h THEN 1 ELSE 0)
    BY <1>1, CountAppend
  <1> HIDE DEF a
  <1>4. Count(a \o r, x) = Count(a, x) + Count(r, x)
    BY <1>1, CountConcat
  <1>5. Count(r, x) \in Nat
    BY <1>1, CountIs
  <1>6. Count(s, x) = Count(r, x) + (IF x = h THEN 1 ELSE 0)
    BY <1>1, <1>2, <1>3, <1>4, <1>5
  <1> QED
    BY <1>6 DEF h, r

-----------------------------------------------------------------------------
(******************************* the messages ******************************)

Msgs == UNION {Messages(p) : p \in Procs}
Mail == {x \in Procs \X Msgs : x[2] \in Messages(x[1])}

\* Every message, in a ring or in a buffer, is one its receiver handles.
MsgType == /\ DOMAIN inbox = Procs /\ DOMAIN outbuf = Procs
           /\ \A p \in Procs : inbox[p] \in Seq(Messages(p))
           /\ \A p \in Procs : outbuf[p] \in Seq(Mail)

\* The i-th process of a set by number.
LEMMA EachElement ==
  ASSUME NEW S \in SUBSET Procs, NEW n \in 1..Cardinality(S)
  PROVE  \E d \in S : Cardinality({e \in S : e < d}) = n - 1
  <1> DEFINE Below(d) == {e \in S : e < d}
             Missing == {i \in Nat : /\ i \in 1..Cardinality(S)
                                     /\ \A d \in S :
                                          Cardinality(Below(d)) # i - 1}
  <1>1. IsFiniteSet(S) /\ \A e \in S : e \in Int
    BY ProcsFinite, FS_Subset
  <1>2. Cardinality(S) \in Nat
    BY <1>1, FS_CardinalityType
  <1>3. \A d \in S : IsFiniteSet(Below(d)) /\ Cardinality(Below(d)) \in Nat
    <2> SUFFICES ASSUME NEW d \in S
                 PROVE  IsFiniteSet(Below(d)) /\ Cardinality(Below(d)) \in Nat
      OBVIOUS
    <2>1. Below(d) \in SUBSET S
      OBVIOUS
    <2> HIDE DEF Below
    <2> QED
      BY <1>1, <2>1, FS_Subset, FS_CardinalityType
  <1>4. SUFFICES ASSUME Missing # {} PROVE FALSE
    <2>1. ASSUME \A d \in S : Cardinality(Below(d)) # n - 1
          PROVE  n \in Missing
      BY <1>2, <2>1
    <2> QED
      BY <2>1
  <1>5. PICK i \in Missing : \A j \in Missing : i <= j
    <2>1. Missing \in SUBSET Nat
      OBVIOUS
    <2> HIDE DEF Missing
    <2> QED
      BY <1>4, <2>1, LeastNumber
  <1>6. i \in 1..Cardinality(S) /\ \A d \in S : Cardinality(Below(d)) # i - 1
    BY <1>5
  <1>7. S # {}
    BY <1>1, <1>6, FS_EmptySet
  <1>8. CASE i = 1
    <2>1. PICK d \in S : \A q \in S : d <= q
      BY <1>7, LeastProc
    <2>2. Below(d) = {}
      <3>1. \A q \in S : q \in Int /\ d \in Int /\ d <= q /\ ~(q < d)
        BY <1>1, <2>1
      <3> QED
        BY <3>1
    <2>3. Cardinality(Below(d)) = 0
      BY <2>2, FS_EmptySet
    <2> QED
      BY <1>6, <1>8, <2>3
  <1>9. CASE i # 1
    <2>1. i - 1 \in Nat /\ i - 1 \in 1..Cardinality(S) /\ ~(i <= i - 1)
      BY <1>2, <1>6, <1>9
    <2>2. i - 1 \notin Missing
      BY <1>5, <2>1
    <2>3. PICK d \in S : Cardinality(Below(d)) = (i - 1) - 1
      BY <2>1, <2>2
    <2> DEFINE Above == {e \in S : d < e}
               Upto  == Below(d) \cup {d}
    <2>4. d \notin Below(d)
      BY <1>1
    <2>5. IsFiniteSet(Upto) /\ Cardinality(Upto) = i - 1
      <3> HIDE DEF Below
      <3>1. /\ IsFiniteSet(Below(d) \cup {d})
            /\ Cardinality(Below(d) \cup {d}) = Cardinality(Below(d)) + 1
        BY <1>3, <2>4, FS_AddElement
      <3> QED
        BY <2>1, <2>3, <3>1
    <2>6. Above # {}
      <3>1. SUFFICES ASSUME Above = {} PROVE FALSE
        OBVIOUS
      <3>2. \A e \in S : e < d \/ e = d
        BY <1>1, <3>1
      <3>3. S = Upto
        BY <3>2
      <3> HIDE DEF Upto
      <3> QED
        BY <1>6, <2>1, <2>5, <3>3
    <2>7. PICK m \in Above : \A q \in Above : m <= q
      <3>1. Above \in SUBSET Procs
        OBVIOUS
      <3> HIDE DEF Above
      <3> QED
        BY <2>6, <3>1, LeastProc
    <2>8. Below(m) = Upto
      <3>1. m \in S /\ d < m /\ \A q \in S : d < q => m <= q
        BY <2>7
      <3>2. \A q \in S : q < m <=> q < d \/ q = d
        BY <1>1, <3>1
      <3> QED
        BY <3>2
    <2>9. m \in S
      OBVIOUS
    <2> HIDE DEF Upto, Below
    <2> QED
      BY <1>6, <2>5, <2>8, <2>9
  <1> QED
    BY <1>8, <1>9

\* Each has one message for each process of the set and no others.
LEMMA EachIs ==
  ASSUME NEW S \in SUBSET Procs, NEW msg
  PROVE  /\ Each(S, msg) \in Seq(S \X {msg})
         /\ \A d, m : Count(Each(S, msg), <<d, m>>)
                        <= IF d \in S /\ m = msg THEN 1 ELSE 0
         /\ \A d, m : Count(Each(S, msg), <<d, m>>) \in Nat
  <1> DEFINE n == Cardinality(S)
             Pick(i) == CHOOSE d \in S : Cardinality({e \in S : e < d}) = i - 1
             c == Each(S, msg)
  <1>1. n \in Nat
    BY ProcsFinite, FS_Subset, FS_CardinalityType
  <1>2. \A i \in 1..n : /\ Pick(i) \in S
                        /\ Cardinality({e \in S : e < Pick(i)}) = i - 1
    <2> SUFFICES ASSUME NEW i \in 1..n
                 PROVE  /\ Pick(i) \in S
                        /\ Cardinality({e \in S : e < Pick(i)}) = i - 1
      OBVIOUS
    <2>1. \E d \in S : Cardinality({e \in S : e < d}) = i - 1
      BY EachElement
    <2> QED
      BY <2>1
  <1>3. c = [i \in 1..n |-> <<Pick(i), msg>>]
    BY DEF Each
  <1>4. \A i \in 1..n : c[i] = <<Pick(i), msg>> /\ c[i] \in S \X {msg}
    <2> HIDE DEF Pick, c
    <2> QED
      BY <1>2, <1>3
  <1>5. \A i, j \in 1..n : Pick(i) = Pick(j) => i = j
    <2> SUFFICES ASSUME NEW i \in 1..n, NEW j \in 1..n, Pick(i) = Pick(j)
                 PROVE  i = j
      OBVIOUS
    <2>1. Cardinality({e \in S : e < Pick(i)}) = i - 1
      BY <1>2
    <2>2. Cardinality({e \in S : e < Pick(j)}) = j - 1
      BY <1>2
    <2> HIDE DEF Pick
    <2>3. i - 1 = j - 1
      BY <2>1, <2>2
    <2> QED
      BY <1>1, <2>3
  <1> HIDE DEF Pick
  <1>6. c \in Seq(S \X {msg}) /\ DOMAIN c = 1..n
    <2>1. c \in [1..n -> S \X {msg}]
      BY <1>3, <1>4
    <2> HIDE DEF c, n
    <2> QED
      BY <1>1, <2>1
  <1>7. ASSUME NEW d, NEW m
        PROVE  /\ Count(c, <<d, m>>) \in Nat
               /\ Count(c, <<d, m>>) <= IF d \in S /\ m = msg THEN 1 ELSE 0
    <2> DEFINE C == {i \in DOMAIN c : c[i] = <<d, m>>}
    <2>1. IsFiniteSet(C) /\ Count(c, <<d, m>>) = Cardinality(C)
      <3> HIDE DEF c
      <3> QED
        BY <1>6, CountIs DEF Count
    <2>2. \A i \in C : i \in 1..n /\ Pick(i) = d /\ m = msg
      <3> SUFFICES ASSUME NEW i \in C
                   PROVE  i \in 1..n /\ Pick(i) = d /\ m = msg
        OBVIOUS
      <3>1. i \in 1..n /\ c[i] = <<d, m>>
        BY <1>6
      <3>2. <<Pick(i), msg>> = <<d, m>>
        BY <1>4, <3>1
      <3> QED
        BY <3>1, <3>2
    <2>3. \A i, j \in C : i = j
      BY <1>5, <2>2
    <2>4. C # {} => d \in S /\ m = msg
      BY <1>2, <2>2
    <2> HIDE DEF C
    <2>5. CASE C = {}
      <3>1. Cardinality(C) = 0
        BY <2>5, FS_EmptySet
      <3> QED
        BY <2>1, <3>1
    <2>6. CASE C # {}
      <3>1. PICK i : C = {i}
        BY <2>3, <2>6
      <3>2. Cardinality(C) = 1
        BY <3>1, FS_Singleton
      <3> QED
        BY <2>1, <2>4, <2>6, <3>2
    <2> QED
      BY <2>5, <2>6
  <1> QED
    BY <1>6, <1>7

\* The processes a message is for, by kind.
LEMMA MessageKinds ==
  /\ \A p \in Procs : "SHUTDOWN" \in Messages(p)
  /\ "WORKER_STARTED" \in Messages(Manager)
  /\ "PROXY_SHUTDOWN" \in Messages(Manager)
  /\ "PROXIED_SHUTDOWN" \in Messages(Master)
  /\ {"SIGINT", "SIGQUIT", "SIGTERM"} \subseteq Messages(Master)
  /\ \A p \in Procs : "ALL_WORKERS_STARTED" \in Messages(p) <=> p # Manager
  /\ \A p \in Procs : Messages(p) \subseteq Msgs
  BY ProcFacts DEF Messages, Msgs

\* SendEach adds msg once for each of the processes dsts, to its ring or to the
\* sender's buffer, and nothing else.
LEMMA SendEachIs ==
  ASSUME MsgType, NEW box, NEW p \in Procs, NEW dsts \in SUBSET Procs, NEW msg,
         \A d \in Procs : box[d] \in Seq(Messages(d)),
         \A d \in dsts : msg \in Messages(d),
         SendEach(box, p, dsts, msg)
  PROVE  /\ MsgType'
         /\ \A q \in Procs \ {p} : outbuf'[q] = outbuf[q]
         /\ \A d \in Procs : \A m :
              /\ d \notin dsts \/ m # msg =>
                   /\ Count(inbox'[d], m) = Count(box[d], m)
                   /\ Count(outbuf'[p], <<d, m>>) = Count(outbuf[p], <<d, m>>)
              /\ Count(inbox'[d], m) + Count(outbuf'[p], <<d, m>>)
                   <= Count(box[d], m) + Count(outbuf[p], <<d, m>>) + 1
  <1> DEFINE direct == {d \in dsts : /\ outbuf[p] = <<>>
                                     /\ \A e \in dsts :
                                          e <= d => state[e] # "STARTING"}
             kept == dsts \ direct
             more == Each(kept, msg)
  <1>1. /\ inbox' = [d \in Procs |-> IF d \in direct THEN Append(box[d], msg)
                                     ELSE box[d]]
        /\ outbuf' = [outbuf EXCEPT ![p] = outbuf[p] \o more]
    BY DEF SendEach
  <1>2. direct \subseteq dsts /\ kept \in SUBSET Procs
    OBVIOUS
  <1> HIDE DEF direct
  <1>3. /\ more \in Seq(kept \X {msg})
        /\ \A d, m : /\ Count(more, <<d, m>>) \in Nat
                     /\ Count(more, <<d, m>>)
                          <= IF d \in kept /\ m = msg THEN 1 ELSE 0
    BY <1>2, EachIs
  <1> HIDE DEF more
  <1>4. more \in Seq(Mail)
    <2>1. \A x \in kept \X {msg} : x \in Mail
      BY MessageKinds DEF Mail
    <2>2. kept \X {msg} \subseteq Mail
      BY <2>1
    <2> HIDE DEF kept
    <2> QED
      BY <1>3, <2>2
  <1>5. /\ outbuf[p] \in Seq(Mail)
        /\ outbuf'[p] = outbuf[p] \o more
        /\ \A q \in Procs \ {p} : outbuf'[q] = outbuf[q]
        /\ DOMAIN outbuf' = Procs /\ DOMAIN inbox' = Procs
    BY <1>1 DEF MsgType
  <1>6. MsgType'
    <2>1. \A d \in Procs : inbox'[d] \in Seq(Messages(d))
      <3> SUFFICES ASSUME NEW d \in Procs PROVE inbox'[d] \in Seq(Messages(d))
        OBVIOUS
      <3>1. CASE d \in direct
        <4>1. msg \in Messages(d) /\ inbox'[d] = Append(box[d], msg)
          BY <1>1, <1>2, <3>1
        <4> QED
          BY <4>1
      <3>2. CASE d \notin direct
        BY <1>1, <3>2
      <3> QED
        BY <3>1, <3>2
    <2>2. outbuf'[p] \in Seq(Mail)
      BY <1>4, <1>5
    <2> QED
      BY <1>5, <2>1, <2>2 DEF MsgType
  <1>7. ASSUME NEW d \in Procs, NEW m
        PROVE  /\ Count(inbox'[d], m) =
                    Count(box[d], m)
                      + IF d \in direct /\ m = msg THEN 1 ELSE 0
               /\ Count(outbuf'[p], <<d, m>>) =
                    Count(outbuf[p], <<d, m>>) + Count(more, <<d, m>>)
               /\ Count(box[d], m) \in Nat
               /\ Count(outbuf[p], <<d, m>>) \in Nat
    <2>1. Count(box[d], m) \in Nat /\ Count(outbuf[p], <<d, m>>) \in Nat
      BY <1>5, CountIs
    <2>2. Count(outbuf[p] \o more, <<d, m>>) =
            Count(outbuf[p], <<d, m>>) + Count(more, <<d, m>>)
      BY <1>4, <1>5, CountConcat
    <2>3. CASE d \in direct
      <3>1. msg \in Messages(d) /\ inbox'[d] = Append(box[d], msg)
        BY <1>1, <1>2, <2>3
      <3>2. Count(Append(box[d], msg), m) =
              Count(box[d], m) + (IF m = msg THEN 1 ELSE 0)
        BY <3>1, CountAppend
      <3> QED
        BY <1>5, <2>1, <2>2, <2>3, <3>1, <3>2
    <2>4. CASE d \notin direct
      <3>1. inbox'[d] = box[d]
        BY <1>1, <2>4
      <3> QED
        BY <1>5, <2>1, <2>2, <2>4, <3>1
    <2> QED
      BY <2>3, <2>4
  <1>8. ASSUME NEW d \in Procs, NEW m
        PROVE  /\ d \notin dsts \/ m # msg =>
                    /\ Count(inbox'[d], m) = Count(box[d], m)
                    /\ Count(outbuf'[p], <<d, m>>) = Count(outbuf[p], <<d, m>>)
               /\ Count(inbox'[d], m) + Count(outbuf'[p], <<d, m>>)
                    <= Count(box[d], m) + Count(outbuf[p], <<d, m>>) + 1
    <2>1. d \in direct => d \notin kept
      OBVIOUS
    <2>2. d \notin dsts => d \notin direct /\ d \notin kept
      BY <1>2
    <2>3. /\ Count(more, <<d, m>>) \in Nat
          /\ Count(more, <<d, m>>) <= IF d \in kept /\ m = msg THEN 1 ELSE 0
      BY <1>3
    <2> HIDE DEF kept
    <2> QED
      BY <1>7, <2>1, <2>2, <2>3
  <1> QED
    BY <1>5, <1>6, <1>8

\* Send is SendEach for at most one process.
LEMMA SendIs ==
  ASSUME MsgType, NEW box, NEW p \in Procs, NEW dst \in Procs,
         NEW msg \in Messages(dst), msg # "ALL_WORKERS_STARTED",
         \A d \in Procs : box[d] \in Seq(Messages(d)),
         Send(box, p, dst, msg)
  PROVE  /\ MsgType'
         /\ \A q, d \in Procs : Count(outbuf'[q], <<d, "ALL_WORKERS_STARTED">>)
                               = Count(outbuf[q], <<d, "ALL_WORKERS_STARTED">>)
         /\ \A d \in Procs : Count(inbox'[d], "ALL_WORKERS_STARTED")
                               = Count(box[d], "ALL_WORKERS_STARTED")
  <1> DEFINE dsts == {d \in {dst} : ~Refused(d)}
  <1>1. dsts \in SUBSET Procs /\ \A d \in dsts : msg \in Messages(d)
    OBVIOUS
  <1>2. SendEach(box, p, dsts, msg)
    BY DEF Send
  <1> HIDE DEF dsts
  <1>3. /\ MsgType'
        /\ \A q \in Procs \ {p} : outbuf'[q] = outbuf[q]
        /\ \A d \in Procs : \A m :
              /\ d \notin dsts \/ m # msg =>
                   /\ Count(inbox'[d], m) = Count(box[d], m)
                   /\ Count(outbuf'[p], <<d, m>>) = Count(outbuf[p], <<d, m>>)
              /\ Count(inbox'[d], m) + Count(outbuf'[p], <<d, m>>)
                   <= Count(box[d], m) + Count(outbuf[p], <<d, m>>) + 1
    BY <1>1, <1>2, SendEachIs
  <1> QED
    BY <1>3

\* Taking a message out of the ring.
LEMMA UnreadIs ==
  ASSUME MsgType, NEW p \in Procs, inbox[p] # <<>>
  PROVE  /\ \A d \in Procs : Unread(p)[d] \in Seq(Messages(d))
         /\ DOMAIN Unread(p) = Procs
         /\ \A d \in Procs \ {p} : Unread(p)[d] = inbox[d]
         /\ Head(inbox[p]) \in Messages(p)
         /\ \A m : Count(inbox[p], m) = Count(Unread(p)[p], m)
                                        + IF m = Head(inbox[p]) THEN 1 ELSE 0
         /\ \A d \in Procs : \A m : /\ Count(Unread(p)[d], m) \in Nat
                                    /\ Count(Unread(p)[d], m)
                                         <= Count(inbox[d], m)
  <1>1. /\ Unread(p) = [inbox EXCEPT ![p] = Tail(inbox[p])]
        /\ inbox[p] \in Seq(Messages(p))
        /\ DOMAIN inbox = Procs
    BY DEF MsgType, Unread
  <1>2. /\ Unread(p)[p] = Tail(inbox[p])
        /\ \A d \in Procs \ {p} : Unread(p)[d] = inbox[d]
        /\ DOMAIN Unread(p) = Procs
    BY <1>1
  <1>3. Head(inbox[p]) \in Messages(p) /\ Tail(inbox[p]) \in Seq(Messages(p))
    BY <1>1
  <1>4. \A d \in Procs : Unread(p)[d] \in Seq(Messages(d))
    BY <1>2, <1>3 DEF MsgType
  <1>5. \A m : Count(inbox[p], m) = Count(Unread(p)[p], m)
                                    + IF m = Head(inbox[p]) THEN 1 ELSE 0
    BY <1>1, <1>2, CountTail
  <1>6. \A d \in Procs : \A m : Count(Unread(p)[d], m) \in Nat
    BY <1>4, CountIs
  <1>7. ASSUME NEW d \in Procs, NEW m
        PROVE  Count(Unread(p)[d], m) <= Count(inbox[d], m)
    <2>1. CASE d = p
      BY <1>5, <1>6, <2>1
    <2>2. CASE d # p
      BY <1>2, <1>6, <2>2
    <2> QED
      BY <2>1, <2>2
  <1> QED
    BY <1>2, <1>3, <1>4, <1>5, <1>6, <1>7

-----------------------------------------------------------------------------
(************************* the events of a process *************************)

\* The news that all workers have started, on its way to a process and as an
\* event there.
InRing(p)      == Count(inbox[p], "ALL_WORKERS_STARTED")
InBuffer(q, p) == Count(outbuf[q], <<p, "ALL_WORKERS_STARTED">>)
Told(p)        == Count(published[p], "workers_started")
News(p)        == InRing(p) + InBuffer(Manager, p) + Told(p)

AllStarted == \A w \in Workers : state[w] \notin {"NIL", "STARTING"}

\* The manager sends each process the news at most once, when it is true; it is
\* in one place: the manager's buffer, the ring, or published.
NewsInv ==
  /\ \A p \in Procs : News(p) <= 1 /\ (News(p) # 0 => all_workers_running)
  /\ \A q \in Procs \ {Manager}, p \in Procs : InBuffer(q, p) = 0
  /\ all_workers_running => AllStarted

\* The places before the start event, and those after it.
Before == {"none", "run", "fork", "forked", "starting", "init", "local",
           "spawn", "start"}
Late   == {"report", "loop", "exit"}
Left   == {"done", "gone"}
Ending == {"STOPPING", "STOPPED", "DEAD"}

\* The thread is past the place where it publishes what it has published.
OnceInv ==
  \A p \in Procs :
    /\ Count(published[p], "start") <= IF pc[p] \in Before THEN 0 ELSE 1
    /\ Count(published[p], "stop") <= IF state[p] \in Ending THEN 1 ELSE 0
    /\ Count(published[p], "exit") <= IF pc[p] \in Left THEN 1 ELSE 0
    /\ Count(published[p], "manager_exited")
         <= IF p = Master /\ state[Manager] = "DEAD" THEN 1 ELSE 0

FirstInv ==
  \A p \in Procs \ {Master} :
    /\ pc[p] \in Late => published[p] # <<>>
    /\ published[p] # <<>> => published[p][1] = "start"

PubType == published \in [Procs -> Seq(Events)]

LifeInv == /\ RunInv /\ MsgType /\ PubType
           /\ NewsInv /\ OnceInv /\ FirstInv

\* The numbers above are numbers.
LEMMA NewsNumbers ==
  ASSUME MsgType, PubType
  PROVE  /\ \A p \in Procs : InRing(p) \in Nat /\ Told(p) \in Nat
         /\ \A q, p \in Procs : InBuffer(q, p) \in Nat
         /\ \A p \in Procs : \A ev : Count(published[p], ev) \in Nat
  <1>1. \A p \in Procs : /\ inbox[p] \in Seq(Messages(p))
                         /\ outbuf[p] \in Seq(Mail)
                         /\ published[p] \in Seq(Events)
    BY DEF MsgType, PubType
  <1> QED
    BY <1>1, CountIs DEF InRing, InBuffer, Told

\* ... and after a step.
LEMMA NewsNumbersNext ==
  ASSUME MsgType', PubType'
  PROVE  /\ \A p \in Procs : InRing(p)' \in Nat /\ Told(p)' \in Nat
         /\ \A q, p \in Procs : InBuffer(q, p)' \in Nat
         /\ \A p \in Procs : \A ev : Count(published'[p], ev) \in Nat
  <1>1. \A p \in Procs : /\ inbox'[p] \in Seq(Messages(p))
                         /\ outbuf'[p] \in Seq(Mail)
                         /\ published'[p] \in Seq(Events)
    BY DEF MsgType, PubType
  <1> QED
    BY <1>1, CountIs DEF InRing, InBuffer, Told

\* What it means for a runstate to advance.
LEMMA AdvanceFacts ==
  ASSUME RunInv, RunInv', Advances, NEW p \in Procs
  PROVE  /\ state[p] \in Ending => state'[p] \in Ending
         /\ state[p] = "DEAD" => state'[p] = "DEAD"
         /\ state[p] \notin {"NIL", "STARTING"} =>
              state'[p] \notin {"NIL", "STARTING"}
  <1>1. state[p] \in States /\ state'[p] \in States
    BY DEF RunInv, RunType
  <1>2. Rank(state'[p]) >= Rank(state[p])
    BY DEF Advances
  <1> QED
    BY <1>1, <1>2, RankFacts DEF States, Ending

\* A process publishes an event.
LEMMA PublishIs ==
  ASSUME PubType, NEW p \in Procs, NEW ev \in Events, Publish(p, ev)
  PROVE  /\ PubType'
         /\ \A q \in Procs \ {p} : published'[q] = published[q]
         /\ published'[p] # <<>>
         /\ published'[p][1] = IF published[p] = <<>> THEN ev
                               ELSE published[p][1]
         /\ \A q \in Procs : \A x :
              Count(published'[q], x)
                = Count(published[q], x) + IF q = p /\ x = ev THEN 1 ELSE 0
  <1>1. /\ published' = [published EXCEPT ![p] = Append(published[p], ev)]
        /\ published[p] \in Seq(Events)
    BY DEF PubType, Publish
  <1>2. /\ published'[p] = Append(published[p], ev)
        /\ \A q \in Procs \ {p} : published'[q] = published[q]
    BY <1>1 DEF PubType
  <1>3. PubType'
    BY <1>1 DEF PubType
  <1>4. /\ published'[p] # <<>>
        /\ published'[p][1] = IF published[p] = <<>> THEN ev
                              ELSE published[p][1]
    BY <1>1, <1>2
  <1>5. ASSUME NEW q \in Procs, NEW x
        PROVE  Count(published'[q], x)
                 = Count(published[q], x) + IF q = p /\ x = ev THEN 1 ELSE 0
    <2>1. Count(published[q], x) \in Nat
      BY CountIs DEF PubType
    <2>2. CASE q = p
      <3>1. Count(Append(published[p], ev), x)
              = Count(published[p], x) + (IF x = ev THEN 1 ELSE 0)
        BY <1>1, CountAppend
      <3> QED
        BY <1>2, <2>2, <3>1
    <2>3. CASE q # p
      BY <1>2, <2>1, <2>3
    <2> QED
      BY <2>2, <2>3
  <1> QED
    BY <1>2, <1>3, <1>4, <1>5

\* A step that brings no news to anybody.
CommCalm ==
  /\ MsgType'
  /\ \A p \in Procs : InRing(p)' <= InRing(p)
  /\ \A q, p \in Procs : InBuffer(q, p)' <= InBuffer(q, p)

\* No thread goes back, nor into its loop without its start event.
PcMoves ==
  \A p \in Procs :
    /\ pc[p] \notin Before => pc'[p] \notin Before
    /\ pc[p] \in Left => pc'[p] \in Left
    /\ p # Master /\ pc'[p] \in Late => pc[p] \in Late \/ published'[p] # <<>>

\* The event is published in the step that goes past the place for it.
Fits(p, ev) ==
  /\ ev = "start" => pc[p] \in Before /\ pc'[p] \notin Before
  /\ ev = "stop" => state[p] \notin Ending /\ state'[p] \in Ending
  /\ ev = "exit" => pc[p] \notin Left /\ pc'[p] \in Left
  /\ ev = "manager_exited" =>
       p = Master /\ state[Manager] # "DEAD" /\ state'[Manager] = "DEAD"
  /\ p # Master => ev = "start" \/ published[p] # <<>>

Publishes(evs) ==
  \/ UNCHANGED published
  \/ \E p \in Procs, ev \in evs : Publish(p, ev) /\ Fits(p, ev)

\* Such steps keep what is said of events.
LEMMA EventsStep ==
  ASSUME LifeInv, RunInv', Advances, PcMoves, Publishes(Events)
  PROVE  PubType' /\ OnceInv' /\ FirstInv'
  <1>1. /\ \A p \in Procs : state[p] \in Ending => state'[p] \in Ending
        /\ state[Manager] = "DEAD" => state'[Manager] = "DEAD"
    BY ProcFacts, AdvanceFacts DEF LifeInv
  <1>2. CASE UNCHANGED published
    <2>1. PubType' /\ FirstInv'
      BY <1>2 DEF LifeInv, PubType, FirstInv, PcMoves
    <2>2. OnceInv'
      <3> SUFFICES ASSUME NEW p \in Procs
                   PROVE  OnceInv!(p)'
        BY DEF OnceInv
      <3>1. OnceInv!(p)
        BY DEF LifeInv, OnceInv
      <3>2. \A ev : Count(published[p], ev) \in Nat
        BY NewsNumbers DEF LifeInv
      <3> QED
        BY <1>1, <1>2, <3>1, <3>2 DEF PcMoves
    <2> QED
      BY <2>1, <2>2
  <1>3. ASSUME NEW r \in Procs, NEW ev \in Events, Publish(r, ev), Fits(r, ev)
        PROVE  PubType' /\ OnceInv' /\ FirstInv'
    <2>1. /\ PubType'
          /\ \A q \in Procs \ {r} : published'[q] = published[q]
          /\ published'[r] # <<>>
          /\ published'[r][1] = IF published[r] = <<>> THEN ev
                                ELSE published[r][1]
          /\ \A q \in Procs : \A x :
               Count(published'[q], x)
                 = Count(published[q], x) + IF q = r /\ x = ev THEN 1 ELSE 0
      BY <1>3, PublishIs DEF LifeInv
    <2>2. OnceInv'
      <3> SUFFICES ASSUME NEW p \in Procs
                   PROVE  OnceInv!(p)'
        BY DEF OnceInv
      <3>1. OnceInv!(p)
        BY DEF LifeInv, OnceInv
      <3>2. \A x : Count(published[p], x) \in Nat
        BY NewsNumbers DEF LifeInv
      <3>3. \A x : Count(published'[p], x)
                     = Count(published[p], x) + IF p = r /\ x = ev THEN 1 ELSE 0
        BY <2>1
      <3>4. /\ pc[p] \notin Before => pc'[p] \notin Before
            /\ pc[p] \in Left => pc'[p] \in Left
        BY DEF PcMoves
      <3>5. Count(published'[p], "start") <= IF pc'[p] \in Before THEN 0 ELSE 1
        BY <1>3, <3>1, <3>2, <3>3, <3>4 DEF Fits
      <3>6. Count(published'[p], "stop")
              <= IF state'[p] \in Ending THEN 1 ELSE 0
        BY <1>1, <1>3, <3>1, <3>2, <3>3 DEF Fits
      <3>7. Count(published'[p], "exit") <= IF pc'[p] \in Left THEN 1 ELSE 0
        BY <1>3, <3>1, <3>2, <3>3, <3>4 DEF Fits
      <3>8. Count(published'[p], "manager_exited")
              <= IF p = Master /\ state'[Manager] = "DEAD" THEN 1 ELSE 0
        BY <1>1, <1>3, <3>1, <3>2, <3>3 DEF Fits
      <3> QED
        BY <3>5, <3>6, <3>7, <3>8
    <2>3. FirstInv'
      <3> SUFFICES ASSUME NEW p \in Procs \ {Master}
                   PROVE  /\ pc'[p] \in Late => published'[p] # <<>>
                          /\ published'[p] # <<>> =>
                               published'[p][1] = "start"
        BY DEF FirstInv
      <3>1. /\ pc[p] \in Late => published[p] # <<>>
            /\ published[p] # <<>> => published[p][1] = "start"
        BY DEF LifeInv, FirstInv
      <3>2. CASE p = r
        BY <1>3, <2>1, <3>1, <3>2 DEF Fits
      <3>3. CASE p # r
        BY <2>1, <3>1, <3>3 DEF PcMoves
      <3> QED
        BY <3>2, <3>3
    <2> QED
      BY <2>1, <2>2, <2>3
  <1> QED
    BY <1>2, <1>3 DEF Publishes

\* A step that brings no news, or only takes it further.
LEMMA NewsStep ==
  ASSUME LifeInv, RunInv', Advances, MsgType', PubType',
         \A p \in Procs : News(p)' <= News(p),
         \A q \in Procs \ {Manager}, p \in Procs :
           InBuffer(q, p)' <= InBuffer(q, p),
         all_workers_running' <=> all_workers_running
  PROVE  NewsInv'
  <1>1. /\ \A p \in Procs : InRing(p) \in Nat /\ Told(p) \in Nat
        /\ \A q, p \in Procs : InBuffer(q, p) \in Nat
    BY NewsNumbers DEF LifeInv
  <1>2. /\ \A p \in Procs : InRing(p)' \in Nat /\ Told(p)' \in Nat
        /\ \A q, p \in Procs : InBuffer(q, p)' \in Nat
    BY NewsNumbersNext
  <1>3. \A p \in Procs : News(p) \in Nat /\ News(p)' \in Nat
    BY <1>1, <1>2, ProcFacts DEF News
  <1>4. AllStarted => AllStarted'
    BY ProcFacts, AdvanceFacts DEF AllStarted, LifeInv
  <1>5. ASSUME NEW p \in Procs
        PROVE  News(p)' <= 1 /\ (News(p)' # 0 => all_workers_running')
    <2>1. News(p) <= 1 /\ (News(p) # 0 => all_workers_running)
      BY DEF LifeInv, NewsInv
    <2> QED
      BY <1>3, <2>1
  <1>6. ASSUME NEW q \in Procs \ {Manager}, NEW p \in Procs
        PROVE  InBuffer(q, p)' = 0
    BY <1>1, <1>2 DEF LifeInv, NewsInv
  <1> QED
    BY <1>4, <1>5, <1>6 DEF LifeInv, NewsInv

\* A step that brings no news and publishes none keeps the invariant.
LEMMA CalmStep ==
  ASSUME LifeInv, RunInv', Advances, CommCalm, PcMoves,
         all_workers_running' <=> all_workers_running,
         Publishes(Events \ {"workers_started"})
  PROVE  LifeInv'
  <1>1. PubType' /\ OnceInv' /\ FirstInv'
    <2>1. Publishes(Events)
      BY DEF Publishes
    <2> QED
      BY <2>1, EventsStep
  <1>2. \A p \in Procs : Told(p)' = Told(p)
    <2>1. CASE UNCHANGED published
      BY <2>1 DEF Told
    <2>2. ASSUME NEW r \in Procs, NEW ev \in Events \ {"workers_started"},
                 Publish(r, ev)
          PROVE  \A p \in Procs : Told(p)' = Told(p)
      <3>1. \A q \in Procs : \A x :
              Count(published'[q], x)
                = Count(published[q], x) + IF q = r /\ x = ev THEN 1 ELSE 0
        BY <2>2, PublishIs DEF LifeInv
      <3>2. \A q \in Procs : Count(published[q], "workers_started") \in Nat
        BY NewsNumbers DEF LifeInv
      <3>3. \A q \in Procs : Count(published'[q], "workers_started")
                               = Count(published[q], "workers_started")
        BY <2>2, <3>1, <3>2
      <3> QED
        BY <3>3 DEF Told
    <2> QED
      BY <2>1, <2>2 DEF Publishes
  <1>3. NewsInv'
    <2>1. /\ \A p \in Procs : InRing(p) \in Nat /\ Told(p) \in Nat
          /\ \A q, p \in Procs : InBuffer(q, p) \in Nat
      BY NewsNumbers DEF LifeInv
    <2>2. /\ \A p \in Procs : InRing(p)' \in Nat
          /\ \A q, p \in Procs : InBuffer(q, p)' \in Nat
      BY <1>1, NewsNumbersNext DEF CommCalm
    <2>3. \A p \in Procs : News(p)' <= News(p)
      BY <1>2, <2>1, <2>2, ProcFacts DEF CommCalm, News
    <2> QED
      BY <1>1, <2>3, NewsStep DEF CommCalm
  <1> QED
    BY <1>1, <1>3 DEF LifeInv, CommCalm

-----------------------------------------------------------------------------
(*********************** steps that bring no news **************************)

\* A step that leaves rings and buffers alone brings no news.
LEMMA CommSame ==
  ASSUME MsgType, PubType, UNCHANGED <<inbox, outbuf>>
  PROVE  CommCalm
  <1>1. MsgType'
    BY DEF MsgType
  <1>2. /\ \A p \in Procs : InRing(p)' = InRing(p) /\ InRing(p) \in Nat
        /\ \A q, p \in Procs : /\ InBuffer(q, p)' = InBuffer(q, p)
                               /\ InBuffer(q, p) \in Nat
    BY NewsNumbers DEF InRing, InBuffer
  <1> QED
    BY <1>1, <1>2 DEF CommCalm

\* A message that is not the news, sent after another one was read or not.
LEMMA CommSend ==
  ASSUME MsgType, PubType, NEW box, NEW p \in Procs, NEW dst \in Procs,
         NEW msg \in Messages(dst), msg # "ALL_WORKERS_STARTED",
         Send(box, p, dst, msg),
         \/ box = inbox
         \/ \E r \in Procs : inbox[r] # <<>> /\ box = Unread(r)
  PROVE  CommCalm
  <1>1. \A d \in Procs : /\ box[d] \in Seq(Messages(d))
                         /\ Count(box[d], "ALL_WORKERS_STARTED") <= InRing(d)
    <2>1. CASE box = inbox
      BY <2>1, NewsNumbers DEF MsgType, InRing
    <2>2. CASE \E r \in Procs : inbox[r] # <<>> /\ box = Unread(r)
      BY <2>2, UnreadIs DEF InRing
    <2> QED
      BY <2>1, <2>2
  <1>2. /\ MsgType'
        /\ \A q, d \in Procs : Count(outbuf'[q], <<d, "ALL_WORKERS_STARTED">>)
                              = Count(outbuf[q], <<d, "ALL_WORKERS_STARTED">>)
        /\ \A d \in Procs : Count(inbox'[d], "ALL_WORKERS_STARTED")
                              = Count(box[d], "ALL_WORKERS_STARTED")
    BY <1>1, SendIs
  <1>3. \A q, d \in Procs : InBuffer(q, d) \in Nat
    BY NewsNumbers
  <1> QED
    BY <1>1, <1>2, <1>3 DEF CommCalm, InRing, InBuffer

\* A message that is read and not passed on.
LEMMA CommRead ==
  ASSUME MsgType, PubType, NEW p \in Procs, inbox[p] # <<>>,
         inbox' = Unread(p), UNCHANGED outbuf
  PROVE  CommCalm
  <1>1. MsgType'
    BY UnreadIs DEF MsgType
  <1>2. \A d \in Procs : InRing(d)' <= InRing(d)
    BY UnreadIs DEF InRing
  <1>3. \A q, d \in Procs : InBuffer(q, d)' = InBuffer(q, d)
                            /\ InBuffer(q, d) \in Nat
    BY NewsNumbers DEF InBuffer
  <1> QED
    BY <1>1, <1>2, <1>3 DEF CommCalm

\* core_manager_try_stop tells the workers to shut down.
LEMMA CommTell ==
  ASSUME MsgType, PubType, TellWorkers
  PROVE  CommCalm
  <1>1. CASE UNCHANGED comm
    BY <1>1, CommSame DEF comm
  <1>2. CASE SendWorkers("SHUTDOWN")
    <2> DEFINE dsts == {w \in Workers : \A v \in 0..w : ~Refused(v)}
               msg == "SHUTDOWN"
    <2>1. dsts \in SUBSET Procs /\ \A d \in dsts : msg \in Messages(d)
      BY ProcFacts, MessageKinds
    <2>2. SendEach(inbox, Manager, dsts, msg)
      BY <1>2 DEF SendWorkers
    <2>3. /\ \A d \in Procs : inbox[d] \in Seq(Messages(d))
          /\ Manager \in Procs
      BY ProcFacts DEF MsgType
    <2>4. msg # "ALL_WORKERS_STARTED"
      OBVIOUS
    <2> HIDE DEF dsts, msg
    <2>5. /\ MsgType'
          /\ \A q \in Procs \ {Manager} : outbuf'[q] = outbuf[q]
          /\ \A d \in Procs : \A m :
               /\ d \notin dsts \/ m # msg =>
                    /\ Count(inbox'[d], m) = Count(inbox[d], m)
                    /\ Count(outbuf'[Manager], <<d, m>>)
                         = Count(outbuf[Manager], <<d, m>>)
               /\ Count(inbox'[d], m) + Count(outbuf'[Manager], <<d, m>>)
                    <= Count(inbox[d], m)
                         + Count(outbuf[Manager], <<d, m>>) + 1
      BY <2>1, <2>2, <2>3, SendEachIs
    <2>6. /\ \A d \in Procs : InRing(d)' = InRing(d)
          /\ \A q, d \in Procs : InBuffer(q, d)' = InBuffer(q, d)
      BY <2>4, <2>5 DEF InRing, InBuffer
    <2>7. /\ \A d \in Procs : InRing(d) \in Nat
          /\ \A q, d \in Procs : InBuffer(q, d) \in Nat
      BY NewsNumbers
    <2> QED
      BY <2>5, <2>6, <2>7 DEF CommCalm
  <1> QED
    BY <1>1, <1>2 DEF TellWorkers

\* The channel is stopped and its buffer dropped.
LEMMA CommCleanup ==
  ASSUME MsgType, PubType, NEW p \in Procs, CleanupLoop(p)
  PROVE  CommCalm
  <1>1. /\ outbuf' = [outbuf EXCEPT ![p] = <<>>] /\ inbox' = inbox
        /\ DOMAIN outbuf = Procs
    BY DEF CleanupLoop, MsgType
  <1>2. /\ outbuf'[p] = <<>>
        /\ \A q \in Procs \ {p} : outbuf'[q] = outbuf[q]
    BY <1>1
  <1>3. MsgType'
    BY <1>1, <1>2 DEF MsgType
  <1>4. /\ \A d \in Procs : InRing(d) \in Nat
        /\ \A q, d \in Procs : InBuffer(q, d) \in Nat
    BY NewsNumbers
  <1>5. \A d \in Procs : InBuffer(p, d)' = 0
    <2> SUFFICES ASSUME NEW d \in Procs PROVE InBuffer(p, d)' = 0
      OBVIOUS
    <2>1. outbuf'[p] \in Seq(Mail)
      BY <1>3 DEF MsgType
    <2>2. \A i \in DOMAIN outbuf'[p] :
            outbuf'[p][i] # <<d, "ALL_WORKERS_STARTED">>
      BY <1>2
    <2> QED
      BY <2>1, <2>2, CountIs DEF InBuffer
  <1>6. \A q, d \in Procs : InBuffer(q, d)' <= InBuffer(q, d)
    <2> SUFFICES ASSUME NEW q \in Procs, NEW d \in Procs
                 PROVE  InBuffer(q, d)' <= InBuffer(q, d)
      OBVIOUS
    <2>1. CASE q = p
      BY <1>4, <1>5, <2>1
    <2>2. CASE q # p
      <3>1. InBuffer(q, d)' = InBuffer(q, d)
        BY <1>2, <2>2 DEF InBuffer
      <3> QED
        BY <1>4, <3>1
    <2> QED
      BY <2>1, <2>2
  <1>7. \A d \in Procs : InRing(d)' <= InRing(d)
    BY <1>1, <1>4 DEF InRing
  <1> QED
    BY <1>3, <1>6, <1>7 DEF CommCalm

\* Where nobody moves.
LEMMA PcSame == ASSUME UNCHANGED pc PROVE PcMoves
  BY DEF PcMoves

(* The steps of starting. *)
LEMMA StartupKeeps ==
  ASSUME LifeInv, RunInv', Advances, NEW p \in Procs, Startup(p)
  PROVE  LifeInv'
  <1> USE ProcFacts DEF Before, Late, Left
  <1>1. /\ MsgType /\ PubType /\ pc \in [Procs -> Places]
    BY DEF LifeInv, RunInv, RunType
  <1>2. CASE MasterRun \/ Fork \/ ManagerStarting \/ ManagerRunning
             \/ InitializeWorkers
    <2>1. /\ UNCHANGED <<inbox, outbuf, published, all_workers_running>>
      BY <1>2 DEF MasterRun, Fork, ManagerStarting, ManagerRunning,
                  InitializeWorkers, comm
    <2>2. ASSUME Fork PROVE PcMoves
      <3>1. /\ pc[Master] = "fork" /\ pc[Manager] = "none"
            /\ pc' = [pc EXCEPT ![Master] = "local", ![Manager] = "forked"]
        BY <2>2 DEF Fork, LifeInv, RunInv, Nesting
      <3> QED
        BY <1>1, <3>1 DEF PcMoves
    <2>3. ASSUME ~Fork PROVE PcMoves
      <3>1. PICK r \in Procs, x \in Before : pc' = [pc EXCEPT ![r] = x]
                                            /\ pc[r] \in Before
        BY <1>2, <2>3 DEF MasterRun, ManagerStarting, ManagerRunning,
                          InitializeWorkers, Goto
      <3> QED
        BY <1>1, <3>1 DEF PcMoves
    <2>4. PcMoves
      BY <2>2, <2>3
    <2> QED
      BY <1>1, <2>1, <2>4, CommSame, CalmStep DEF Publishes
  <1>3. CASE WorkersSpawned
    <2>1. /\ pc[Manager] = "spawn"
          /\ UNCHANGED <<inbox, outbuf, all_workers_running>>
          /\ \/ UNCHANGED published /\ pc' = [pc EXCEPT ![Manager] = "done"]
             \/ /\ Publish(Manager, "start")
                /\ pc' = [pc EXCEPT ![Manager] = "loop"]
      BY <1>3 DEF WorkersSpawned, Goto, comm
    <2>2. CASE UNCHANGED published /\ pc' = [pc EXCEPT ![Manager] = "done"]
      <3>1. PcMoves
        BY <1>1, <2>1, <2>2 DEF PcMoves
      <3> QED
        BY <1>1, <2>1, <2>2, <3>1, CommSame, CalmStep DEF Publishes
    <2>3. CASE /\ Publish(Manager, "start")
               /\ pc' = [pc EXCEPT ![Manager] = "loop"]
      <3>1. "start" \in Events \ {"workers_started"}
        BY DEF Events
      <3>2. published'[Manager] # <<>>
        BY <1>1, <2>3, <3>1, PublishIs
      <3>3. PcMoves
        BY <1>1, <2>1, <2>3, <3>2 DEF PcMoves
      <3>4. Fits(Manager, "start")
        BY <1>1, <2>1, <2>3 DEF Fits
      <3>5. Publishes(Events \ {"workers_started"})
        BY <2>3, <3>1, <3>4 DEF Publishes
      <3> QED
        BY <1>1, <2>1, <3>3, <3>5, CommSame, CalmStep
    <2> QED
      BY <2>1, <2>2, <2>3
  <1>4. CASE \E w \in Workers : SpawnWorker(w)
    <2>1. PICK w \in Workers : SpawnWorker(w)
      BY <1>4
    <2>2. /\ UNCHANGED <<inbox, outbuf, published, all_workers_running>>
          /\ state[w] = "NIL" /\ pc[Manager] = "spawn"
          /\ \E x \in {"local", "failed"} : pc' = [pc EXCEPT ![w] = x]
      BY <2>1 DEF SpawnWorker, Goto, comm
    <2>3. pc[w] \in Before
      <3>1. w \in Procs /\ pc[w] \in Places /\ pc[w] # "gone"
        BY <1>1, <2>2 DEF LifeInv, RunInv, Nesting
      <3> QED
        BY <2>2, <3>1 DEF LifeInv, RunInv, PlaceState, Places
    <2>4. PcMoves
      BY <1>1, <2>2, <2>3 DEF PcMoves
    <2> QED
      BY <1>1, <2>2, <2>4, CommSame, CalmStep DEF Publishes
  <1>5. CASE p \in Workers /\ WorkerStart(p)
    <2>1. /\ pc[p] = "start" /\ Publish(p, "start")
          /\ pc' = [pc EXCEPT ![p] = "report"]
          /\ UNCHANGED <<inbox, outbuf, all_workers_running>>
      BY <1>5 DEF WorkerStart, Goto, comm
    <2>2. "start" \in Events \ {"workers_started"}
      BY DEF Events
    <2>3. published'[p] # <<>>
      BY <1>1, <2>1, <2>2, PublishIs
    <2>4. PcMoves
      BY <1>1, <2>1, <2>3 DEF PcMoves
    <2>5. Fits(p, "start")
      BY <1>1, <2>1 DEF Fits
    <2>6. Publishes(Events \ {"workers_started"})
      BY <2>1, <2>2, <2>5 DEF Publishes
    <2> QED
      BY <1>1, <2>1, <2>4, <2>6, CommSame, CalmStep
  <1>6. CASE p \in Workers /\ WorkerReport(p)
    <2>1. /\ pc[p] = "report" /\ pc' = [pc EXCEPT ![p] = "loop"]
          /\ Send(inbox, p, Manager, "WORKER_STARTED")
          /\ UNCHANGED <<published, all_workers_running>>
      BY <1>6 DEF WorkerReport, Goto
    <2>2. PcMoves
      BY <1>1, <2>1 DEF PcMoves
    <2>3. CommCalm
      BY <1>1, <2>1, MessageKinds, CommSend
    <2> QED
      BY <2>1, <2>2, <2>3, CalmStep DEF Publishes
  <1>7. CASE LocalStarted(p)
    <2>1. /\ pc[p] = "local"
          /\ UNCHANGED <<inbox, outbuf, all_workers_running>>
      BY <1>7 DEF LocalStarted, comm
    <2>2. CASE p = Master
      <3>1. Publish(p, "start") /\ pc' = [pc EXCEPT ![p] = "loop"]
        BY <1>7, <2>2 DEF LocalStarted, Goto
      <3>2. "start" \in Events \ {"workers_started"}
        BY DEF Events
      <3>3. PcMoves
        BY <1>1, <2>1, <2>2, <3>1 DEF PcMoves
      <3>4. Fits(p, "start")
        BY <1>1, <2>1, <2>2, <3>1 DEF Fits
      <3>5. Publishes(Events \ {"workers_started"})
        BY <3>1, <3>2, <3>4 DEF Publishes
      <3> QED
        BY <1>1, <2>1, <3>3, <3>5, CommSame, CalmStep
    <2>3. CASE p # Master
      <3>1. /\ UNCHANGED published
            /\ \E x \in {"spawn", "start"} : pc' = [pc EXCEPT ![p] = x]
        BY <1>7, <2>3 DEF LocalStarted, Goto
      <3>2. PcMoves
        BY <1>1, <2>1, <3>1 DEF PcMoves
      <3> QED
        BY <1>1, <2>1, <3>1, <3>2, CommSame, CalmStep DEF Publishes
    <2> QED
      BY <2>2, <2>3
  <1> QED
    BY <1>2, <1>3, <1>4, <1>5, <1>6, <1>7 DEF Startup

(* The steps of stopping. *)

\* shuso_stop publishes the stop event of a process that runs.
LEMMA StopPublishes ==
  ASSUME LifeInv, NEW p \in Procs, pc[p] = "loop", state[p] = "RUNNING",
         state'[p] = "STOPPING", Publish(p, "stop")
  PROVE  Publishes(Events \ {"workers_started"})
  <1>1. "stop" \in Events \ {"workers_started"}
    BY DEF Events
  <1>2. Fits(p, "stop")
    BY DEF Fits, Ending, LifeInv, FirstInv, Late
  <1> QED
    BY <1>1, <1>2 DEF Publishes

\* core_master_try_stop sends at most a SHUTDOWN.
LEMMA MasterTryStopCalm ==
  ASSUME LifeInv, MasterTryStop
  PROVE  CommCalm /\ state'[Master] = "STOPPING"
  <1>1. MsgType /\ PubType /\ state \in [Procs -> States]
    BY DEF LifeInv, RunInv, RunType
  <1>2. CommCalm
    <2>1. CASE UNCHANGED comm
      BY <1>1, <2>1, CommSame DEF comm
    <2>2. CASE Send(inbox, Master, Manager, "SHUTDOWN")
      BY <1>1, <2>2, ProcFacts, MessageKinds, CommSend
    <2> QED
      BY <2>1, <2>2 DEF MasterTryStop
  <1> QED
    BY <1>1, <1>2, ProcFacts DEF MasterTryStop, SetState

\* core_manager_try_stop sends at most SHUTDOWNs.
LEMMA ManagerTryStopCalm ==
  ASSUME LifeInv, ManagerTryStop
  PROVE  CommCalm /\ state'[Manager] = "STOPPING"
  BY ProcFacts, CommTell DEF LifeInv, ManagerTryStop, JoinWorkers

\* shuso_stop, called in any process.
LEMMA StopKeeps ==
  ASSUME LifeInv, RunInv', Advances, NEW p \in Procs, Stop(p)
  PROVE  LifeInv'
  <1>1. MsgType /\ PubType
    BY DEF LifeInv
  <1>2. pc[p] = "loop" /\ UNCHANGED <<pc, all_workers_running>>
    BY DEF Stop
  <1>3. CASE p = Master /\ StopMaster
    <2>1. CommCalm /\ state'[Master] = "STOPPING"
      BY <1>3, MasterTryStopCalm DEF StopMaster
    <2>2. Publishes(Events \ {"workers_started"})
      BY <1>2, <1>3, <2>1, StopPublishes DEF StopMaster
    <2> QED
      BY <1>2, <2>1, <2>2, PcSame, CalmStep
  <1>4. CASE /\ p = Manager /\ Send(inbox, Manager, Master, "SHUTDOWN")
             /\ UNCHANGED published
    <2>1. CommCalm
      BY <1>1, <1>4, ProcFacts, MessageKinds, CommSend
    <2> QED
      BY <1>2, <1>4, <2>1, PcSame, CalmStep DEF Publishes
  <1>5. CASE /\ p \in Workers /\ Send(inbox, p, Manager, "PROXY_SHUTDOWN")
             /\ UNCHANGED published
    <2>1. CommCalm
      BY <1>1, <1>5, ProcFacts, MessageKinds, CommSend
    <2> QED
      BY <1>2, <1>5, <2>1, PcSame, CalmStep DEF Publishes
  <1> QED
    BY <1>3, <1>4, <1>5 DEF Stop

\* shutdown_handle_cb.
LEMMA ShutdownTimerKeeps ==
  ASSUME LifeInv, RunInv', Advances, NEW p \in Procs, ShutdownTimer(p)
  PROVE  LifeInv'
  <1>1. MsgType /\ PubType /\ state \in [Procs -> States]
    BY DEF LifeInv, RunInv, RunType
  <1>2. pc[p] = "loop" /\ UNCHANGED <<pc, all_workers_running>>
    BY DEF ShutdownTimer
  <1>3. CASE p = Master /\ StopMaster
    <2>1. CommCalm /\ state'[Master] = "STOPPING"
      BY <1>3, MasterTryStopCalm DEF StopMaster
    <2>2. Publishes(Events \ {"workers_started"})
      BY <1>2, <1>3, <2>1, StopPublishes DEF StopMaster
    <2> QED
      BY <1>2, <2>1, <2>2, PcSame, CalmStep
  <1>4. CASE p = Manager /\ StopManager
    <2>1. CommCalm /\ state'[Manager] = "STOPPING"
      BY <1>4, ManagerTryStopCalm DEF StopManager
    <2>2. Publishes(Events \ {"workers_started"})
      BY <1>2, <1>4, <2>1, StopPublishes DEF StopManager
    <2> QED
      BY <1>2, <2>1, <2>2, PcSame, CalmStep
  <1>5. CASE p \in Workers /\ StopWorker(p)
    <2>1. /\ state[p] = "RUNNING" /\ state'[p] = "STOPPING"
          /\ Publish(p, "stop") /\ UNCHANGED <<inbox, outbuf>>
      BY <1>1, <1>5 DEF StopWorker, SetState, comm
    <2>2. Publishes(Events \ {"workers_started"})
      BY <1>2, <2>1, StopPublishes
    <2> QED
      BY <1>1, <1>2, <2>1, <2>2, PcSame, CommSame, CalmStep
  <1>6. CASE UNCHANGED <<state, comm, stop_delayed, break_timer, published>>
    <2>1. UNCHANGED <<inbox, outbuf>> /\ UNCHANGED published
      BY <1>6 DEF comm
    <2> QED
      BY <1>1, <1>2, <2>1, PcSame, CommSame, CalmStep DEF Publishes
  <1> QED
    BY <1>3, <1>4, <1>5, <1>6 DEF ShutdownTimer

\* A delayed stop listener runs again.
LEMMA StopDelayKeeps ==
  ASSUME LifeInv, RunInv', Advances, NEW p \in Procs, StopDelay(p)
  PROVE  LifeInv'
  <1>1. MsgType /\ PubType
    BY DEF LifeInv
  <1>2. UNCHANGED <<pc, all_workers_running, published>>
    BY DEF StopDelay
  <1>3. CommCalm
    <2>1. CASE MasterTryStop
      BY <2>1, MasterTryStopCalm
    <2>2. CASE ManagerTryStop
      BY <2>2, ManagerTryStopCalm
    <2>3. CASE UNCHANGED <<state, comm>>
      BY <1>1, <2>3, CommSame DEF comm
    <2> QED
      BY <2>1, <2>2, <2>3 DEF StopDelay
  <1> QED
    BY <1>2, <1>3, PcSame, CalmStep DEF Publishes

\* A thread leaves its loop and ends.
LEMMA LeaveKeeps ==
  ASSUME LifeInv, RunInv', Advances, NEW p \in Procs,
         BreakTimer(p) \/ Exit(p) \/ (p \in Workers /\ WorkerShutdown(p))
  PROVE  LifeInv'
  <1> USE DEF Before, Late, Left
  <1>1. MsgType /\ PubType /\ pc \in [Procs -> Places]
    BY DEF LifeInv, RunInv, RunType
  <1>2. CASE BreakTimer(p)
    <2>1. /\ pc[p] = "loop" /\ pc' = [pc EXCEPT ![p] = "exit"]
          /\ UNCHANGED <<inbox, outbuf, published, all_workers_running>>
      BY <1>2 DEF BreakTimer, Goto, comm
    <2>2. PcMoves
      BY <1>1, <2>1 DEF PcMoves
    <2> QED
      BY <1>1, <2>1, <2>2, CommSame, CalmStep DEF Publishes
  <1>3. CASE Exit(p)
    <2>1. /\ pc[p] = "exit" /\ pc' = [pc EXCEPT ![p] = "done"]
          /\ Publish(p, "exit") /\ CleanupLoop(p)
          /\ UNCHANGED all_workers_running
      BY <1>3 DEF Exit, Goto
    <2>2. PcMoves
      BY <1>1, <2>1 DEF PcMoves
    <2>3. "exit" \in Events \ {"workers_started"}
      BY DEF Events
    <2>4. Fits(p, "exit")
      BY <1>1, <2>1 DEF Fits, LifeInv, FirstInv
    <2>5. Publishes(Events \ {"workers_started"})
      BY <2>1, <2>3, <2>4 DEF Publishes
    <2> QED
      BY <1>1, <2>1, <2>2, <2>5, CommCleanup, CalmStep
  <1>4. CASE WorkerShutdown(p)
    <2>1. /\ pc[p] = "exit" /\ pc' = [pc EXCEPT ![p] = "done"]
          /\ CleanupLoop(p)
          /\ UNCHANGED <<published, all_workers_running>>
      BY <1>4 DEF WorkerShutdown, Goto
    <2>2. PcMoves
      BY <1>1, <2>1 DEF PcMoves
    <2> QED
      BY <1>1, <2>1, <2>2, CommCleanup, CalmStep DEF Publishes
  <1> QED
    BY <1>2, <1>3, <1>4

\* The manager process ends, and its threads with it.
LEMMA ManagerGoneKeeps ==
  ASSUME LifeInv, RunInv', Advances, ManagerGone
  PROVE  LifeInv'
  <1>1. MsgType /\ PubType
    BY DEF LifeInv
  <1>2. /\ pc' = [p \in Procs |-> IF p = Master THEN pc[p] ELSE "gone"]
        /\ UNCHANGED <<inbox, outbuf, published, all_workers_running>>
    BY DEF ManagerGone, comm
  <1>3. PcMoves
    BY <1>2 DEF PcMoves, Before, Late, Left
  <1> QED
    BY <1>1, <1>2, <1>3, CommSame, CalmStep DEF Publishes

\* The master learns that the manager is dead.
LEMMA SigchildKeeps ==
  ASSUME LifeInv, RunInv', Advances, Sigchild
  PROVE  LifeInv'
  <1>1. MsgType /\ PubType /\ state \in [Procs -> States]
    BY DEF LifeInv, RunInv, RunType
  <1>2. /\ state'[Manager] = "DEAD"
        /\ UNCHANGED <<pc, inbox, outbuf, all_workers_running>>
        /\ \/ state[Manager] # "DEAD" /\ Publish(Master, "manager_exited")
           \/ UNCHANGED published
    BY <1>1, ProcFacts DEF Sigchild, SetState, comm
  <1>3. Publishes(Events \ {"workers_started"})
    <2>1. CASE state[Manager] # "DEAD" /\ Publish(Master, "manager_exited")
      <3>1. "manager_exited" \in Events \ {"workers_started"}
        BY DEF Events
      <3>2. Fits(Master, "manager_exited")
        BY <1>2, <2>1 DEF Fits
      <3> QED
        BY <2>1, <3>1, <3>2, ProcFacts DEF Publishes
    <2> QED
      BY <1>2, <2>1 DEF Publishes
  <1> QED
    BY <1>1, <1>2, <1>3, PcSame, CommSame, CalmStep

-----------------------------------------------------------------------------
(**************************** steps with messages **************************)

\* The signals and the requests of others are messages of their own.
LEMMA RequestKeeps ==
  ASSUME LifeInv, RunInv', Advances,
         ManagerSignal \/ \E w \in Workers : StopOneWorker(w)
  PROVE  LifeInv'
  <1>1. MsgType /\ PubType
    BY DEF LifeInv
  <1>2. UNCHANGED <<pc, published, all_workers_running>>
    BY DEF ManagerSignal, StopOneWorker
  <1>3. CASE ManagerSignal
    <2>1. PICK sig \in {"SIGINT", "SIGQUIT", "SIGTERM"} :
            Send(inbox, Manager, Master, sig)
      BY <1>3 DEF ManagerSignal
    <2>2. sig \in Messages(Master) /\ sig # "ALL_WORKERS_STARTED"
      BY MessageKinds
    <2>3. CommCalm
      BY <1>1, <2>1, <2>2, ProcFacts, CommSend
    <2> QED
      BY <1>2, <2>3, PcSame, CalmStep DEF Publishes
  <1>4. CASE \E w \in Workers : StopOneWorker(w)
    <2>1. PICK w \in Workers : Send(inbox, Manager, w, "SHUTDOWN")
      BY <1>4 DEF StopOneWorker
    <2>2. CommCalm
      BY <1>1, <2>1, ProcFacts, MessageKinds, CommSend
    <2> QED
      BY <1>2, <2>2, PcSame, CalmStep DEF Publishes
  <1> QED
    BY <1>3, <1>4

\* ipc_send_retry_cb takes the news from the manager's buffer to the ring.
LEMMA FlushKeeps ==
  ASSUME LifeInv, RunInv', Advances, NEW p \in Procs, FlushOutbuf(p)
  PROVE  LifeInv'
  <1> DEFINE m == Head(outbuf[p])
             A == "ALL_WORKERS_STARTED"
  <1>1. MsgType /\ PubType
    BY DEF LifeInv
  <1>2. /\ outbuf[p] # <<>>
        /\ inbox' = [inbox EXCEPT ![m[1]] = Append(inbox[m[1]], m[2])]
        /\ outbuf' = [outbuf EXCEPT ![p] = Tail(outbuf[p])]
        /\ UNCHANGED <<pc, published, all_workers_running>>
    BY DEF FlushOutbuf
  <1>3. /\ outbuf[p] \in Seq(Mail) /\ Tail(outbuf[p]) \in Seq(Mail)
        /\ m \in Mail
        /\ DOMAIN inbox = Procs /\ DOMAIN outbuf = Procs
    BY <1>1, <1>2 DEF MsgType
  <1>4. m[1] \in Procs /\ m[2] \in Messages(m[1]) /\ m = <<m[1], m[2]>>
    BY <1>3 DEF Mail
  <1> HIDE DEF m
  <1>5. /\ outbuf'[p] = Tail(outbuf[p])
        /\ \A q \in Procs \ {p} : outbuf'[q] = outbuf[q]
        /\ inbox'[m[1]] = Append(inbox[m[1]], m[2])
        /\ \A d \in Procs \ {m[1]} : inbox'[d] = inbox[d]
    BY <1>2, <1>3, <1>4
  <1>6. MsgType'
    <2>1. inbox'[m[1]] \in Seq(Messages(m[1]))
      BY <1>1, <1>4, <1>5 DEF MsgType
    <2>2. DOMAIN inbox' = Procs /\ DOMAIN outbuf' = Procs
      BY <1>2, <1>3
    <2> QED
      BY <1>1, <1>3, <1>5, <2>1, <2>2 DEF MsgType
  <1>7. PubType' /\ OnceInv' /\ FirstInv'
    BY <1>2, PcSame, EventsStep DEF Publishes
  <1>8. /\ \A q \in Procs : InRing(q) \in Nat /\ Told(q) \in Nat
        /\ \A q, d \in Procs : InBuffer(q, d) \in Nat
    BY <1>1, NewsNumbers
  <1>9. ASSUME NEW d \in Procs
        PROVE  /\ InRing(d)' = InRing(d) + IF m = <<d, A>> THEN 1 ELSE 0
               /\ InBuffer(p, d) =
                    InBuffer(p, d)' + IF m = <<d, A>> THEN 1 ELSE 0
    <2>1. Count(outbuf[p], <<d, A>>) = Count(Tail(outbuf[p]), <<d, A>>)
                                       + IF <<d, A>> = m THEN 1 ELSE 0
      BY <1>2, <1>3, CountTail DEF m
    <2>2. CASE d = m[1]
      <3>1. Count(Append(inbox[d], m[2]), A)
              = Count(inbox[d], A) + IF A = m[2] THEN 1 ELSE 0
        BY <1>1, <1>4, <2>2, CountAppend DEF MsgType
      <3>2. m = <<d, A>> <=> A = m[2]
        BY <1>4, <2>2
      <3> QED
        BY <1>5, <2>1, <2>2, <3>1, <3>2 DEF InRing, InBuffer
    <2>3. CASE d # m[1]
      <3>1. m # <<d, A>>
        BY <1>4, <2>3
      <3> QED
        BY <1>5, <1>8, <2>1, <2>3, <3>1 DEF InRing, InBuffer
    <2> QED
      BY <2>2, <2>3
  <1>10. /\ \A q, d \in Procs : InBuffer(q, d)' \in Nat
         /\ \A d \in Procs : InRing(d)' \in Nat
    BY <1>6, <1>7, NewsNumbersNext
  <1>11. \A q \in Procs \ {p}, d \in Procs : InBuffer(q, d)' = InBuffer(q, d)
    BY <1>5 DEF InBuffer
  <1>12. \A d \in Procs : Told(d)' = Told(d)
    BY <1>2 DEF Told
  <1>13. ASSUME NEW q \in Procs, NEW d \in Procs
         PROVE  InBuffer(q, d)' <= InBuffer(q, d)
    <2>1. CASE q = p
      BY <1>8, <1>9, <1>10, <2>1
    <2>2. CASE q # p
      BY <1>8, <1>11, <2>2
    <2> QED
      BY <2>1, <2>2
  <1>14. ASSUME NEW d \in Procs
         PROVE  News(d)' <= News(d)
    <2>1. CASE p = Manager
      BY <1>8, <1>9, <1>10, <1>12, <2>1 DEF News
    <2>2. CASE p # Manager
      <3>1. InBuffer(p, d) = 0
        BY <2>2 DEF LifeInv, NewsInv
      <3>2. m # <<d, A>>
        BY <1>9, <1>10, <3>1
      <3>3. /\ InRing(d)' = InRing(d)
            /\ InBuffer(Manager, d)' = InBuffer(Manager, d)
        BY <1>8, <1>9, <1>11, <2>2, <3>2, ProcFacts
      <3> QED
        BY <1>8, <1>12, <3>3, ProcFacts DEF News
    <2> QED
      BY <2>1, <2>2
  <1>15. NewsInv'
    BY <1>2, <1>6, <1>7, <1>13, <1>14, NewsStep
  <1> QED
    BY <1>6, <1>7, <1>15 DEF LifeInv

\* A process that gets the news has published its start event.
LEMMA NewsLate ==
  ASSUME LifeInv, NEW p \in Procs \ {Master}, pc[p] \in {"local", "loop"},
         AllStarted
  PROVE  pc[p] = "loop" /\ published[p] # <<>>
  <1>1. CASE pc[p] = "local" /\ p \in Workers
    BY <1>1, ProcFacts DEF LifeInv, RunInv, PlaceState, AllStarted
  <1>2. CASE pc[p] = "local" /\ p = Manager
    <2>1. 0 \in Workers
      BY LifecycleAssumption DEF Workers
    <2>2. pc[0] = "none"
      BY <1>2, <2>1 DEF LifeInv, RunInv, Nesting
    <2>3. state[0] = "NIL"
      BY <2>1, <2>2, ProcFacts DEF LifeInv, RunInv, PlaceState
    <2> QED
      BY <2>1, <2>3 DEF AllStarted
  <1>3. CASE pc[p] = "loop"
    BY <1>3 DEF LifeInv, FirstInv, Late
  <1> QED
    BY <1>1, <1>2, <1>3, ProcFacts

\* all_worker_started_handle publishes the news.
LEMMA AllWorkersStartedKeeps ==
  ASSUME LifeInv, RunInv', Advances, NEW p \in Procs,
         AllWorkersStartedHandle(p)
  PROVE  LifeInv'
  <1> DEFINE A == "ALL_WORKERS_STARTED"
  <1>1. MsgType /\ PubType
    BY DEF LifeInv
  <1>2. /\ pc[p] \in {"local", "loop"}
        /\ inbox[p] # <<>> /\ Head(inbox[p]) = A
        /\ inbox' = Unread(p) /\ UNCHANGED <<outbuf, pc, all_workers_running>>
        /\ Publish(p, "workers_started")
    BY DEF AllWorkersStartedHandle, Received
  <1>3. CommCalm
    BY <1>1, <1>2, CommRead
  <1>4. InRing(p) = InRing(p)' + 1
    BY <1>1, <1>2, UnreadIs DEF InRing
  <1>5. /\ \A q \in Procs : InRing(q) \in Nat /\ Told(q) \in Nat
        /\ \A q, d \in Procs : InBuffer(q, d) \in Nat
    BY <1>1, NewsNumbers
  <1>6. InRing(p)' \in Nat
    BY <1>1, <1>2, UnreadIs DEF InRing
  <1>7. AllStarted
    <2>1. News(p) # 0
      BY <1>4, <1>5, <1>6, ProcFacts DEF News
    <2> QED
      BY <2>1 DEF LifeInv, NewsInv
  <1>8. "workers_started" \in Events
    BY DEF Events
  <1>9. Fits(p, "workers_started")
    BY <1>2, <1>7, NewsLate DEF Fits
  <1>10. Publishes(Events)
    BY <1>2, <1>8, <1>9 DEF Publishes
  <1>11. PubType' /\ OnceInv' /\ FirstInv'
    BY <1>2, <1>10, PcSame, EventsStep
  <1>12. \A d \in Procs : Told(d)' = Told(d) + IF d = p THEN 1 ELSE 0
    <2>1. \A q \in Procs : \A x :
            Count(published'[q], x) = Count(published[q], x)
              + IF q = p /\ x = "workers_started" THEN 1 ELSE 0
      BY <1>1, <1>2, <1>8, PublishIs
    <2>2. \A q \in Procs : Count(published'[q], "workers_started")
            = Count(published[q], "workers_started") + IF q = p THEN 1 ELSE 0
      BY <2>1
    <2> QED
      BY <2>2 DEF Told
  <1>13. /\ \A q \in Procs : InRing(q)' \in Nat
         /\ \A q, d \in Procs : InBuffer(q, d)' \in Nat
    BY <1>3, <1>11, NewsNumbersNext DEF CommCalm
  <1>14. ASSUME NEW d \in Procs PROVE News(d)' <= News(d)
    <2>1. /\ InRing(d)' <= InRing(d)
          /\ InBuffer(Manager, d)' <= InBuffer(Manager, d)
      BY <1>3, ProcFacts DEF CommCalm
    <2> QED
      BY <1>4, <1>5, <1>12, <1>13, <2>1, ProcFacts DEF News
  <1>15. NewsInv'
    BY <1>2, <1>3, <1>11, <1>14, NewsStep DEF CommCalm
  <1> QED
    BY <1>3, <1>11, <1>15 DEF LifeInv, CommCalm

\* worker_started_handle sends the news once, to each process but itself.
LEMMA AnnounceKeeps ==
  ASSUME LifeInv, RunInv', Advances, Received(Manager, {"WORKER_STARTED"}),
         AllRunning, ~all_workers_running, Announce, all_workers_running',
         UNCHANGED <<state, pc>>
  PROVE  LifeInv'
  <1> DEFINE A == "ALL_WORKERS_STARTED"
             dsts == {p \in Procs \ {Manager} : ~Refused(p)}
             box == Unread(Manager)
  <1>1. MsgType /\ PubType /\ Manager \in Procs
    BY ProcFacts DEF LifeInv
  <1>2. /\ inbox[Manager] # <<>> /\ pc[Manager] \in {"local", "loop"}
        /\ SendEach(box, Manager, dsts, A)
        /\ Publish(Manager, "workers_started")
    BY DEF Received, Announce
  <1>3. AllStarted
    BY DEF AllRunning, AllStarted
  <1>4. dsts \in SUBSET Procs /\ \A d \in dsts : A \in Messages(d)
    BY MessageKinds
  <1>5. Manager \notin dsts
    OBVIOUS
  <1>6. /\ \A d \in Procs : box[d] \in Seq(Messages(d))
        /\ \A d \in Procs : \A m : /\ Count(box[d], m) \in Nat
                                   /\ Count(box[d], m) <= Count(inbox[d], m)
    BY <1>1, <1>2, UnreadIs
  <1> HIDE DEF dsts, box
  <1>7. /\ MsgType'
        /\ \A q \in Procs \ {Manager} : outbuf'[q] = outbuf[q]
        /\ \A d \in Procs : \A m :
             /\ d \notin dsts \/ m # A =>
                  /\ Count(inbox'[d], m) = Count(box[d], m)
                  /\ Count(outbuf'[Manager], <<d, m>>)
                       = Count(outbuf[Manager], <<d, m>>)
             /\ Count(inbox'[d], m) + Count(outbuf'[Manager], <<d, m>>)
                  <= Count(box[d], m) + Count(outbuf[Manager], <<d, m>>) + 1
    BY <1>1, <1>2, <1>4, <1>6, SendEachIs
  <1>8. "workers_started" \in Events
    BY DEF Events
  <1>9. Fits(Manager, "workers_started")
    BY <1>1, <1>2, <1>3, NewsLate, ProcFacts DEF Fits
  <1>10. Publishes(Events)
    BY <1>1, <1>2, <1>8, <1>9 DEF Publishes
  <1>11. PubType' /\ OnceInv' /\ FirstInv'
    BY <1>10, PcSame, EventsStep
  <1>12. \A d \in Procs : Told(d)' = Told(d) + IF d = Manager THEN 1 ELSE 0
    <2>1. \A q \in Procs : \A x :
            Count(published'[q], x) = Count(published[q], x)
              + IF q = Manager /\ x = "workers_started" THEN 1 ELSE 0
      BY <1>1, <1>2, <1>8, PublishIs
    <2>2. \A q \in Procs : Count(published'[q], "workers_started")
            = Count(published[q], "workers_started")
              + IF q = Manager THEN 1 ELSE 0
      BY <2>1
    <2> QED
      BY <2>2 DEF Told
  <1>13. /\ \A q \in Procs : InRing(q) \in Nat /\ Told(q) \in Nat
         /\ \A q, d \in Procs : InBuffer(q, d) \in Nat
         /\ \A q \in Procs : InRing(q)' \in Nat /\ Told(q)' \in Nat
         /\ \A q, d \in Procs : InBuffer(q, d)' \in Nat
    BY <1>1, <1>7, <1>11, NewsNumbers, NewsNumbersNext
  <1>14. \A d \in Procs : /\ InRing(d) = 0 /\ InBuffer(Manager, d) = 0
                          /\ Told(d) = 0
    <2> SUFFICES ASSUME NEW d \in Procs
                 PROVE  /\ InRing(d) = 0 /\ InBuffer(Manager, d) = 0
                        /\ Told(d) = 0
      OBVIOUS
    <2>1. InRing(d) + InBuffer(Manager, d) + Told(d) = 0
      BY DEF LifeInv, NewsInv, News
    <2>2. /\ InRing(d) \in Nat /\ InBuffer(Manager, d) \in Nat
          /\ Told(d) \in Nat
      BY <1>1, <1>13
    <2> HIDE DEF InRing, InBuffer, Told
    <2> QED
      BY <2>1, <2>2
  <1>15. ASSUME NEW d \in Procs PROVE News(d)' <= 1
    <2>1. Count(box[d], A) = 0
      BY <1>6, <1>14 DEF InRing
    <2>2. CASE d = Manager
      <3>1. InRing(d)' = 0 /\ InBuffer(Manager, d)' = 0
        BY <1>5, <1>7, <1>14, <2>1, <2>2 DEF InRing, InBuffer
      <3> QED
        BY <1>12, <1>14, <2>2, <3>1 DEF News
    <2>3. CASE d # Manager
      <3>1. InRing(d)' + InBuffer(Manager, d)' <= 0 + 0 + 1
        BY <1>7, <1>14, <2>1 DEF InRing, InBuffer
      <3>2. Told(d)' = 0
        BY <1>12, <1>14, <2>3
      <3> QED
        BY <1>1, <1>13, <3>1, <3>2 DEF News
    <2> QED
      BY <2>2, <2>3
  <1>16. \A q \in Procs \ {Manager}, d \in Procs : InBuffer(q, d)' = 0
    BY <1>7 DEF LifeInv, NewsInv, InBuffer
  <1>17. NewsInv'
    BY <1>3, <1>15, <1>16 DEF NewsInv, AllStarted
  <1> QED
    BY <1>7, <1>11, <1>17 DEF LifeInv

\* The handlers.
LEMMA ReceiveKeeps ==
  ASSUME LifeInv, RunInv', Advances, NEW p \in Procs, ReceiveMessage(p)
  PROVE  LifeInv'
  <1>1. MsgType /\ PubType
    BY DEF LifeInv
  <1>2. CASE ShutdownHandle(p)
    <2>1. /\ inbox[p] # <<>> /\ inbox' = Unread(p)
          /\ UNCHANGED <<outbuf, pc, published, all_workers_running>>
      BY <1>2 DEF ShutdownHandle, Received
    <2> QED
      BY <1>1, <2>1, CommRead, PcSame, CalmStep DEF Publishes
  <1>3. CASE AllWorkersStartedHandle(p)
    BY <1>3, AllWorkersStartedKeeps
  <1>4. CASE p = Master /\ SignalHandle
    <2>1. /\ inbox[Master] # <<>>
          /\ UNCHANGED <<pc, published, all_workers_running>>
          /\ \/ Send(Unread(Master), Master, Manager, "SHUTDOWN")
             \/ inbox' = Unread(Master) /\ UNCHANGED outbuf
      BY <1>4 DEF SignalHandle, Received
    <2>2. CommCalm
      BY <1>1, <2>1, ProcFacts, MessageKinds, CommRead, CommSend
    <2> QED
      BY <2>1, <2>2, PcSame, CalmStep DEF Publishes
  <1>5. CASE p = Manager /\ ManagerProxyHandle
    <2>1. /\ inbox[Manager] # <<>>
          /\ UNCHANGED <<pc, published, all_workers_running>>
          /\ Send(Unread(Manager), Manager, Master, "PROXIED_SHUTDOWN")
      BY <1>5 DEF ManagerProxyHandle, Received
    <2>2. CommCalm
      BY <1>1, <2>1, ProcFacts, MessageKinds, CommSend
    <2> QED
      BY <2>1, <2>2, PcSame, CalmStep DEF Publishes
  <1>6. CASE p = Manager /\ WorkerStartedHandle
    <2>1. /\ Received(Manager, {"WORKER_STARTED"})
          /\ all_workers_running' = (all_workers_running \/ AllRunning)
          /\ UNCHANGED <<state, pc>>
      BY <1>6 DEF WorkerStartedHandle
    <2>2. CASE AllRunning /\ ~all_workers_running /\ Announce
      BY <2>1, <2>2, AnnounceKeeps
    <2>3. CASE /\ ~AllRunning \/ all_workers_running
               /\ inbox' = Unread(Manager)
               /\ UNCHANGED <<outbuf, published>>
      <3>1. inbox[Manager] # <<>>
        BY <2>1 DEF Received
      <3>2. CommCalm
        BY <1>1, <2>3, <3>1, ProcFacts, CommRead
      <3>3. all_workers_running' <=> all_workers_running
        BY <2>1, <2>3, Zenon
      <3> QED
        BY <2>1, <2>3, <3>2, <3>3, PcSame, CalmStep DEF Publishes
    <2> QED
      BY <1>6, <2>2, <2>3 DEF WorkerStartedHandle
  <1> QED
    BY <1>2, <1>3, <1>4, <1>5, <1>6 DEF ReceiveMessage

(***************************** the invariant *******************************)

\* Nothing has been sent or published at first.
LEMMA LifeInit == Init => LifeInv
  <1> SUFFICES ASSUME Init PROVE LifeInv
    OBVIOUS
  <1>1. RunInv
    BY RunInit
  <1>2. MsgType /\ PubType
    BY DEF Init, MsgType, PubType
  <1>3. \A p \in Procs : /\ inbox[p] = <<>> /\ outbuf[p] = <<>>
                         /\ published[p] = <<>>
    BY DEF Init
  <1>4. \A p \in Procs : \A x : /\ Count(inbox[p], x) = 0
                                /\ Count(outbuf[p], x) = 0
                                /\ Count(published[p], x) = 0
    <2> SUFFICES ASSUME NEW p \in Procs, NEW x
                 PROVE  /\ Count(inbox[p], x) = 0 /\ Count(outbuf[p], x) = 0
                        /\ Count(published[p], x) = 0
      OBVIOUS
    <2>1. /\ inbox[p] \in Seq(Messages(p)) /\ outbuf[p] \in Seq(Mail)
          /\ published[p] \in Seq(Events)
      BY <1>2 DEF MsgType, PubType
    <2>2. /\ \A i \in DOMAIN inbox[p] : inbox[p][i] # x
          /\ \A i \in DOMAIN outbuf[p] : outbuf[p][i] # x
          /\ \A i \in DOMAIN published[p] : published[p][i] # x
      BY <1>3
    <2> QED
      BY <2>1, <2>2, CountIs
  <1>5. NewsInv
    BY <1>4, ProcFacts
    DEF Init, NewsInv, News, InRing, InBuffer, Told
  <1>6. OnceInv
    BY <1>4 DEF OnceInv
  <1>7. FirstInv
    BY <1>3 DEF Init, FirstInv, Late
  <1> QED
    BY <1>1, <1>2, <1>5, <1>6, <1>7 DEF LifeInv

\* Every step keeps the invariant.
LEMMA LifeStep == LifeInv /\ [Next]_vars => LifeInv'
  <1> SUFFICES ASSUME LifeInv, [Next]_vars PROVE LifeInv'
    OBVIOUS
  <1>1. RunInv' /\ Advances
    BY RunStep DEF LifeInv
  <1>2. ASSUME NEW p \in Procs,
               \/ Startup(p) \/ ReceiveMessage(p) \/ FlushOutbuf(p)
               \/ ShutdownTimer(p) \/ StopDelay(p) \/ BreakTimer(p)
               \/ Exit(p) \/ Stop(p)
        PROVE  LifeInv'
    BY <1>1, <1>2, StartupKeeps, ReceiveKeeps, FlushKeeps, ShutdownTimerKeeps,
       StopDelayKeeps, LeaveKeeps, StopKeeps
  <1>3. ASSUME NEW w \in Workers, WorkerShutdown(w) \/ StopOneWorker(w)
        PROVE  LifeInv'
    BY <1>1, <1>3, ProcFacts, LeaveKeeps, RequestKeeps
  <1>4. CASE ManagerGone
    BY <1>1, <1>4, ManagerGoneKeeps
  <1>5. CASE Sigchild
    BY <1>1, <1>5, SigchildKeeps
  <1>6. CASE ManagerSignal
    BY <1>1, <1>6, RequestKeeps
  <1>7. CASE UNCHANGED vars \/ ServerStartup
    <2>1. UNCHANGED <<inbox, outbuf, pc, published, all_workers_running>>
      BY <1>7 DEF vars, comm, ServerStartup
    <2> QED
      BY <1>1, <2>1, CommSame, PcSame, CalmStep DEF Publishes, LifeInv
  <1> QED
    BY <1>2, <1>3, <1>4, <1>5, <1>6, <1>7 DEF Next

\* The rest of the type invariant.
SwitchType == /\ shutdown_timer \in [Procs -> BOOLEAN]
              /\ initialized \subseteq Workers
              /\ all_workers_running \in BOOLEAN
              /\ requests \in 0..MaxRequests
              /\ stop_asked \in BOOLEAN
              /\ initializing \in BOOLEAN

\* The steps keep the types of the timers, flags and counters.
LEMMA SwitchStep == SwitchType /\ [Next]_vars => SwitchType'
  <1> SUFFICES ASSUME SwitchType, [Next]_vars PROVE SwitchType'
    OBVIOUS
  <1>1. shutdown_timer' \in [Procs -> BOOLEAN]
    <2>1. \/ UNCHANGED shutdown_timer
          \/ \E p \in Procs, b \in BOOLEAN :
               shutdown_timer' = [shutdown_timer EXCEPT ![p] = b]
      BY ProcFacts
      DEF Next, vars, timers, Startup, MasterRun, Fork, ManagerStarting,
          ManagerRunning, InitializeWorkers, WorkersSpawned, SpawnWorker,
          WorkerStart, WorkerReport, LocalStarted, ReceiveMessage,
          ShutdownHandle, AllWorkersStartedHandle, SignalHandle,
          ManagerProxyHandle, WorkerStartedHandle, FlushOutbuf, ShutdownTimer,
          StopDelay, BreakTimer, Exit, Stop, WorkerShutdown, StopOneWorker,
          CleanupLoop, ManagerGone, Sigchild, ManagerSignal, ServerStartup
    <2> QED
      BY <2>1 DEF SwitchType
  <1>2. /\ initialized' \subseteq Workers
        /\ all_workers_running' \in BOOLEAN
    <2>1. /\ UNCHANGED initialized \/ initialized' \in InitializeWorker
          /\ \/ UNCHANGED all_workers_running
             \/ all_workers_running' = (all_workers_running \/ AllRunning)
      BY DEF Next, vars, Startup, MasterRun, Fork, ManagerStarting,
          ManagerRunning, InitializeWorkers, WorkersSpawned, SpawnWorker,
          WorkerStart, WorkerReport, LocalStarted, ReceiveMessage,
          ShutdownHandle, AllWorkersStartedHandle, SignalHandle,
          ManagerProxyHandle, WorkerStartedHandle, FlushOutbuf, ShutdownTimer,
          StopDelay, BreakTimer, Exit, Stop, WorkerShutdown, StopOneWorker,
          ManagerGone, Sigchild, ManagerSignal, ServerStartup
    <2>2. \A S \in InitializeWorker : S \subseteq Workers
      BY DEF InitializeWorker
    <2>3. (all_workers_running \/ AllRunning) \in BOOLEAN
      OBVIOUS
    <2> QED
      BY <2>1, <2>2, <2>3 DEF SwitchType
  <1>3. requests' \in 0..MaxRequests /\ stop_asked' \in BOOLEAN
    <2>1. /\ UNCHANGED requests \/ Request
          /\ UNCHANGED stop_asked \/ stop_asked' = TRUE
      BY DEF Next, vars, Startup, MasterRun, Fork, ManagerStarting,
          ManagerRunning, InitializeWorkers, WorkersSpawned, SpawnWorker,
          WorkerStart, WorkerReport, LocalStarted, ReceiveMessage,
          ShutdownHandle, AllWorkersStartedHandle, SignalHandle,
          ManagerProxyHandle, WorkerStartedHandle, FlushOutbuf, ShutdownTimer,
          StopDelay, BreakTimer, Exit, Stop, WorkerShutdown, StopOneWorker,
          ManagerGone, Sigchild, ManagerSignal, ServerStartup
    <2>2. requests' \in 0..MaxRequests
      BY <2>1, LifecycleAssumption DEF SwitchType, Request
    <2>3. stop_asked' \in BOOLEAN
      BY <2>1, Zenon DEF SwitchType
    <2> QED
      BY <2>2, <2>3
  <1>4. initializing' \in BOOLEAN
    <2>1. UNCHANGED initializing \/ initializing' = FALSE
      BY DEF Next, vars, Startup, MasterRun, Fork, ManagerStarting,
          ManagerRunning, InitializeWorkers, WorkersSpawned, SpawnWorker,
          WorkerStart, WorkerReport, LocalStarted, ReceiveMessage,
          ShutdownHandle, AllWorkersStartedHandle, SignalHandle,
          ManagerProxyHandle, WorkerStartedHandle, FlushOutbuf, ShutdownTimer,
          StopDelay, BreakTimer, Exit, Stop, WorkerShutdown, StopOneWorker,
          ManagerGone, Sigchild, ManagerSignal, ServerStartup
    <2> QED
      BY <2>1, Zenon DEF SwitchType
  <1> QED
    BY <1>1, <1>2, <1>3, <1>4 DEF SwitchType

-----------------------------------------------------------------------------
(******************************** theorems *********************************)

(* The runstates, the places of the threads and the stop timers agree in   *)
(* every state.                                                            *)
LEMMA RunInvariant == Spec => []RunInv
  BY RunInit, RunStep, PTL DEF Spec

(* The processes leave in order, workers before the manager before the     *)
(* master, whatever fails or is killed: shuso_cleanup_loop in the manager  *)
(* never frees a ring that a worker's thread still uses.                   *)
THEOREM LifecycleLeavesInOrder == Spec => []LeavesInOrder
  <1>1. RunInv => LeavesInOrder
    BY DEF RunInv, WorkersLeft, ManagerLeft, LeavesInOrder, ManagerLeavesLast,
           MasterLeavesLast
  <1> QED
    BY <1>1, RunInvariant, PTL

(* No step takes a runstate back, although two processes write to it.      *)
THEOREM LifecycleStatesAdvance == Spec => StatesAdvance
  <1>1. RunInv /\ [Next]_vars
          => [\A p \in Procs : Rank(state'[p]) >= Rank(state[p])]_vars
    BY RunStep DEF Advances
  <1> QED
    BY <1>1, RunInvariant, PTL DEF Spec, StatesAdvance

(* Who is where, what has been sent and what has been published agree in   *)
(* every state.                                                            *)
LEMMA LifeInvariant == Spec => []LifeInv
  BY LifeInit, LifeStep, PTL DEF Spec

(* Every message, in a ring or waiting in a buffer, is one its receiver    *)
(* has a handler for: the handlers of ipc_commands.c assert the process    *)
(* they run in.                                                            *)
THEOREM LifecycleTypeCorrect == Spec => []TypeOK
  <1>1. Init => SwitchType
    <2> SUFFICES ASSUME Init PROVE SwitchType
      OBVIOUS
    <2>1. 0 \in 0..MaxRequests
      BY LifecycleAssumption
    <2>2. /\ shutdown_timer \in [Procs -> BOOLEAN]
          /\ initialized \subseteq Workers
          /\ all_workers_running \in BOOLEAN /\ stop_asked \in BOOLEAN
          /\ initializing \in BOOLEAN
      BY Zenon DEF Init
    <2> QED
      BY <2>1, <2>2, Zenon DEF Init, SwitchType
  <1>2. Spec => []SwitchType
    BY <1>1, SwitchStep, PTL DEF Spec
  <1>3. LifeInv /\ SwitchType => TypeOK
    <2> SUFFICES ASSUME LifeInv, SwitchType PROVE TypeOK
      OBVIOUS
    <2>1. ASSUME NEW p \in Procs, NEW i \in DOMAIN outbuf[p]
          PROVE  \E d \in Procs, m \in UNION {Messages(q) : q \in Procs} :
                   outbuf[p][i] = <<d, m>> /\ m \in Messages(d)
      <3>1. outbuf[p] \in Seq(Mail)
        BY DEF LifeInv, MsgType
      <3>2. outbuf[p][i] \in Mail
        BY <3>1
      <3> QED
        BY <3>2 DEF Mail, Msgs
    <2> QED
      BY <2>1
      DEF TypeOK, LifeInv, RunInv, RunType, MsgType, PubType, SwitchType
  <1> QED
    BY <1>2, <1>3, LifeInvariant, PTL

(* No process publishes an event about itself twice, and manager and       *)
(* workers publish none before their start: whatever stop requests,        *)
(* signals and reports meet, the handlers that publish run once.           *)
THEOREM LifecycleEventsOnce == Spec => []EventsOnce
  <1>1. LifeInv => EventsOnce
    <2> SUFFICES ASSUME LifeInv, NEW p \in Procs
                 PROVE  /\ \A i, j \in DOMAIN published[p] :
                             published[p][i] = published[p][j] => i = j
                        /\ p # Master /\ published[p] # <<>> =>
                             published[p][1] = "start"
      BY DEF EventsOnce
    <2>1. published[p] \in Seq(Events)
      BY DEF LifeInv, PubType
    <2>2. \A ev \in Events : Count(published[p], ev) <= 1
      <3>1. \A ev : Count(published[p], ev) \in Nat
        BY NewsNumbers DEF LifeInv
      <3>2. Count(published[p], "workers_started") <= 1
        <4>1. InRing(p) + InBuffer(Manager, p) + Told(p) <= 1
          BY DEF LifeInv, NewsInv, News
        <4>2. /\ InRing(p) \in Nat /\ InBuffer(Manager, p) \in Nat
              /\ Told(p) \in Nat
          BY NewsNumbers, ProcFacts DEF LifeInv
        <4>3. Told(p) <= 1
          <5> HIDE DEF InRing, InBuffer, Told
          <5> QED
            BY <4>1, <4>2
        <4> QED
          BY <4>3 DEF Told
      <3>3. /\ Count(published[p], "start") <= 1
            /\ Count(published[p], "stop") <= 1
            /\ Count(published[p], "exit") <= 1
            /\ Count(published[p], "manager_exited") <= 1
        BY <3>1 DEF LifeInv, OnceInv
      <3> QED
        BY <3>2, <3>3 DEF Events
    <2>3. ASSUME NEW i \in DOMAIN published[p], NEW j \in DOMAIN published[p],
                 published[p][i] = published[p][j]
          PROVE  i = j
      <3>1. published[p][i] \in Events
        BY <2>1
      <3>2. Count(published[p], published[p][i]) <= 1
        BY <2>2, <3>1
      <3> QED
        BY <2>1, <2>3, <3>2, CountOnce
    <2> QED
      BY <2>3 DEF LifeInv, FirstInv
  <1> QED
    BY <1>1, LifeInvariant, PTL

(* workers_started is only published, in any process, once every worker    *)
(* has been RUNNING, however the workers' reports and the manager's        *)
(* announcement overtake each other.                                       *)
THEOREM LifecycleStartedMeansRunning == Spec => []StartedMeansRunning
  <1>1. LifeInv => StartedMeansRunning
    <2> SUFFICES ASSUME LifeInv, NEW p \in Procs,
                        Published(p, "workers_started")
                 PROVE  AllStarted
      BY DEF StartedMeansRunning, AllStarted
    <2>1. /\ InRing(p) \in Nat /\ InBuffer(Manager, p) \in Nat
          /\ Told(p) \in Nat
      BY NewsNumbers, ProcFacts DEF LifeInv
    <2>2. Told(p) # 0
      <3>1. published[p] \in Seq(Events)
        BY DEF LifeInv, PubType
      <3> QED
        BY <3>1, CountIs DEF Published, Told
    <2>3. News(p) # 0
      <3> HIDE DEF InRing, InBuffer, Told
      <3> QED
        BY <2>1, <2>2 DEF News
    <2> QED
      BY <2>3 DEF LifeInv, NewsInv
  <1> QED
    BY <1>1, LifeInvariant, PTL
=============================================================================
