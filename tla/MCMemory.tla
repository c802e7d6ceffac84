------------------------------ MODULE MCMemory ------------------------------
(***************************************************************************)
(* What must be released when, and only when, nobody uses it: the memory   *)
(* of the shared slab, the memory of a pool, and the watchers of Lua code. *)
(* Which one is used is chosen at the start; the others stay as they are.  *)
(* Nothing is claimed of watchers once nil was assigned to a handler, so   *)
(* the run ends there.                                                     *)
(***************************************************************************)
EXTENDS SharedSlab, Pool, Watcher, TLC

VARIABLE which
vars == <<slabVars, poolVars, watcherVars, which>>

Init ==
  /\ SlabInit /\ PoolInit /\ WatcherInit
  /\ which \in {"slab", "pool", "watcher"}
Next ==
  /\ UNCHANGED which
  /\ \/ which = "slab" /\ SlabNext /\ UNCHANGED <<poolVars, watcherVars>>
     \/ which = "pool" /\ PoolNext /\ UNCHANGED <<slabVars, watcherVars>>
     \/ /\ which = "watcher" /\ ~nilled /\ WatcherNext
        /\ UNCHANGED <<slabVars, poolVars>>

\* Processes are alike.
ProcSymmetry == Permutations(SlabProcs)

Spec == Init /\ [][Next]_vars
=============================================================================
