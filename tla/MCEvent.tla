------------------------------ MODULE MCEvent -------------------------------
(***************************************************************************)
(* Model checking of an event with two or three listeners.  A behaviour    *)
(* has either nested firings and several occurrences, or one occurrence    *)
(* whose delays are resumed before their timers fire: the two together are *)
(* too many states.  Listeners register with all priorities, but only the  *)
(* arrays of the default priority are fired: firing does not look at it.   *)
(***************************************************************************)
EXTENDS Event

VARIABLE mode   \* the one of Uses a behaviour exercises

\* The ends of the scale and the default.
MCPriorities == {FIRST_PRIORITY, 0, LAST_PRIORITY}

MCInit == Init /\ mode \in Uses

MCNext == /\ Next
          /\ published' > 0 => \A i \in DOMAIN listeners : listeners[i].priority = 0
          /\ mode = "nested" => redone' = redone
          /\ mode = "resume" => published' <= 1 /\ Len(stack') <= 1
          /\ UNCHANGED mode

MCSpec == MCInit /\ [][MCNext]_<<vars, mode>>
MCFairSpec == MCSpec /\ Fairness
=============================================================================
