------------------------------- MODULE Event --------------------------------
(***************************************************************************)
(* One event of a module: its listeners, registered with a priority before *)
(* the module is finalized, and its firings.  A listener may cancel the    *)
(* event, pause it (whoever has the pause resumes it with the next         *)
(* listener) or delay it (a timer, or whoever has the reference, resumes   *)
(* it with the same listener).                                             *)
(*                                                                         *)
(* Everything happens in one thread.  fire_event calls the listeners, and  *)
(* a listener may publish or resume the event in turn, so the firings in   *)
(* progress form a stack.  An occurrence is one shuso_event_publish with   *)
(* all the firings that continue it.                                       *)
(***************************************************************************)
EXTENDS Integers, Sequences, FiniteSets, SequencesExt

CONSTANTS MaxListeners,  \* bound: listeners of the event
          Priorities,    \* priorities they ask for
          Permits,       \* interruptions the event's interrupt_handler allows
          Uses,          \* what listeners and publishers do
          DebugEvents,   \* the build has SHUTTLESOCK_DEBUG_EVENTS
          MaxPublish,    \* bound: occurrences
          MaxDelays      \* bound: delays whose timer has not fired

FIRST_PRIORITY == 127
LAST_PRIORITY  == -127

Interrupts == {"PAUSE", "CANCEL", "DELAY"}
AllUses == {"nested",   \* the event is fired while others of its firings are
                        \* in progress, paused or delayed
            "resume"}   \* shuso_event_resume_delayed is called

ASSUME EventAssumption == /\ MaxListeners \in Nat \ {0}
                          /\ Priorities \subseteq LAST_PRIORITY..FIRST_PRIORITY
                          /\ Permits \subseteq Interrupts
                          /\ Uses \subseteq AllUses
                          /\ DebugEvents \in BOOLEAN
                          /\ MaxPublish \in Nat
                          /\ MaxDelays \in Nat

VARIABLES
  listeners,  \* sequence of [number, priority]; number: order of registration
  finalized,  \* shuso_module_finalize has copied them into the array
  stack,      \* firings in progress, the innermost last
  paused,     \* shuso_event_pause_t structures, waiting to be resumed
  delayed,    \* shuso_event_delay_t structures
  interrupt_state,  \* shuttlesock.core.event.debug.interrupt_state
  aborted,    \* the debugging build has raised SIGABRT
  published,  \* occurrences so far
  passed,     \* history: listeners an occurrence has got past
  cancelled,  \* history: occurrences a listener has cancelled
  redone      \* history: occurrences shuso_event_resume_delayed has resumed

vars == <<listeners, finalized, stack, paused, delayed, interrupt_state,
          aborted, published, passed, cancelled, redone>>

Occurrences == 1..MaxPublish

Init ==
  /\ listeners = <<>> /\ finalized = FALSE
  /\ stack = <<>> /\ paused = {} /\ delayed = {}
  /\ interrupt_state = "NONE" /\ aborted = FALSE
  /\ published = 0
  /\ passed = [o \in Occurrences |-> 0]
  /\ cancelled = {} /\ redone = {}

-----------------------------------------------------------------------------
(******************************** listening ********************************)

\* Mutant: a listener goes behind the ones of its priority, LAST ones too.
Position_Greater(priority) ==
  CHOOSE i \in 1..(Len(listeners) + 1) :
    /\ i <= Len(listeners) => priority > listeners[i].priority
    /\ \A j \in 1..(i - 1) : priority <= listeners[j].priority

\* event:add_listener: behind everything for LAST_PRIORITY, else before the
\* first listener whose priority is not higher.
Position(priority) ==
  IF priority = LAST_PRIORITY THEN Len(listeners) + 1
  ELSE CHOOSE i \in 1..(Len(listeners) + 1) :
         /\ i <= Len(listeners) => priority >= listeners[i].priority
         /\ \A j \in 1..(i - 1) : priority < listeners[j].priority

Listen(priority) ==
  /\ ~finalized /\ Len(listeners) < MaxListeners
  /\ listeners' = InsertAt(listeners, Position(priority),
                           [number |-> Len(listeners) + 1,
                            priority |-> priority])
  /\ UNCHANGED <<finalized, stack, paused, delayed, interrupt_state, aborted,
                 published, passed, cancelled, redone>>

\* shuso_module_finalize
Finalize ==
  /\ ~finalized
  /\ finalized' = TRUE
  /\ UNCHANGED <<listeners, stack, paused, delayed, interrupt_state, aborted,
                 published, passed, cancelled, redone>>

-----------------------------------------------------------------------------
(********************************* firing **********************************)

Top   == stack[Len(stack)]
Below == SubSeq(stack, 1, Len(stack) - 1)
Idle  == stack = <<>>
Calling == ~Idle /\ Top.running     \* a listener is running
Looping == ~Idle /\ ~Top.running    \* fire_event is between two listeners

\* The history of the occurrence: its current listener has had its turn.
Pass == passed' = [passed EXCEPT ![Top.occurrence] =
                     IF @ < Top.cur THEN Top.cur ELSE @]

\* Code outside fire_event runs: the event loop or a listener.
Free == finalized /\ ~aborted /\ (Idle \/ ("nested" \in Uses /\ Calling))

\* fire_event: the debugging build compares the interrupt state recorded for
\* the event with the one the caller expects.
FireEvent(o, expected, start) ==
  /\ stack' = Append(stack, [occurrence |-> o, cur |-> start,
                             running |-> FALSE, interrupt |-> "NONE"])
  /\ aborted' = (DebugEvents /\ expected # interrupt_state)

\* shuso_event_publish.  Without "nested", one occurrence at a time.
Publish ==
  /\ Free /\ published < MaxPublish
  /\ "nested" \in Uses \/ (paused = {} /\ delayed = {})
  /\ published' = published + 1
  /\ FireEvent(published + 1, "NONE", 1)
  /\ UNCHANGED <<listeners, finalized, paused, delayed, interrupt_state, passed,
                 cancelled, redone>>

\* The loop of fire_event calls the next listener, ...
CallListener ==
  /\ Looping /\ ~aborted
  /\ Top.interrupt = "NONE" /\ Top.cur <= Len(listeners)
  /\ stack' = Append(Below, [Top EXCEPT !.running = TRUE])
  /\ UNCHANGED <<listeners, finalized, paused, delayed, interrupt_state, aborted,
                 published, passed, cancelled, redone>>

\* ... which returns without having interrupted the event, ...
ListenerReturns ==
  /\ Calling /\ Top.interrupt = "NONE"
  /\ Pass
  /\ stack' = Append(Below, [Top EXCEPT !.running = FALSE, !.cur = @ + 1])
  /\ UNCHANGED <<listeners, finalized, paused, delayed, interrupt_state, aborted,
                 published, cancelled, redone>>

\* ... or having done so.
InterruptingListenerReturns ==
  /\ Calling /\ Top.interrupt # "NONE"
  /\ stack' = Append(Below, [Top EXCEPT !.running = FALSE, !.cur = @ + 1])
  /\ UNCHANGED <<listeners, finalized, paused, delayed, interrupt_state, aborted,
                 published, passed, cancelled, redone>>

\* fire_event returns, at the end of the array or after an interruption.
FireReturns ==
  /\ Looping /\ ~aborted
  /\ Top.interrupt # "NONE" \/ Top.cur > Len(listeners)
  /\ stack' = Below
  /\ interrupt_state' = IF Top.interrupt = "CANCEL" THEN "NONE"
                        ELSE Top.interrupt
  /\ UNCHANGED <<listeners, finalized, paused, delayed, aborted, published,
                 passed, cancelled, redone>>

-----------------------------------------------------------------------------
(****************************** interruption *******************************)

\* try_to_interrupt_event, once per call of a listener.
Interrupt(how) ==
  /\ Calling /\ Top.interrupt = "NONE" /\ how \in Permits
  /\ stack' = Append(Below, [Top EXCEPT !.interrupt = how])

\* shuso_event_cancel
Cancel ==
  /\ Interrupt("CANCEL")
  /\ cancelled' = cancelled \cup {Top.occurrence}
  /\ UNCHANGED <<listeners, finalized, paused, delayed, interrupt_state, aborted,
                 published, passed, redone>>

\* shuso_event_pause
Pause ==
  /\ Interrupt("PAUSE")
  /\ paused' = paused \cup {[occurrence |-> Top.occurrence,
                             next |-> Top.cur + 1]}
  /\ Pass
  /\ UNCHANGED <<listeners, finalized, delayed, interrupt_state, aborted,
                 published, cancelled, redone>>

\* Mutant: the interruption is noted, but no timer is set.
Delay_NoTimer ==
  /\ Interrupt("DELAY")
  /\ UNCHANGED <<listeners, finalized, paused, delayed, interrupt_state, aborted,
                 published, passed, cancelled, redone>>

\* shuso_event_delay
DelayIds == {d.id : d \in delayed}
Delay ==
  /\ Interrupt("DELAY")
  /\ DelayIds # 1..MaxDelays
  /\ delayed' = delayed \cup {[id |-> CHOOSE i \in 1..MaxDelays : i \notin DelayIds,
                               occurrence |-> Top.occurrence,
                               next |-> Top.cur, resumed |-> FALSE]}
  /\ UNCHANGED <<listeners, finalized, paused, interrupt_state, aborted,
                 published, passed, cancelled, redone>>

\* Mutant: the timer continues behind the listener that delayed the event.
DelayTimer_Next ==
  /\ Idle /\ finalized /\ ~aborted
  /\ \E d \in delayed : /\ delayed' = delayed \ {d}
                        /\ FireEvent(d.occurrence, "DELAY", d.next + 1)
  /\ UNCHANGED <<listeners, finalized, paused, interrupt_state, published,
                 passed, cancelled, redone>>

\* delayed_event_handler
DelayTimer ==
  /\ Idle /\ finalized /\ ~aborted
  /\ \E d \in delayed : /\ delayed' = delayed \ {d}
                        /\ FireEvent(d.occurrence, "DELAY", d.next)
  /\ UNCHANGED <<listeners, finalized, paused, interrupt_state, published,
                 passed, cancelled, redone>>

\* shuso_event_resume_delayed leaves the timer running.
ResumeDelayed ==
  /\ "resume" \in Uses /\ Free
  /\ \E d \in delayed : /\ ~d.resumed
                        /\ delayed' = (delayed \ {d})
                                        \cup {[d EXCEPT !.resumed = TRUE]}
                        /\ FireEvent(d.occurrence, "DELAY", d.next)
                        /\ redone' = redone \cup {d.occurrence}
  /\ UNCHANGED <<listeners, finalized, paused, interrupt_state, published,
                 passed, cancelled>>

\* Mutant: the structure can be resumed again.
ResumePaused_Keeps ==
  /\ Free
  /\ \E p \in paused : FireEvent(p.occurrence, "PAUSE", p.next)
  /\ UNCHANGED <<listeners, finalized, paused, delayed, interrupt_state,
                 published, passed, cancelled, redone>>

\* shuso_event_resume_paused, once for each pause.
ResumePaused ==
  /\ Free
  /\ \E p \in paused : /\ paused' = paused \ {p}
                       /\ FireEvent(p.occurrence, "PAUSE", p.next)
  /\ UNCHANGED <<listeners, finalized, delayed, interrupt_state, published,
                 passed, cancelled, redone>>

-----------------------------------------------------------------------------
Next ==
  \/ \E priority \in Priorities : Listen(priority)
  \/ Finalize
  \/ Publish
  \/ CallListener \/ ListenerReturns \/ InterruptingListenerReturns
  \/ FireReturns
  \/ Cancel \/ Pause \/ Delay
  \/ DelayTimer \/ ResumeDelayed \/ ResumePaused

Spec == Init /\ [][Next]_vars

\* The thread goes on, timers fire and whoever has paused an event resumes it.
\* Strong fairness: a listener's reason for delaying an event goes away some
\* time, so if it is called again and again it does not delay it every time.
Fairness == /\ WF_vars(CallListener) /\ WF_vars(FireReturns)
            /\ WF_vars(InterruptingListenerReturns)
            /\ WF_vars(DelayTimer) /\ WF_vars(ResumePaused)
            /\ \A i \in 1..MaxListeners : SF_vars(ListenerReturns /\ Top.cur = i)

FairSpec == Spec /\ Fairness

-----------------------------------------------------------------------------
(******************************** properties *******************************)

Frames == [occurrence : Occurrences, cur : 1..(MaxListeners + 1),
           running : BOOLEAN, interrupt : Interrupts \cup {"NONE"}]

\* Type invariant.
TypeOK ==
  /\ listeners \in Seq([number : 1..MaxListeners, priority : Priorities])
  /\ Len(listeners) <= MaxListeners
  /\ finalized \in BOOLEAN
  /\ stack \in Seq(Frames)
  /\ paused \subseteq [occurrence : Occurrences, next : 1..(MaxListeners + 1)]
  /\ delayed \subseteq [id : 1..MaxDelays, occurrence : Occurrences,
                        next : 1..MaxListeners, resumed : BOOLEAN]
  /\ interrupt_state \in Interrupts \cup {"NONE"}
  /\ aborted \in BOOLEAN
  /\ published \in 0..MaxPublish
  /\ passed \in [Occurrences -> 0..MaxListeners]
  /\ cancelled \subseteq Occurrences /\ redone \subseteq Occurrences

\* The array fire_event walks is in order of priority.  Among equals the one
\* registered last comes first, but comes last among those of LAST_PRIORITY.
ListenersOrdered ==
  \A i, j \in 1..Len(listeners) : i < j =>
    LET a == listeners[i]
        b == listeners[j] IN
    \/ a.priority > b.priority
    \/ a.priority = b.priority /\ (a.number < b.number
                                   <=> a.priority = LAST_PRIORITY)

\* Whatever was interrupted, resumed and published in between, the listener
\* that is called is the next one of its occurrence: none is left out and
\* none runs twice, except that one that delayed the event runs again.  The
\* timer that shuso_event_resume_delayed leaves behind makes listeners run
\* again; still none is called before all those in front of it.
NextInOrder ==
  Calling /\ Top.interrupt = "NONE" =>
    \/ Top.cur = passed[Top.occurrence] + 1
    \/ Top.occurrence \in redone /\ Top.cur <= passed[Top.occurrence]

\* Who will call the remaining listeners of an occurrence.
Frame(o)  == {i \in DOMAIN stack : /\ stack[i].occurrence = o
                                   /\ stack[i].interrupt = "NONE"
                                   /\ stack[i].cur <= Len(listeners)}
Pauses(o) == {p \in paused : p.occurrence = o /\ p.next <= Len(listeners)}
Delays(o) == {d \in delayed : d.occurrence = o}
Finished(o) == o \in cancelled \/ passed[o] = Len(listeners)

\* An occurrence that has listeners left is in exactly one pair of hands, a
\* firing in progress, a pause or a delay, and one that is through in none.
\* (The timer that shuso_event_resume_delayed leaves behind is a second one.)
OneOwner ==
  \A o \in (1..published) \ redone :
    Cardinality(Frame(o)) + Cardinality(Pauses(o)) + Cardinality(Delays(o))
      = IF Finished(o) THEN 0 ELSE 1

\* An event that is published reaches all its listeners, unless one of them
\* cancels it.
Completes == \A o \in Occurrences : published >= o ~> Finished(o)

\* fire_event in the debugging build: "cannot publish", "cannot unpause",
\* "cannot undelay" an event that is not in the state for it.
StateAsExpected == ~aborted
=============================================================================
