---------------------------- MODULE EventProofs -----------------------------
(***************************************************************************)
(* Proofs about an event for every number of listeners, occurrences and    *)
(* delays, nested and resumed firings together.                            *)
(***************************************************************************)
EXTENDS Event, FiniteSetTheorems, SequenceTheorems,
        WellFoundedInduction, TLAPS

(***************************** the invariant *******************************)

\* Nothing is fired before the listeners are in their array.
NotFired == ~finalized => /\ stack = <<>> /\ paused = {} /\ delayed = {}
                          /\ passed = [o \in Occurrences |-> 0]
                          /\ published = 0

\* Registration numbers count up.
Numbered == \A i \in 1..Len(listeners) : listeners[i].number <= Len(listeners)

\* A listener that is called is in the array.
InArray == \A i \in 1..Len(stack) :
             stack[i].running => stack[i].cur <= Len(listeners)

\* Only occurrences that have been published are being fired, paused, delayed.
Known ==
  /\ \A i \in 1..Len(stack) : stack[i].occurrence <= published
  /\ \A p \in paused : p.occurrence <= published
  /\ \A d \in delayed : d.occurrence <= published /\ d.next <= Len(listeners)
  /\ \A o \in Occurrences : /\ passed[o] <= Len(listeners)
                            /\ o > published =>
                                 passed[o] = 0 /\ o \notin cancelled

\* No place an occurrence will go on from has listeners in front of it that
\* the occurrence has not got past.
NotAhead ==
  /\ \A i \in 1..Len(stack) : stack[i].interrupt = "NONE" =>
       stack[i].cur <= passed[stack[i].occurrence] + 1
  /\ \A p \in paused : p.next <= passed[p.occurrence] + 1
  /\ \A d \in delayed : d.next <= passed[d.occurrence] + 1

\* Frame, Pauses and Delays as functions of the state they look at.
FrameIn(s, n, o)  == {i \in 1..Len(s) : /\ s[i].occurrence = o
                                        /\ s[i].interrupt = "NONE"
                                        /\ s[i].cur <= n}
PausesIn(P, n, o) == {p \in P : p.occurrence = o /\ p.next <= n}
DelaysIn(D, o)    == {d \in D : d.occurrence = o}

\* ... and unless a delay was resumed by hand, none behind it either.
NotBehind ==
  \A o \in Occurrences \ redone :
    /\ \A i \in FrameIn(stack, Len(listeners), o) :
         stack[i].cur = passed[o] + 1
    /\ \A p \in PausesIn(paused, Len(listeners), o) : p.next = passed[o] + 1
    /\ \A d \in DelaysIn(delayed, o) : d.next = passed[o] + 1

\* No two of them go on with the same occurrence, ...
AtMostOne(F, P, D) == /\ \A i, j \in F : i = j
                      /\ \A p, q \in P : p = q
                      /\ \A d, e \in D : d = e
                      /\ F = {} \/ P = {}
                      /\ F = {} \/ D = {}
                      /\ P = {} \/ D = {}
Disjoint ==
  \A o \in Occurrences \ redone :
    AtMostOne(FrameIn(stack, Len(listeners), o),
              PausesIn(paused, Len(listeners), o), DelaysIn(delayed, o))

\* ... and one of them does unless it is finished.
Held ==
  \A o \in (1..published) \ redone :
    (o \in cancelled \/ passed[o] = Len(listeners)) <=>
      /\ FrameIn(stack, Len(listeners), o) = {}
      /\ PausesIn(paused, Len(listeners), o) = {}
      /\ DelaysIn(delayed, o) = {}

EventInv == /\ TypeOK /\ NotFired /\ Numbered /\ InArray /\ Known
            /\ NotAhead /\ NotBehind /\ Disjoint /\ Held

-----------------------------------------------------------------------------
(**************************** the firing stack *****************************)

(* Push, replacement and removal of the innermost firing. *)
LEMMA PushFrame ==
  ASSUME NEW s \in Seq(Frames), NEW f \in Frames
  PROVE  /\ Append(s, f) \in Seq(Frames)
         /\ Len(Append(s, f)) = Len(s) + 1
         /\ \A i \in 1..Len(s) : Append(s, f)[i] = s[i]
         /\ Append(s, f)[Len(s) + 1] = f
  OBVIOUS

\* Popping a frame from the stack leaves the frames below it.
LEMMA PopFrame ==
  ASSUME NEW s \in Seq(Frames), s # <<>>
  PROVE  LET t == SubSeq(s, 1, Len(s) - 1) IN
         /\ Len(s) \in Nat \ {0}
         /\ t \in Seq(Frames)
         /\ Len(t) = Len(s) - 1
         /\ \A i \in 1..(Len(s) - 1) : t[i] = s[i]
  <1>1. Len(s) \in Nat \ {0}
    OBVIOUS
  <1>2. \A i \in 1..(Len(s) - 1) : s[i] \in Frames
    OBVIOUS
  <1>3. SubSeq(s, 1, Len(s) - 1) \in Seq(Frames)
    BY <1>1, <1>2
  <1> DEFINE n == Len(s) - 1
  <1>4. n \in Nat /\ Len(s) = n + 1
    BY <1>1
  <1> HIDE DEF n
  <1>5. /\ Len(SubSeq(s, 1, n)) = IF 1 <= n THEN n - 1 + 1 ELSE 0
        /\ \A i \in 1..(n - 1 + 1) : SubSeq(s, 1, n)[i] = s[1 + i - 1]
    BY <1>4, <1>2, SubSeqProperties DEF n
  <1>6. /\ Len(SubSeq(s, 1, n)) = n
        /\ \A i \in 1..n : SubSeq(s, 1, n)[i] = s[i]
    BY <1>4, <1>5
  <1> QED
    BY <1>1, <1>3, <1>6, Zenon DEF n

\* Replacing the top frame leaves the stack as long, and the others alone.
LEMMA ReplaceFrame ==
  ASSUME NEW s \in Seq(Frames), s # <<>>, NEW f \in Frames
  PROVE  LET t == Append(SubSeq(s, 1, Len(s) - 1), f) IN
         /\ t \in Seq(Frames)
         /\ Len(t) = Len(s)
         /\ \A i \in 1..(Len(s) - 1) : t[i] = s[i]
         /\ t[Len(s)] = f
  <1> DEFINE u == SubSeq(s, 1, Len(s) - 1)
  <1>1. /\ Len(s) \in Nat \ {0}
        /\ u \in Seq(Frames)
        /\ Len(u) = Len(s) - 1
        /\ \A i \in 1..(Len(s) - 1) : u[i] = s[i]
    BY PopFrame
  <1> HIDE DEF u
  <1>2. /\ Append(u, f) \in Seq(Frames)
        /\ Len(Append(u, f)) = Len(u) + 1
        /\ \A i \in 1..Len(u) : Append(u, f)[i] = u[i]
        /\ Append(u, f)[Len(u) + 1] = f
    BY <1>1, PushFrame
  <1> QED
    BY <1>1, <1>2 DEF u

(* The innermost firing is a frame of the stack. *)
LEMMA TopFrame ==
  ASSUME TypeOK, ~Idle
  PROVE  /\ Len(stack) \in Nat \ {0} /\ Len(stack) \in 1..Len(stack)
         /\ Top = stack[Len(stack)]
         /\ Top \in Frames
  BY DEF TypeOK, Idle, Top

(* What becomes of the stack when its top is replaced, and when a firing   *)
(* is added or ends.                                                       *)
LEMMA TopReplaced ==
  ASSUME TypeOK, ~Idle, NEW f \in Frames, stack' = Append(Below, f)
  PROVE  /\ stack' \in Seq(Frames) /\ Len(stack') = Len(stack)
         /\ \A i \in 1..(Len(stack) - 1) : stack'[i] = stack[i]
         /\ stack'[Len(stack)] = f
  <1>1. stack \in Seq(Frames) /\ stack # <<>>
    BY DEF TypeOK, Idle
  <1> QED
    BY <1>1, ReplaceFrame DEF Below

\* The top of the stack after a fire has pushed a frame.
LEMMA TopPushed ==
  ASSUME TypeOK, NEW f \in Frames, stack' = Append(stack, f)
  PROVE  /\ stack' \in Seq(Frames) /\ Len(stack') = Len(stack) + 1
         /\ \A i \in 1..Len(stack) : stack'[i] = stack[i]
         /\ stack'[Len(stack) + 1] = f
         /\ Len(stack) \in Nat
  BY PushFrame DEF TypeOK

\* The top of the stack after its frame was popped.
LEMMA TopPopped ==
  ASSUME TypeOK, ~Idle, stack' = Below
  PROVE  /\ stack' \in Seq(Frames) /\ Len(stack') = Len(stack) - 1
         /\ \A i \in 1..(Len(stack) - 1) : stack'[i] = stack[i]
  <1>1. stack \in Seq(Frames) /\ stack # <<>>
    BY DEF TypeOK, Idle
  <1> QED
    BY <1>1, PopFrame DEF Below

(* The firings that will call listeners of an occurrence, likewise. *)
LEMMA FrameReplaced ==
  ASSUME TypeOK, ~Idle, NEW f \in Frames, stack' = Append(Below, f),
         NEW n, NEW o
  PROVE  FrameIn(stack', n, o) =
           (FrameIn(stack, n, o) \ {Len(stack)})
             \cup {i \in {Len(stack)} : /\ f.occurrence = o
                                        /\ f.interrupt = "NONE"
                                        /\ f.cur <= n}
  <1>1. /\ Len(stack') = Len(stack)
        /\ \A i \in 1..(Len(stack) - 1) : stack'[i] = stack[i]
        /\ stack'[Len(stack)] = f
    BY TopReplaced
  <1>2. /\ Len(stack) \in 1..Len(stack)
        /\ \A i \in 1..Len(stack) : i # Len(stack) => i \in 1..(Len(stack) - 1)
        /\ \A i \in 1..(Len(stack) - 1) : i \in 1..Len(stack) /\ i # Len(stack)
    BY TopFrame
  <1> QED
    BY <1>1, <1>2 DEF FrameIn

\* A push adds at most the new frame to the firings of an occurrence.
LEMMA FramePushed ==
  ASSUME TypeOK, NEW f \in Frames, stack' = Append(stack, f), NEW n, NEW o
  PROVE  /\ FrameIn(stack', n, o) =
              FrameIn(stack, n, o)
                \cup {i \in {Len(stack) + 1} : /\ f.occurrence = o
                                               /\ f.interrupt = "NONE"
                                               /\ f.cur <= n}
         /\ Len(stack) + 1 \notin FrameIn(stack, n, o)
  BY TopPushed DEF FrameIn

\* Popping a frame that calls no more listeners takes no firing away.
LEMMA FramePopped ==
  ASSUME TypeOK, ~Idle, stack' = Below, NEW n \in Nat,
         Top.interrupt # "NONE" \/ Top.cur > n, NEW o
  PROVE  FrameIn(stack', n, o) = FrameIn(stack, n, o)
  <1>1. /\ Len(stack') = Len(stack) - 1
        /\ \A i \in 1..(Len(stack) - 1) : stack'[i] = stack[i]
    BY TopPopped
  <1>2. /\ Len(stack) \in 1..Len(stack)
        /\ \A i \in 1..Len(stack) : i # Len(stack) => i \in 1..(Len(stack) - 1)
        /\ \A i \in 1..(Len(stack) - 1) : i \in 1..Len(stack) /\ i # Len(stack)
    BY TopFrame
  <1>3. ~(stack[Len(stack)].interrupt = "NONE" /\ stack[Len(stack)].cur <= n)
    <2>1. Top.cur \in Int
      BY TopFrame, EventAssumption DEF Frames
    <2> QED
      BY <2>1 DEF Top
  <1> QED
    BY <1>1, <1>2, <1>3 DEF FrameIn

-----------------------------------------------------------------------------
(*************************** order of listeners ****************************)

(* What the array of listeners holds. *)
LEMMA ListenersType ==
  ASSUME TypeOK
  PROVE  /\ Len(listeners) \in Nat
         /\ \A i \in 1..Len(listeners) :
              /\ listeners[i] \in [number : 1..MaxListeners,
                                   priority : Priorities]
              /\ listeners[i].priority \in Int /\ listeners[i].number \in Int
  <1> DEFINE R == [number : 1..MaxListeners, priority : Priorities]
  <1>1. listeners \in Seq(R)
    BY DEF TypeOK
  <1>2. \A r \in R : r.priority \in Int /\ r.number \in Int
    <2>1. Priorities \subseteq LAST_PRIORITY..FIRST_PRIORITY
      BY EventAssumption
    <2>2. \A i \in LAST_PRIORITY..FIRST_PRIORITY : i \in Int
      BY DEF LAST_PRIORITY, FIRST_PRIORITY
    <2>3. \A r \in R : r.number \in 1..MaxListeners /\ r.priority \in Priorities
      OBVIOUS
    <2>4. \A i \in 1..MaxListeners : i \in Int
      OBVIOUS
    <2> HIDE DEF R
    <2> QED
      BY <2>1, <2>2, <2>3, <2>4, Zenon
  <1> HIDE DEF R
  <1>3. /\ Len(listeners) \in Nat
        /\ \A i \in 1..Len(listeners) : listeners[i] \in R
    BY <1>1
  <1> QED
    BY <1>2, <1>3 DEF R

(* Where a listener goes: before the first one whose priority is not       *)
(* higher, and there is such a place.                                      *)
LEMMA PositionFound ==
  ASSUME TypeOK, NEW priority \in Priorities, priority # LAST_PRIORITY
  PROVE  /\ Position(priority) \in 1..(Len(listeners) + 1)
         /\ Position(priority) <= Len(listeners) =>
              priority >= listeners[Position(priority)].priority
         /\ \A j \in 1..(Position(priority) - 1) :
              priority < listeners[j].priority
  <1> DEFINE n == Len(listeners)
             Lower == {i \in 1..n : priority >= listeners[i].priority}
             Ok(i) == /\ i <= n => priority >= listeners[i].priority
                      /\ \A j \in 1..(i - 1) : priority < listeners[j].priority
  <1>1. n \in Nat /\ \A i \in 1..n : listeners[i].priority \in Int
    BY ListenersType
  <1>2. priority \in Int
    BY EventAssumption DEF FIRST_PRIORITY, LAST_PRIORITY
  <1> SUFFICES \E i \in 1..(n + 1) : Ok(i)
    BY DEF Position
  <1>3. CASE Lower = {}
    <2>1. Ok(n + 1)
      BY <1>1, <1>2, <1>3
    <2> QED
      BY <1>1, <2>1
  <1>4. CASE Lower # {}
    <2> HIDE DEF Lower
    <2>1. Lower \subseteq Nat
      BY <1>1 DEF Lower
    <2>2. PICK i \in Lower : \A j \in Lower : ~(<<j, i>> \in OpToRel(<, Nat))
      BY <1>4, <2>1, WFMin, NatLessThanWellFounded
    <2>3. \A j \in Lower : ~(j < i)
      BY <2>1, <2>2 DEF OpToRel
    <2>4. Ok(i)
      BY <1>1, <1>2, <2>1, <2>3 DEF Lower
    <2> QED
      BY <1>1, <2>4 DEF Lower
  <1> QED
    BY <1>3, <1>4

(* The array with a listener added. *)
LEMMA InsertAtProperties ==
  ASSUME NEW R, NEW s \in Seq(R), NEW k \in 1..(Len(s) + 1), NEW e \in R
  PROVE  /\ InsertAt(s, k, e) \in Seq(R)
         /\ Len(InsertAt(s, k, e)) = Len(s) + 1
         /\ \A i \in 1..(k - 1) : InsertAt(s, k, e)[i] = s[i]
         /\ InsertAt(s, k, e)[k] = e
         /\ \A i \in (k + 1)..(Len(s) + 1) : InsertAt(s, k, e)[i] = s[i - 1]
  <1> DEFINE a == SubSeq(s, 1, k - 1)
             b == SubSeq(s, k, Len(s))
  <1>1. Len(s) \in Nat /\ \A i \in 1..Len(s) : s[i] \in R
    OBVIOUS
  <1>2. /\ a \in Seq(R)
        /\ Len(a) = IF 1 <= k - 1 THEN (k - 1) - 1 + 1 ELSE 0
        /\ \A i \in 1..((k - 1) - 1 + 1) : a[i] = s[1 + i - 1]
    <2>1. 1 \in Int /\ k - 1 \in Int /\ \A i \in 1..(k - 1) : s[i] \in R
      BY <1>1
    <2> QED
      BY <2>1, SubSeqProperties
  <1>3. /\ b \in Seq(R)
        /\ Len(b) = IF k <= Len(s) THEN Len(s) - k + 1 ELSE 0
        /\ \A i \in 1..(Len(s) - k + 1) : b[i] = s[k + i - 1]
    <2>1. k \in Int /\ Len(s) \in Int /\ \A i \in k..Len(s) : s[i] \in R
      BY <1>1
    <2> QED
      BY <2>1, SubSeqProperties
  <1> HIDE DEF a, b
  <1>4. /\ Len(a) = k - 1 /\ Len(b) = Len(s) - k + 1
        /\ \A i \in 1..(k - 1) : a[i] = s[i]
        /\ \A i \in 1..(Len(s) - k + 1) : b[i] = s[k + i - 1]
    BY <1>1, <1>2, <1>3
  <1> DEFINE t == a \o <<e>> \o b
             u == a \o <<e>>
  <1>5. /\ t \in Seq(R) /\ Len(t) = Len(s) + 1
        /\ \A i \in 1..(k - 1) : t[i] = a[i]
        /\ t[k] = e
        /\ \A i \in (k + 1)..(Len(s) + 1) : t[i] = b[i - k]
    <2>1. /\ u \in Seq(R) /\ Len(u) = k
          /\ \A i \in 1..(k - 1) : u[i] = a[i]
          /\ u[k] = e
      BY <1>2, <1>4
    <2> HIDE DEF u
    <2>2. /\ u \o b \in Seq(R) /\ Len(u \o b) = Len(s) + 1
          /\ \A i \in 1..k : (u \o b)[i] = u[i]
          /\ \A i \in (k + 1)..(Len(s) + 1) : (u \o b)[i] = b[i - k]
      <3>1. Len(b) = Len(s) - k + 1 /\ k + Len(b) = Len(s) + 1
        BY <1>1, <1>4
      <3>2. /\ u \o b \in Seq(R) /\ Len(u \o b) = k + Len(b)
            /\ \A i \in 1..(k + Len(b)) :
                 (u \o b)[i] = IF i <= k THEN u[i] ELSE b[i - k]
        BY <2>1, <1>3, ConcatProperties
      <3> QED
        BY <3>1, <3>2, <1>1
    <2>3. t = u \o b
      BY DEF u
    <2> HIDE DEF t
    <2> QED
      BY <2>1, <2>2, <2>3
  <1>6. InsertAt(s, k, e) = t
    BY DEF InsertAt, t, a, b
  <1> HIDE DEF t
  <1>7. \A i \in (k + 1)..(Len(s) + 1) :
          i - k \in 1..(Len(s) - k + 1) /\ k + (i - k) - 1 = i - 1
    BY <1>1
  <1> QED
    BY <1>1, <1>4, <1>5, <1>6, <1>7
-----------------------------------------------------------------------------
(************************ steps keep the invariant *************************)

(* Numbers of the invariant. *)
LEMMA Numbers ==
  ASSUME EventInv
  PROVE  /\ Len(listeners) \in Nat /\ Len(listeners) <= MaxListeners
         /\ MaxListeners \in Nat /\ MaxPublish \in Nat
         /\ published \in Nat /\ published <= MaxPublish
         /\ \A o \in Occurrences : o \in Nat /\ passed[o] \in Nat
         /\ \A i \in 1..Len(stack) : /\ stack[i] \in Frames
                                     /\ stack[i].cur \in Nat
                                     /\ stack[i].occurrence \in Occurrences
         /\ \A p \in paused : p.next \in Nat /\ p.occurrence \in Occurrences
         /\ \A d \in delayed : d.next \in Nat /\ d.occurrence \in Occurrences
  <1>1. TypeOK /\ MaxListeners \in Nat /\ MaxPublish \in Nat
    BY EventAssumption DEF EventInv
  <1>2. \A f \in Frames : f.cur \in Nat /\ f.occurrence \in Occurrences
    BY <1>1 DEF Frames
  <1>3. \A i \in 1..Len(stack) : stack[i] \in Frames
    BY <1>1 DEF TypeOK
  <1>4. Len(listeners) \in Nat /\ Len(listeners) <= MaxListeners
    BY <1>1, ListenersType DEF TypeOK
  <1>5. \A o \in Occurrences : o \in Nat /\ passed[o] \in Nat
    BY <1>1 DEF TypeOK, Occurrences
  <1>6. published \in Nat /\ published <= MaxPublish
    BY <1>1 DEF TypeOK
  <1>7. \A p \in paused : p.next \in Nat /\ p.occurrence \in Occurrences
    BY <1>1 DEF TypeOK
  <1>8. \A d \in delayed : d.next \in Nat /\ d.occurrence \in Occurrences
    BY <1>1 DEF TypeOK
  <1> QED
    BY <1>1, <1>2, <1>3, <1>4, <1>5, <1>6, <1>7, <1>8

(* A step of fire_event that leaves alone who will call which listener. *)
LEMMA QuietStep ==
  ASSUME EventInv, stack # <<>>, stack' \in Seq(Frames),
         UNCHANGED <<listeners, finalized, paused, delayed, published, passed,
                     cancelled, redone, aborted>>,
         interrupt_state' \in Interrupts \cup {"NONE"},
         \A o : FrameIn(stack', Len(listeners), o) =
                 FrameIn(stack, Len(listeners), o),
         \A i \in 1..Len(stack') :
           /\ i \in 1..Len(stack)
           /\ stack'[i].occurrence = stack[i].occurrence
           /\ stack'[i].interrupt = "NONE" => /\ stack[i].interrupt = "NONE"
                                              /\ stack'[i].cur = stack[i].cur
           /\ stack'[i].running => stack'[i].cur <= Len(listeners)
  PROVE  EventInv'
  <1>1. TypeOK'
    BY DEF EventInv, TypeOK
  <1>2. NotFired' /\ Numbered'
    BY DEF EventInv, NotFired, Numbered
  <1>3. InArray'
    BY DEF InArray
  <1>4. Known'
    BY DEF EventInv, Known
  <1>5. NotAhead'
    BY DEF EventInv, NotAhead
  <1>6. NotBehind'
    <2>1. \A o : \A i \in FrameIn(stack', Len(listeners), o) :
            stack'[i].cur = stack[i].cur
      BY DEF FrameIn
    <2> QED
      BY <2>1 DEF EventInv, NotBehind
  <1>7. Disjoint'
    BY DEF EventInv, Disjoint
  <1>8. Held'
    BY DEF EventInv, Held
  <1> QED
    BY <1>1, <1>2, <1>3, <1>4, <1>5, <1>6, <1>7, <1>8 DEF EventInv

\* Calling the next listener keeps the invariant.
LEMMA CallListenerInv ==
  ASSUME EventInv, CallListener
  PROVE  EventInv'
  <1> DEFINE f == [Top EXCEPT !.running = TRUE]
  <1>1. TypeOK /\ ~Idle /\ stack # <<>> /\ stack' = Append(Below, f)
    BY DEF CallListener, Looping, EventInv, Idle
  <1>2. Top \in Frames /\ Top.interrupt = "NONE" /\ Top.cur <= Len(listeners)
    BY <1>1, TopFrame DEF CallListener
  <1>3. /\ f \in Frames /\ f.occurrence = Top.occurrence
        /\ f.cur = Top.cur /\ f.interrupt = "NONE"
    BY <1>2 DEF Frames
  <1> HIDE DEF f
  <1>4. /\ stack' \in Seq(Frames) /\ Len(stack') = Len(stack)
        /\ \A i \in 1..(Len(stack) - 1) : stack'[i] = stack[i]
        /\ stack'[Len(stack)] = f
    BY <1>1, <1>3, TopReplaced
  <1>5. \A o : FrameIn(stack', Len(listeners), o) =
              FrameIn(stack, Len(listeners), o)
    <2> SUFFICES ASSUME NEW o
                 PROVE  FrameIn(stack', Len(listeners), o) =
                        FrameIn(stack, Len(listeners), o)
      OBVIOUS
    <2>1. Len(stack) \in FrameIn(stack, Len(listeners), o)
            <=> Top.occurrence = o
      BY <1>1, <1>2, TopFrame DEF FrameIn
    <2>2. FrameIn(stack', Len(listeners), o) =
            (FrameIn(stack, Len(listeners), o) \ {Len(stack)})
              \cup {i \in {Len(stack)} : /\ f.occurrence = o
                                         /\ f.interrupt = "NONE"
                                         /\ f.cur <= Len(listeners)}
      BY <1>1, <1>3, FrameReplaced
    <2> QED
      BY <1>2, <1>3, <2>1, <2>2
  <1>6. \A i \in 1..Len(stack') :
           /\ i \in 1..Len(stack)
           /\ stack'[i].occurrence = stack[i].occurrence
           /\ stack'[i].interrupt = "NONE" => /\ stack[i].interrupt = "NONE"
                                              /\ stack'[i].cur = stack[i].cur
           /\ stack'[i].running => stack'[i].cur <= Len(listeners)
    BY <1>1, <1>2, <1>3, <1>4, TopFrame DEF EventInv, InArray
  <1>7. interrupt_state' \in Interrupts \cup {"NONE"}
    BY <1>1 DEF CallListener, TypeOK
  <1> QED
    BY <1>1, <1>4, <1>5, <1>6, <1>7, QuietStep DEF CallListener
\* So does the return of a listener that interrupted the event.
LEMMA InterruptingListenerReturnsInv ==
  ASSUME EventInv, InterruptingListenerReturns
  PROVE  EventInv'
  <1> DEFINE f == [Top EXCEPT !.running = FALSE, !.cur = @ + 1]
  <1>1. TypeOK /\ ~Idle /\ stack # <<>> /\ stack' = Append(Below, f)
    BY DEF InterruptingListenerReturns, Calling, EventInv, Idle
  <1>2. /\ Top \in Frames /\ Top.interrupt # "NONE"
        /\ Top.cur <= Len(listeners) /\ Top.cur \in Nat \ {0}
    BY <1>1, TopFrame, EventAssumption
    DEF InterruptingListenerReturns, Calling, Top, EventInv, InArray, Frames
  <1>3. /\ f \in Frames /\ f.occurrence = Top.occurrence
        /\ f.interrupt = Top.interrupt /\ f.running = FALSE
    <2>1. Top.cur + 1 \in 1..(MaxListeners + 1)
      BY <1>2, Numbers
    <2> QED
      BY <1>2, <2>1 DEF Frames
  <1> HIDE DEF f
  <1>4. /\ stack' \in Seq(Frames) /\ Len(stack') = Len(stack)
        /\ \A i \in 1..(Len(stack) - 1) : stack'[i] = stack[i]
        /\ stack'[Len(stack)] = f
    BY <1>1, <1>3, TopReplaced
  <1>5. \A o : FrameIn(stack', Len(listeners), o) =
              FrameIn(stack, Len(listeners), o)
    <2> SUFFICES ASSUME NEW o
                 PROVE  FrameIn(stack', Len(listeners), o) =
                        FrameIn(stack, Len(listeners), o)
      OBVIOUS
    <2>1. Len(stack) \notin FrameIn(stack, Len(listeners), o)
      BY <1>2 DEF FrameIn, Top
    <2>2. FrameIn(stack', Len(listeners), o) =
            (FrameIn(stack, Len(listeners), o) \ {Len(stack)})
              \cup {i \in {Len(stack)} : /\ f.occurrence = o
                                         /\ f.interrupt = "NONE"
                                         /\ f.cur <= Len(listeners)}
      BY <1>1, <1>3, FrameReplaced
    <2> QED
      BY <1>2, <1>3, <2>1, <2>2
  <1>6. \A i \in 1..Len(stack') :
           /\ i \in 1..Len(stack)
           /\ stack'[i].occurrence = stack[i].occurrence
           /\ stack'[i].interrupt = "NONE" => /\ stack[i].interrupt = "NONE"
                                              /\ stack'[i].cur = stack[i].cur
           /\ stack'[i].running => stack'[i].cur <= Len(listeners)
    BY <1>1, <1>2, <1>3, <1>4, TopFrame DEF EventInv, InArray
  <1>7. interrupt_state' \in Interrupts \cup {"NONE"}
    BY <1>1 DEF InterruptingListenerReturns, TypeOK
  <1> QED
    BY <1>1, <1>4, <1>5, <1>6, <1>7, QuietStep DEF InterruptingListenerReturns

\* So does the return of a fire that has called its listeners, or was stopped.
LEMMA FireReturnsInv ==
  ASSUME EventInv, FireReturns
  PROVE  EventInv'
  <1>1. TypeOK /\ ~Idle /\ stack # <<>> /\ stack' = Below
    BY DEF FireReturns, Looping, EventInv, Idle
  <1>2. /\ stack' \in Seq(Frames) /\ Len(stack') = Len(stack) - 1
        /\ \A i \in 1..(Len(stack) - 1) : stack'[i] = stack[i]
    BY <1>1, TopPopped
  <1>3. \A o : FrameIn(stack', Len(listeners), o) =
              FrameIn(stack, Len(listeners), o)
    BY <1>1, FramePopped, Numbers DEF FireReturns
  <1>4. \A i \in 1..Len(stack') :
           /\ i \in 1..Len(stack)
           /\ stack'[i].occurrence = stack[i].occurrence
           /\ stack'[i].interrupt = "NONE" => /\ stack[i].interrupt = "NONE"
                                              /\ stack'[i].cur = stack[i].cur
           /\ stack'[i].running => stack'[i].cur <= Len(listeners)
    BY <1>1, <1>2, TopFrame DEF EventInv, InArray
  <1>5. interrupt_state' \in Interrupts \cup {"NONE"}
    BY <1>1, TopFrame DEF FireReturns, Frames
  <1> QED
    BY <1>1, <1>2, <1>3, <1>4, <1>5, QuietStep DEF FireReturns

(* A listener that has not interrupted the event runs in a firing that has *)
(* its occurrence for itself.                                              *)
LEMMA CallingOwns ==
  ASSUME EventInv, Calling, Top.interrupt = "NONE"
  PROVE  /\ TypeOK /\ finalized = TRUE /\ ~Idle
         /\ Top \in Frames /\ Top.occurrence \in Occurrences
         /\ Top.occurrence <= published /\ published \in Nat
         /\ Top.cur \in Nat \ {0} /\ Top.cur <= Len(listeners)
         /\ Top.cur <= passed[Top.occurrence] + 1
         /\ Top.occurrence \notin redone =>
              /\ Top.cur = passed[Top.occurrence] + 1
              /\ FrameIn(stack, Len(listeners), Top.occurrence) = {Len(stack)}
              /\ PausesIn(paused, Len(listeners), Top.occurrence) = {}
              /\ DelaysIn(delayed, Top.occurrence) = {}
  <1>1. TypeOK /\ ~Idle /\ stack # <<>>
    BY DEF Calling, EventInv, Idle
  <1>2. finalized = TRUE
    BY <1>1 DEF EventInv, NotFired, TypeOK
  <1>3. /\ Len(stack) \in 1..Len(stack) /\ Top = stack[Len(stack)]
        /\ Top \in Frames /\ Top.running
    BY <1>1, TopFrame DEF Calling
  <1>4. Top.cur \in Nat \ {0} /\ Top.occurrence \in Occurrences
    BY <1>3, EventAssumption DEF Frames
  <1>5. Top.cur <= Len(listeners) /\ Top.occurrence <= published
    BY <1>3 DEF EventInv, InArray, Known
  <1>6. Top.cur <= passed[Top.occurrence] + 1
    BY <1>3 DEF EventInv, NotAhead
  <1>7. Len(stack) \in FrameIn(stack, Len(listeners), Top.occurrence)
    BY <1>3, <1>5 DEF FrameIn
  <1>8. ASSUME Top.occurrence \notin redone
        PROVE  /\ Top.cur = passed[Top.occurrence] + 1
               /\ FrameIn(stack, Len(listeners), Top.occurrence) = {Len(stack)}
               /\ PausesIn(paused, Len(listeners), Top.occurrence) = {}
               /\ DelaysIn(delayed, Top.occurrence) = {}
    <2>1. Top.cur = passed[Top.occurrence] + 1
      BY <1>3, <1>4, <1>7, <1>8 DEF EventInv, NotBehind
    <2>2. AtMostOne(FrameIn(stack, Len(listeners), Top.occurrence),
                    PausesIn(paused, Len(listeners), Top.occurrence),
                    DelaysIn(delayed, Top.occurrence))
      BY <1>4, <1>8 DEF EventInv, Disjoint
    <2> QED
      BY <1>7, <2>1, <2>2 DEF AtMostOne
  <1> QED
    BY <1>1, <1>2, <1>3, <1>4, <1>5, <1>6, <1>8, Numbers
(* The state of the firing whose listener interrupts the event. *)
LEMMA TopInterrupted ==
  ASSUME EventInv, Calling, Top.interrupt = "NONE", NEW how \in Interrupts,
         stack' = Append(Below, [Top EXCEPT !.interrupt = how])
  PROVE  /\ stack' \in Seq(Frames) /\ Len(stack') = Len(stack)
         /\ \A i \in 1..Len(stack) :
              /\ stack'[i].occurrence = stack[i].occurrence
              /\ stack'[i].cur = stack[i].cur
              /\ stack'[i].running = stack[i].running
              /\ stack'[i].interrupt = "NONE" => stack[i].interrupt = "NONE"
         /\ \A o : FrameIn(stack', Len(listeners), o) =
                   FrameIn(stack, Len(listeners), o) \ {Len(stack)}
         /\ \A o : o # Top.occurrence =>
                   Len(stack) \notin FrameIn(stack, Len(listeners), o)
  <1> DEFINE f == [Top EXCEPT !.interrupt = how]
  <1>1. TypeOK /\ ~Idle /\ Top \in Frames
    BY CallingOwns
  <1>2. /\ f \in Frames /\ f.occurrence = Top.occurrence /\ f.cur = Top.cur
        /\ f.running = Top.running /\ f.interrupt # "NONE"
    BY <1>1 DEF Frames, Interrupts
  <1>3. stack' = Append(Below, f)
    OBVIOUS
  <1> HIDE DEF f
  <1>4. /\ stack' \in Seq(Frames) /\ Len(stack') = Len(stack)
        /\ \A i \in 1..(Len(stack) - 1) : stack'[i] = stack[i]
        /\ stack'[Len(stack)] = f
    BY <1>1, <1>2, <1>3, TopReplaced
  <1>5. \A i \in 1..Len(stack) :
          /\ stack'[i].occurrence = stack[i].occurrence
          /\ stack'[i].cur = stack[i].cur
          /\ stack'[i].running = stack[i].running
          /\ stack'[i].interrupt = "NONE" => stack[i].interrupt = "NONE"
    BY <1>1, <1>2, <1>4, TopFrame
  <1>6. ASSUME NEW o
        PROVE  FrameIn(stack', Len(listeners), o) =
               FrameIn(stack, Len(listeners), o) \ {Len(stack)}
    <2>1. FrameIn(stack', Len(listeners), o) =
            (FrameIn(stack, Len(listeners), o) \ {Len(stack)})
              \cup {i \in {Len(stack)} : /\ f.occurrence = o
                                         /\ f.interrupt = "NONE"
                                         /\ f.cur <= Len(listeners)}
      BY <1>1, <1>2, <1>3, FrameReplaced
    <2> QED
      BY <1>2, <2>1
  <1>7. ASSUME NEW o, o # Top.occurrence
        PROVE  Len(stack) \notin FrameIn(stack, Len(listeners), o)
    BY <1>7 DEF FrameIn, Top
  <1> QED
    BY <1>4, <1>5, <1>6, <1>7

\* So does an event that a listener cancels.
LEMMA CancelInv ==
  ASSUME EventInv, Cancel
  PROVE  EventInv'
  <1>1. /\ Calling /\ Top.interrupt = "NONE" /\ "CANCEL" \in Interrupts
        /\ stack' = Append(Below, [Top EXCEPT !.interrupt = "CANCEL"])
        /\ cancelled' = cancelled \cup {Top.occurrence}
        /\ UNCHANGED <<listeners, finalized, paused, delayed, interrupt_state,
                       aborted, published, passed, redone>>
    BY DEF Cancel, Interrupt, Interrupts
  <1>2. /\ stack' \in Seq(Frames) /\ Len(stack') = Len(stack)
        /\ \A i \in 1..Len(stack) :
             /\ stack'[i].occurrence = stack[i].occurrence
             /\ stack'[i].cur = stack[i].cur
             /\ stack'[i].running = stack[i].running
             /\ stack'[i].interrupt = "NONE" => stack[i].interrupt = "NONE"
        /\ \A o : FrameIn(stack', Len(listeners), o) =
                  FrameIn(stack, Len(listeners), o) \ {Len(stack)}
        /\ \A o : o # Top.occurrence =>
                  Len(stack) \notin FrameIn(stack, Len(listeners), o)
    BY <1>1, TopInterrupted
  <1>3. /\ TypeOK /\ finalized = TRUE /\ Top.occurrence \in Occurrences
        /\ Top.occurrence <= published /\ published \in Nat
        /\ Top.occurrence \notin redone =>
             /\ FrameIn(stack, Len(listeners), Top.occurrence) = {Len(stack)}
             /\ PausesIn(paused, Len(listeners), Top.occurrence) = {}
             /\ DelaysIn(delayed, Top.occurrence) = {}
    BY <1>1, CallingOwns
  <1>4. TypeOK'
    BY <1>1, <1>2, <1>3 DEF TypeOK
  <1>5. NotFired' /\ Numbered'
    BY <1>1, <1>3 DEF EventInv, NotFired, Numbered
  <1>6. InArray'
    BY <1>1, <1>2 DEF EventInv, InArray
  <1>7. Known'
    <2>1. \A o \in Occurrences : o > published => o # Top.occurrence
      BY <1>3, Numbers
    <2> QED
      BY <1>1, <1>2, <2>1 DEF EventInv, Known
  <1>8. NotAhead'
    BY <1>1, <1>2 DEF EventInv, NotAhead
  <1>9. NotBehind'
    <2>1. \A o : \A i \in FrameIn(stack', Len(listeners), o) :
            /\ i \in FrameIn(stack, Len(listeners), o)
            /\ stack'[i].cur = stack[i].cur
      BY <1>2 DEF FrameIn
    <2> QED
      BY <1>1, <2>1 DEF EventInv, NotBehind
  <1>10. Disjoint'
    BY <1>1, <1>2 DEF EventInv, Disjoint, AtMostOne
  <1>11. Held'
    <2> SUFFICES ASSUME NEW o \in (1..published) \ redone
                 PROVE (o \in cancelled' \/ passed[o] = Len(listeners)) <=>
                         /\ FrameIn(stack', Len(listeners), o) = {}
                         /\ PausesIn(paused, Len(listeners), o) = {}
                         /\ DelaysIn(delayed, o) = {}
      BY <1>1 DEF Held
    <2>1. (o \in cancelled \/ passed[o] = Len(listeners)) <=>
                         /\ FrameIn(stack, Len(listeners), o) = {}
                         /\ PausesIn(paused, Len(listeners), o) = {}
                         /\ DelaysIn(delayed, o) = {}
      BY DEF EventInv, Held
    <2>2. CASE o = Top.occurrence
      BY <1>1, <1>2, <1>3, <2>2
    <2>3. CASE o # Top.occurrence
      BY <1>1, <1>2, <2>1, <2>3
    <2> QED
      BY <2>2, <2>3
  <1> QED
    BY <1>4, <1>5, <1>6, <1>7, <1>8, <1>9, <1>10, <1>11 DEF EventInv
(* A history that records one more listener. *)
LEMMA PassRecords ==
  ASSUME EventInv, Calling, Top.interrupt = "NONE", Pass
  PROVE  /\ passed' \in [Occurrences -> 0..MaxListeners]
         /\ \A o \in Occurrences :
              /\ passed[o] \in Nat /\ passed'[o] \in Nat
              /\ passed[o] <= passed'[o] /\ passed'[o] <= Len(listeners)
              /\ o # Top.occurrence => passed'[o] = passed[o]
         /\ Top.cur <= passed'[Top.occurrence]
         /\ Top.occurrence \notin redone => passed'[Top.occurrence] = Top.cur
  <1> DEFINE t == Top.occurrence
  <1>1. /\ t \in Occurrences /\ Top.cur \in Nat /\ Top.cur <= Len(listeners)
        /\ t \notin redone => Top.cur = passed[t] + 1
    BY CallingOwns
  <1>2. /\ passed \in [Occurrences -> 0..MaxListeners]
        /\ \A o \in Occurrences : passed[o] <= Len(listeners)
    BY DEF EventInv, TypeOK, Known
  <1>3. passed' = [passed EXCEPT ![t] = IF passed[t] < Top.cur THEN Top.cur
                                        ELSE passed[t]]
    BY DEF Pass
  <1>4. /\ Len(listeners) \in Nat /\ Len(listeners) <= MaxListeners
        /\ MaxListeners \in Nat /\ \A o \in Occurrences : passed[o] \in Nat
    BY Numbers
  <1> HIDE DEF t
  <1>5. /\ passed' \in [Occurrences -> 0..MaxListeners]
        /\ \A o \in Occurrences : o # t => passed'[o] = passed[o]
        /\ passed'[t] = IF passed[t] < Top.cur THEN Top.cur ELSE passed[t]
    BY <1>1, <1>2, <1>3, <1>4
  <1> QED
    BY <1>1, <1>2, <1>4, <1>5 DEF t

\* So does an event that a listener pauses.
LEMMA PauseInv ==
  ASSUME EventInv, Pause
  PROVE  EventInv'
  <1> DEFINE new == [occurrence |-> Top.occurrence, next |-> Top.cur + 1]
             n == Len(listeners)
  <1>1. /\ Calling /\ Top.interrupt = "NONE" /\ "PAUSE" \in Interrupts
        /\ stack' = Append(Below, [Top EXCEPT !.interrupt = "PAUSE"])
        /\ paused' = paused \cup {new} /\ Pass
        /\ UNCHANGED <<listeners, finalized, delayed, interrupt_state, aborted,
                       published, cancelled, redone>>
    BY DEF Pause, Interrupt, Interrupts
  <1>2. /\ stack' \in Seq(Frames) /\ Len(stack') = Len(stack)
        /\ \A i \in 1..Len(stack) :
             /\ stack'[i].occurrence = stack[i].occurrence
             /\ stack'[i].cur = stack[i].cur
             /\ stack'[i].running = stack[i].running
             /\ stack'[i].interrupt = "NONE" => stack[i].interrupt = "NONE"
        /\ \A o : FrameIn(stack', n, o) = FrameIn(stack, n, o) \ {Len(stack)}
        /\ \A o : o # Top.occurrence => Len(stack) \notin FrameIn(stack, n, o)
    BY <1>1, TopInterrupted
  <1>3. /\ TypeOK /\ finalized = TRUE /\ Top.occurrence \in Occurrences
        /\ Top.occurrence <= published /\ published \in Nat
        /\ Top.cur \in Nat \ {0} /\ Top.cur <= n
        /\ Top.occurrence \notin redone =>
             /\ Top.cur = passed[Top.occurrence] + 1
             /\ FrameIn(stack, n, Top.occurrence) = {Len(stack)}
             /\ PausesIn(paused, n, Top.occurrence) = {}
             /\ DelaysIn(delayed, Top.occurrence) = {}
    BY <1>1, CallingOwns
  <1>4. /\ passed' \in [Occurrences -> 0..MaxListeners]
        /\ \A o \in Occurrences :
             /\ passed[o] \in Nat /\ passed'[o] \in Nat
             /\ passed[o] <= passed'[o] /\ passed'[o] <= n
             /\ o # Top.occurrence => passed'[o] = passed[o]
        /\ Top.cur <= passed'[Top.occurrence]
        /\ Top.occurrence \notin redone => passed'[Top.occurrence] = Top.cur
    BY <1>1, PassRecords
  <1>5. /\ new \in [occurrence : Occurrences, next : 1..(MaxListeners + 1)]
        /\ new.occurrence = Top.occurrence /\ new.next = Top.cur + 1
    BY <1>3, Numbers
  <1>6. \A o : PausesIn(paused', n, o) =
              PausesIn(paused, n, o)
                \cup {p \in {new} : Top.occurrence = o /\ Top.cur + 1 <= n}
    BY <1>1, <1>5 DEF PausesIn
  <1> HIDE DEF new
  <1>a. /\ n \in Nat
        /\ \A i \in 1..Len(stack) : /\ stack[i].cur \in Nat
                                    /\ stack[i].occurrence \in Occurrences
        /\ \A p \in paused : p.next \in Nat /\ p.occurrence \in Occurrences
        /\ \A d \in delayed : d.next \in Nat /\ d.occurrence \in Occurrences
        /\ \A o \in Occurrences : o \in Nat
    BY Numbers
  <1>7. TypeOK'
    BY <1>1, <1>2, <1>3, <1>4, <1>5 DEF TypeOK
  <1>8. NotFired' /\ Numbered'
    BY <1>1, <1>3 DEF EventInv, NotFired, Numbered
  <1>9. InArray'
    BY <1>1, <1>2 DEF EventInv, InArray
  <1>10. Known'
    <2>1. \A o \in Occurrences : o > published => o # Top.occurrence
      BY <1>3, <1>a
    <2> QED
      BY <1>1, <1>2, <1>3, <1>4, <1>5, <2>1 DEF EventInv, Known
  <1>11. NotAhead'
    <2>1. ASSUME NEW i \in 1..Len(stack'), stack'[i].interrupt = "NONE"
          PROVE  stack'[i].cur <= passed'[stack'[i].occurrence] + 1
      <3>1. stack[i].cur <= passed[stack[i].occurrence] + 1
        BY <1>2, <2>1 DEF EventInv, NotAhead
      <3> QED
        BY <1>2, <1>4, <1>a, <3>1
    <2>2. ASSUME NEW p \in paused'
          PROVE  p.next <= passed'[p.occurrence] + 1
      <3>1. p \in paused => p.next <= passed[p.occurrence] + 1
        BY DEF EventInv, NotAhead
      <3>2. CASE p \in paused
        BY <1>4, <1>a, <3>1, <3>2
      <3>3. CASE p = new
        BY <1>3, <1>4, <1>5, <3>3
      <3> QED
        BY <1>1, <3>2, <3>3
    <2>3. \A d \in delayed' : d.next <= passed'[d.occurrence] + 1
      BY <1>1, <1>4, <1>a DEF EventInv, NotAhead
    <2> QED
      BY <2>1, <2>2, <2>3 DEF NotAhead
  <1>12. NotBehind'
    <2> SUFFICES ASSUME NEW o \in Occurrences \ redone
                 PROVE  /\ \A i \in FrameIn(stack', n, o) :
                             stack'[i].cur = passed'[o] + 1
                        /\ \A p \in PausesIn(paused', n, o) :
                             p.next = passed'[o] + 1
                        /\ \A d \in DelaysIn(delayed, o) :
                             d.next = passed'[o] + 1
      BY <1>1 DEF NotBehind
    <2>1. /\ \A i \in FrameIn(stack, n, o) : stack[i].cur = passed[o] + 1
          /\ \A p \in PausesIn(paused, n, o) : p.next = passed[o] + 1
          /\ \A d \in DelaysIn(delayed, o) : d.next = passed[o] + 1
      BY DEF EventInv, NotBehind
    <2>2. \A i \in FrameIn(stack', n, o) : /\ i \in FrameIn(stack, n, o)
                                           /\ stack'[i].cur = stack[i].cur
      BY <1>2 DEF FrameIn
    <2>3. CASE o = Top.occurrence
      BY <1>2, <1>3, <1>4, <1>5, <1>6, <2>3
    <2>4. CASE o # Top.occurrence
      BY <1>4, <1>6, <2>1, <2>2, <2>4
    <2> QED
      BY <2>3, <2>4
  <1>13. Disjoint'
    <2> SUFFICES ASSUME NEW o \in Occurrences \ redone
                 PROVE  AtMostOne(FrameIn(stack', n, o),
                                  PausesIn(paused', n, o), DelaysIn(delayed, o))
      BY <1>1 DEF Disjoint
    <2>1. AtMostOne(FrameIn(stack, n, o), PausesIn(paused, n, o),
                    DelaysIn(delayed, o))
      BY DEF EventInv, Disjoint
    <2>2. CASE o = Top.occurrence
      BY <1>2, <1>3, <1>6, <2>2 DEF AtMostOne
    <2>3. CASE o # Top.occurrence
      BY <1>2, <1>6, <2>1, <2>3 DEF AtMostOne
    <2> QED
      BY <2>2, <2>3
  <1>14. Held'
    <2> SUFFICES ASSUME NEW o \in (1..published) \ redone
                 PROVE (o \in cancelled \/ passed'[o] = n) <=>
                         /\ FrameIn(stack', n, o) = {}
                         /\ PausesIn(paused', n, o) = {}
                         /\ DelaysIn(delayed, o) = {}
      BY <1>1 DEF Held
    <2>1. (o \in cancelled \/ passed[o] = n) <=>
                         /\ FrameIn(stack, n, o) = {}
                         /\ PausesIn(paused, n, o) = {}
                         /\ DelaysIn(delayed, o) = {}
      BY DEF EventInv, Held
    <2>2. o \in Occurrences
      BY Numbers DEF Occurrences
    <2>3. CASE o = Top.occurrence
      <3>1. o \notin cancelled
        BY <1>3, <2>1, <2>3
      <3>2. FrameIn(stack', n, o) = {} /\ DelaysIn(delayed, o) = {}
        BY <1>2, <1>3, <2>3
      <3>3. passed'[o] = Top.cur
        BY <1>4, <2>3
      <3>4. PausesIn(paused', n, o) = {} <=> ~(Top.cur + 1 <= n)
        BY <1>3, <1>6, <2>3
      <3> QED
        BY <1>3, <1>a, <3>1, <3>2, <3>3, <3>4
    <2>4. CASE o # Top.occurrence
      BY <1>2, <1>4, <1>6, <2>1, <2>2, <2>4
    <2> QED
      BY <2>3, <2>4
  <1> QED
    BY <1>7, <1>8, <1>9, <1>10, <1>11, <1>12, <1>13, <1>14 DEF EventInv
\* So does a listener that returns and leaves the event running.
LEMMA ListenerReturnsInv ==
  ASSUME EventInv, ListenerReturns
  PROVE  EventInv'
  <1> DEFINE f == [Top EXCEPT !.running = FALSE, !.cur = @ + 1]
             n == Len(listeners)
  <1>1. /\ Calling /\ Top.interrupt = "NONE" /\ Pass
        /\ stack' = Append(Below, f)
        /\ UNCHANGED <<listeners, finalized, paused, delayed, interrupt_state,
                       aborted, published, cancelled, redone>>
    BY DEF ListenerReturns
  <1>2. /\ TypeOK /\ finalized = TRUE /\ ~Idle /\ Top \in Frames
        /\ Top.occurrence \in Occurrences
        /\ Top.occurrence <= published /\ published \in Nat
        /\ Top.cur \in Nat \ {0} /\ Top.cur <= n
        /\ Top.occurrence \notin redone =>
             /\ Top.cur = passed[Top.occurrence] + 1
             /\ FrameIn(stack, n, Top.occurrence) = {Len(stack)}
             /\ PausesIn(paused, n, Top.occurrence) = {}
             /\ DelaysIn(delayed, Top.occurrence) = {}
    BY <1>1, CallingOwns
  <1>3. /\ f \in Frames /\ f.occurrence = Top.occurrence
        /\ f.cur = Top.cur + 1 /\ f.interrupt = "NONE" /\ ~f.running
    <2>1. Top.cur + 1 \in 1..(MaxListeners + 1)
      BY <1>2, Numbers
    <2> QED
      BY <1>1, <1>2, <2>1 DEF Frames
  <1> HIDE DEF f
  <1>4. /\ passed' \in [Occurrences -> 0..MaxListeners]
        /\ \A o \in Occurrences :
             /\ passed[o] \in Nat /\ passed'[o] \in Nat
             /\ passed[o] <= passed'[o] /\ passed'[o] <= n
             /\ o # Top.occurrence => passed'[o] = passed[o]
        /\ Top.cur <= passed'[Top.occurrence]
        /\ Top.occurrence \notin redone => passed'[Top.occurrence] = Top.cur
    BY <1>1, PassRecords
  <1>5. ASSUME NEW o
        PROVE  FrameIn(stack', n, o) =
                 (FrameIn(stack, n, o) \ {Len(stack)})
                   \cup {i \in {Len(stack)} : /\ f.occurrence = o
                                              /\ f.interrupt = "NONE"
                                              /\ f.cur <= n}
    BY <1>1, <1>2, <1>3, FrameReplaced
  <1>6. /\ stack' \in Seq(Frames) /\ Len(stack') = Len(stack)
        /\ \A i \in 1..(Len(stack) - 1) : stack'[i] = stack[i]
        /\ stack'[Len(stack)] = f
    BY <1>1, <1>2, <1>3, TopReplaced
  <1>7. /\ \A i \in 1..Len(stack) : stack'[i].occurrence = stack[i].occurrence
        /\ \A i \in 1..Len(stack) : i # Len(stack) => stack'[i] = stack[i]
    BY <1>2, <1>3, <1>6, TopFrame
  <1>8. \A o : o # Top.occurrence => Len(stack) \notin FrameIn(stack, n, o)
    BY DEF FrameIn, Top
  <1>a. /\ n \in Nat
        /\ \A i \in 1..Len(stack) : /\ stack[i].cur \in Nat
                                    /\ stack[i].occurrence \in Occurrences
        /\ \A p \in paused : p.next \in Nat /\ p.occurrence \in Occurrences
        /\ \A d \in delayed : d.next \in Nat /\ d.occurrence \in Occurrences
        /\ \A o \in Occurrences : o \in Nat
    BY Numbers
  <1>9. TypeOK'
    BY <1>1, <1>2, <1>4, <1>6 DEF TypeOK
  <1>10. NotFired' /\ Numbered'
    BY <1>1, <1>2 DEF EventInv, NotFired, Numbered
  <1>11. InArray'
    BY <1>1, <1>3, <1>6, <1>7 DEF EventInv, InArray
  <1>12. Known'
    <2>1. \A o \in Occurrences : o > published => o # Top.occurrence
      BY <1>2, <1>a
    <2> QED
      BY <1>1, <1>4, <1>6, <1>7, <2>1 DEF EventInv, Known
  <1>13. NotAhead'
    <2>1. ASSUME NEW i \in 1..Len(stack'), stack'[i].interrupt = "NONE"
          PROVE  stack'[i].cur <= passed'[stack'[i].occurrence] + 1
      <3>1. CASE i = Len(stack)
        BY <1>2, <1>3, <1>4, <1>6, <3>1
      <3>2. CASE i # Len(stack)
        <4>1. stack[i].cur <= passed[stack[i].occurrence] + 1
          BY <1>6, <1>7, <2>1, <3>2 DEF EventInv, NotAhead
        <4>2. stack'[i] = stack[i] /\ stack[i].occurrence \in Occurrences
              /\ stack[i].cur \in Nat
          BY <1>6, <1>7, <1>a, <3>2
        <4>3. passed[stack[i].occurrence] <= passed'[stack[i].occurrence]
              /\ passed[stack[i].occurrence] \in Nat
              /\ passed'[stack[i].occurrence] \in Nat
          BY <1>4, <4>2
        <4> QED
          BY <4>1, <4>2, <4>3
      <3> QED
        BY <3>1, <3>2
    <2>2. ASSUME NEW p \in paused
          PROVE  p.next <= passed'[p.occurrence] + 1
      <3>1. p.next <= passed[p.occurrence] + 1
        BY DEF EventInv, NotAhead
      <3> QED
        BY <1>4, <1>a, <3>1
    <2>3. ASSUME NEW d \in delayed
          PROVE  d.next <= passed'[d.occurrence] + 1
      <3>1. d.next <= passed[d.occurrence] + 1
        BY DEF EventInv, NotAhead
      <3> QED
        BY <1>4, <1>a, <3>1
    <2> QED
      BY <1>1, <2>1, <2>2, <2>3 DEF NotAhead
  <1>14. NotBehind'
    <2> SUFFICES ASSUME NEW o \in Occurrences \ redone
                 PROVE  /\ \A i \in FrameIn(stack', n, o) :
                             stack'[i].cur = passed'[o] + 1
                        /\ \A p \in PausesIn(paused, n, o) :
                             p.next = passed'[o] + 1
                        /\ \A d \in DelaysIn(delayed, o) :
                             d.next = passed'[o] + 1
      BY <1>1 DEF NotBehind
    <2>1. /\ \A i \in FrameIn(stack, n, o) : stack[i].cur = passed[o] + 1
          /\ \A p \in PausesIn(paused, n, o) : p.next = passed[o] + 1
          /\ \A d \in DelaysIn(delayed, o) : d.next = passed[o] + 1
      BY DEF EventInv, NotBehind
    <2>2. CASE o = Top.occurrence
      BY <1>2, <1>3, <1>4, <1>5, <1>6, <2>2
    <2>3. CASE o # Top.occurrence
      <3>1. \A i \in FrameIn(stack', n, o) : i \in FrameIn(stack, n, o)
                                             /\ stack'[i] = stack[i]
        <4>1. FrameIn(stack', n, o) = FrameIn(stack, n, o)
          BY <1>3, <1>5, <1>8, <2>3
        <4>2. Len(stack) \notin FrameIn(stack, n, o)
          BY <1>8, <2>3
        <4> QED
          BY <1>7, <4>1, <4>2 DEF FrameIn
      <3> QED
        BY <1>4, <2>1, <2>3, <3>1
    <2> QED
      BY <2>2, <2>3
  <1>15. Disjoint'
    <2> SUFFICES ASSUME NEW o \in Occurrences \ redone
                 PROVE  AtMostOne(FrameIn(stack', n, o),
                                  PausesIn(paused, n, o), DelaysIn(delayed, o))
      BY <1>1 DEF Disjoint
    <2>1. AtMostOne(FrameIn(stack, n, o), PausesIn(paused, n, o),
                    DelaysIn(delayed, o))
      BY DEF EventInv, Disjoint
    <2>2. CASE o = Top.occurrence
      BY <1>2, <1>5, <2>2 DEF AtMostOne
    <2>3. CASE o # Top.occurrence
      <3>1. FrameIn(stack', n, o) = FrameIn(stack, n, o)
        BY <1>3, <1>5, <1>8, <2>3
      <3> QED
        BY <2>1, <3>1
    <2> QED
      BY <2>2, <2>3
  <1>16. Held'
    <2> SUFFICES ASSUME NEW o \in (1..published) \ redone
                 PROVE (o \in cancelled \/ passed'[o] = n) <=>
                         /\ FrameIn(stack', n, o) = {}
                         /\ PausesIn(paused, n, o) = {}
                         /\ DelaysIn(delayed, o) = {}
      BY <1>1 DEF Held
    <2>1. (o \in cancelled \/ passed[o] = n) <=>
                         /\ FrameIn(stack, n, o) = {}
                         /\ PausesIn(paused, n, o) = {}
                         /\ DelaysIn(delayed, o) = {}
      BY DEF EventInv, Held
    <2>2. o \in Occurrences
      BY Numbers DEF Occurrences
    <2>3. CASE o = Top.occurrence
      <3>1. o \notin cancelled
        BY <1>2, <2>1, <2>3
      <3>2. PausesIn(paused, n, o) = {} /\ DelaysIn(delayed, o) = {}
        BY <1>2, <2>3
      <3>3. passed'[o] = Top.cur
        BY <1>4, <2>3
      <3>4. FrameIn(stack', n, o) = {} <=> ~(Top.cur + 1 <= n)
        BY <1>2, <1>3, <1>5, <2>3
      <3> QED
        BY <1>2, <1>a, <3>1, <3>2, <3>3, <3>4
    <2>4. CASE o # Top.occurrence
      <3>1. FrameIn(stack', n, o) = FrameIn(stack, n, o)
        BY <1>3, <1>5, <1>8, <2>4
      <3> QED
        BY <1>4, <2>1, <2>2, <2>4, <3>1
    <2> QED
      BY <2>3, <2>4
  <1> QED
    BY <1>9, <1>10, <1>11, <1>12, <1>13, <1>14, <1>15, <1>16 DEF EventInv

\* So does an event that a listener delays.
LEMMA DelayInv ==
  ASSUME EventInv, Delay
  PROVE  EventInv'
  <1> DEFINE id == CHOOSE i \in 1..MaxDelays : i \notin DelayIds
             new == [id |-> id, occurrence |-> Top.occurrence,
                     next |-> Top.cur, resumed |-> FALSE]
             n == Len(listeners)
  <1>1. /\ Calling /\ Top.interrupt = "NONE" /\ "DELAY" \in Interrupts
        /\ stack' = Append(Below, [Top EXCEPT !.interrupt = "DELAY"])
        /\ delayed' = delayed \cup {new} /\ DelayIds # 1..MaxDelays
        /\ UNCHANGED <<listeners, finalized, paused, interrupt_state, aborted,
                       published, passed, cancelled, redone>>
    BY DEF Delay, Interrupt, Interrupts
  <1>2. /\ stack' \in Seq(Frames) /\ Len(stack') = Len(stack)
        /\ \A i \in 1..Len(stack) :
             /\ stack'[i].occurrence = stack[i].occurrence
             /\ stack'[i].cur = stack[i].cur
             /\ stack'[i].running = stack[i].running
             /\ stack'[i].interrupt = "NONE" => stack[i].interrupt = "NONE"
        /\ \A o : FrameIn(stack', n, o) = FrameIn(stack, n, o) \ {Len(stack)}
        /\ \A o : o # Top.occurrence => Len(stack) \notin FrameIn(stack, n, o)
    BY <1>1, TopInterrupted
  <1>3. /\ TypeOK /\ finalized = TRUE /\ Top.occurrence \in Occurrences
        /\ Top.occurrence <= published /\ published \in Nat
        /\ Top.cur \in Nat \ {0} /\ Top.cur <= n
        /\ Top.cur <= passed[Top.occurrence] + 1
        /\ Top.occurrence \notin redone =>
             /\ Top.cur = passed[Top.occurrence] + 1
             /\ FrameIn(stack, n, Top.occurrence) = {Len(stack)}
             /\ PausesIn(paused, n, Top.occurrence) = {}
             /\ DelaysIn(delayed, Top.occurrence) = {}
    BY <1>1, CallingOwns
  <1>4. id \in 1..MaxDelays
    <2>1. DelayIds \subseteq 1..MaxDelays
      BY <1>3 DEF TypeOK, DelayIds
    <2> QED
      BY <1>1, <2>1
  <1>5. /\ new \in [id : 1..MaxDelays, occurrence : Occurrences,
                    next : 1..MaxListeners, resumed : BOOLEAN]
        /\ new.occurrence = Top.occurrence /\ new.next = Top.cur
    <2>1. Top.cur \in 1..MaxListeners
      BY <1>3, Numbers
    <2> HIDE DEF id
    <2> QED
      BY <1>3, <1>4, <2>1
  <1> HIDE DEF new
  <1>6. \A o : DelaysIn(delayed', o) =
              DelaysIn(delayed, o) \cup {d \in {new} : Top.occurrence = o}
    BY <1>1, <1>5 DEF DelaysIn
  <1>7. TypeOK'
    BY <1>1, <1>2, <1>3, <1>5 DEF TypeOK
  <1>8. NotFired' /\ Numbered'
    BY <1>1, <1>3 DEF EventInv, NotFired, Numbered
  <1>9. InArray'
    BY <1>1, <1>2 DEF EventInv, InArray
  <1>10. Known'
    BY <1>1, <1>2, <1>3, <1>5 DEF EventInv, Known
  <1>11. NotAhead'
    BY <1>1, <1>2, <1>3, <1>5 DEF EventInv, NotAhead
  <1>12. NotBehind'
    <2>1. \A o : \A i \in FrameIn(stack', n, o) :
            /\ i \in FrameIn(stack, n, o)
            /\ stack'[i].cur = stack[i].cur
      BY <1>2 DEF FrameIn
    <2>2. ASSUME NEW o \in Occurrences \ redone, NEW d \in DelaysIn(delayed', o)
          PROVE  d.next = passed[o] + 1
      <3>1. d \in DelaysIn(delayed, o) => d.next = passed[o] + 1
        BY DEF EventInv, NotBehind
      <3>2. d = new /\ Top.occurrence = o => d.next = passed[o] + 1
        BY <1>3, <1>5
      <3> QED
        BY <1>6, <2>2, <3>1, <3>2
    <2> QED
      BY <1>1, <2>1, <2>2 DEF EventInv, NotBehind
  <1>13. Disjoint'
    <2> SUFFICES ASSUME NEW o \in Occurrences \ redone
                 PROVE  AtMostOne(FrameIn(stack', n, o),
                                  PausesIn(paused, n, o), DelaysIn(delayed', o))
      BY <1>1 DEF Disjoint
    <2>1. AtMostOne(FrameIn(stack, n, o), PausesIn(paused, n, o),
                    DelaysIn(delayed, o))
      BY DEF EventInv, Disjoint
    <2>2. CASE o = Top.occurrence
      BY <1>2, <1>3, <1>6, <2>2 DEF AtMostOne
    <2>3. CASE o # Top.occurrence
      BY <1>2, <1>6, <2>1, <2>3 DEF AtMostOne
    <2> QED
      BY <2>2, <2>3
  <1>14. Held'
    <2> SUFFICES ASSUME NEW o \in (1..published) \ redone
                 PROVE (o \in cancelled \/ passed[o] = n) <=>
                         /\ FrameIn(stack', n, o) = {}
                         /\ PausesIn(paused, n, o) = {}
                         /\ DelaysIn(delayed', o) = {}
      BY <1>1 DEF Held
    <2>1. (o \in cancelled \/ passed[o] = n) <=>
                         /\ FrameIn(stack, n, o) = {}
                         /\ PausesIn(paused, n, o) = {}
                         /\ DelaysIn(delayed, o) = {}
      BY DEF EventInv, Held
    <2>2. CASE o = Top.occurrence
      <3>1. FrameIn(stack, n, o) # {} /\ DelaysIn(delayed', o) # {}
        BY <1>3, <1>6, <2>2
      <3> QED
        BY <2>1, <3>1
    <2>3. CASE o # Top.occurrence
      BY <1>2, <1>6, <2>1, <2>3
    <2> QED
      BY <2>2, <2>3
  <1> QED
    BY <1>7, <1>8, <1>9, <1>10, <1>11, <1>12, <1>13, <1>14 DEF EventInv
(* The firing that fire_event begins. *)
LEMMA FirePushed ==
  ASSUME EventInv, NEW o \in Occurrences, NEW expected,
         NEW start \in 1..(MaxListeners + 1), FireEvent(o, expected, start)
  PROVE  /\ stack' \in Seq(Frames) /\ Len(stack') = Len(stack) + 1
         /\ Len(stack) \in Nat
         /\ \A i \in 1..Len(stack) : stack'[i] = stack[i]
         /\ stack'[Len(stack) + 1].occurrence = o
         /\ stack'[Len(stack) + 1].cur = start
         /\ ~stack'[Len(stack) + 1].running
         /\ aborted' \in BOOLEAN
         /\ \A q : FrameIn(stack', Len(listeners), q) =
                   FrameIn(stack, Len(listeners), q)
                     \cup {i \in {Len(stack) + 1} :
                             o = q /\ start <= Len(listeners)}
  <1> DEFINE f == [occurrence |-> o, cur |-> start,
                   running |-> FALSE, interrupt |-> "NONE"]
             n == Len(listeners)
  <1>1. TypeOK /\ stack' = Append(stack, f)
    BY DEF EventInv, FireEvent
  <1>2. aborted' \in BOOLEAN
    BY DEF FireEvent
  <1>3. /\ f \in Frames /\ f.occurrence = o /\ f.cur = start
        /\ f.interrupt = "NONE" /\ ~f.running
    BY DEF Frames
  <1> HIDE DEF f
  <1>4. /\ stack' \in Seq(Frames) /\ Len(stack') = Len(stack) + 1
        /\ \A i \in 1..Len(stack) : stack'[i] = stack[i]
        /\ stack'[Len(stack) + 1] = f
        /\ Len(stack) \in Nat
    BY <1>1, <1>3, TopPushed
  <1>5. ASSUME NEW q
        PROVE  FrameIn(stack', n, q) =
                 FrameIn(stack, n, q)
                   \cup {i \in {Len(stack) + 1} : o = q /\ start <= n}
    <2>1. FrameIn(stack', n, q) =
            FrameIn(stack, n, q)
              \cup {i \in {Len(stack) + 1} : /\ f.occurrence = q
                                             /\ f.interrupt = "NONE"
                                             /\ f.cur <= n}
      BY <1>1, <1>3, FramePushed
    <2> QED
      BY <1>3, <2>1
  <1> QED
    BY <1>2, <1>3, <1>4, <1>5

(* fire_event takes an occurrence over from a pause or a delay. *)
LEMMA Continues ==
  ASSUME EventInv, finalized = TRUE, NEW o \in Occurrences, NEW expected,
         NEW start \in 1..(MaxListeners + 1), FireEvent(o, expected, start),
         UNCHANGED <<listeners, finalized, interrupt_state, published, passed,
                     cancelled>>,
         o <= published, start <= passed[o] + 1,
         paused' \subseteq paused,
         delayed' \subseteq [id : 1..MaxDelays, occurrence : Occurrences,
                            next : 1..MaxListeners, resumed : BOOLEAN],
         \A d \in delayed' : \E e \in delayed : /\ d.occurrence = e.occurrence
                                                /\ d.next = e.next,
         redone \subseteq redone', redone' \subseteq Occurrences,
         \A q \in Occurrences \ redone' :
           /\ q # o => /\ PausesIn(paused', Len(listeners), q) =
                             PausesIn(paused, Len(listeners), q)
                       /\ DelaysIn(delayed', q) = DelaysIn(delayed, q)
           /\ q = o => /\ start = passed[o] + 1
                       /\ FrameIn(stack, Len(listeners), o) = {}
                       /\ PausesIn(paused', Len(listeners), o) = {}
                       /\ DelaysIn(delayed', o) = {}
                       /\ start > Len(listeners) <=>
                            o \in cancelled \/ passed[o] = Len(listeners)
  PROVE  EventInv'
  <1> DEFINE n == Len(listeners)
             top == Len(stack) + 1
  <1>1. /\ stack' \in Seq(Frames) /\ Len(stack') = top /\ Len(stack) \in Nat
        /\ \A i \in 1..Len(stack) : stack'[i] = stack[i]
        /\ stack'[top].occurrence = o /\ stack'[top].cur = start
        /\ ~stack'[top].running
        /\ aborted' \in BOOLEAN
        /\ \A q : FrameIn(stack', n, q) =
                  FrameIn(stack, n, q) \cup {i \in {top} : o = q /\ start <= n}
    BY FirePushed
  <1>2. /\ TypeOK /\ n \in Nat /\ published \in Nat
        /\ \A q \in Occurrences : passed[q] \in Nat
    BY Numbers DEF EventInv
  <1>3. \A i \in 1..top : i = top \/ i \in 1..Len(stack)
    BY <1>1
  <1>4. TypeOK'
    BY <1>1, <1>2 DEF TypeOK
  <1>5. NotFired' /\ Numbered'
    BY DEF EventInv, NotFired, Numbered
  <1>6. InArray'
    BY <1>1, <1>3 DEF EventInv, InArray
  <1>7. Known'
    BY <1>1, <1>3 DEF EventInv, Known
  <1>8. NotAhead'
    BY <1>1, <1>3 DEF EventInv, NotAhead
  <1>9. NotBehind'
    <2> SUFFICES ASSUME NEW q \in Occurrences \ redone'
                 PROVE  /\ \A i \in FrameIn(stack', n, q) :
                             stack'[i].cur = passed[q] + 1
                        /\ \A p \in PausesIn(paused', n, q) :
                             p.next = passed[q] + 1
                        /\ \A d \in DelaysIn(delayed', q) :
                             d.next = passed[q] + 1
      BY DEF NotBehind
    <2>1. /\ \A i \in FrameIn(stack, n, q) : stack[i].cur = passed[q] + 1
          /\ \A p \in PausesIn(paused, n, q) : p.next = passed[q] + 1
          /\ \A d \in DelaysIn(delayed, q) : d.next = passed[q] + 1
      BY DEF EventInv, NotBehind
    <2>2. \A i \in FrameIn(stack, n, q) : stack'[i] = stack[i]
      BY <1>1 DEF FrameIn
    <2>3. CASE q = o
      BY <1>1, <2>3
    <2>4. CASE q # o
      <3>1. FrameIn(stack', n, q) = FrameIn(stack, n, q)
        BY <1>1, <2>4
      <3> QED
        BY <2>1, <2>2, <2>4, <3>1
    <2> QED
      BY <2>3, <2>4
  <1>10. Disjoint'
    <2> SUFFICES ASSUME NEW q \in Occurrences \ redone'
                 PROVE  AtMostOne(FrameIn(stack', n, q),
                                  PausesIn(paused', n, q),
                                  DelaysIn(delayed', q))
      BY DEF Disjoint
    <2>1. AtMostOne(FrameIn(stack, n, q), PausesIn(paused, n, q),
                    DelaysIn(delayed, q))
      BY DEF EventInv, Disjoint
    <2>2. CASE q = o
      BY <1>1, <2>2 DEF AtMostOne
    <2>3. CASE q # o
      <3>1. FrameIn(stack', n, q) = FrameIn(stack, n, q)
        BY <1>1, <2>3
      <3> QED
        BY <2>1, <2>3, <3>1
    <2> QED
      BY <2>2, <2>3
  <1>11. Held'
    <2> SUFFICES ASSUME NEW q \in (1..published) \ redone'
                 PROVE (q \in cancelled \/ passed[q] = n) <=>
                         /\ FrameIn(stack', n, q) = {}
                         /\ PausesIn(paused', n, q) = {}
                         /\ DelaysIn(delayed', q) = {}
      BY DEF Held
    <2>1. (q \in cancelled \/ passed[q] = n) <=>
                         /\ FrameIn(stack, n, q) = {}
                         /\ PausesIn(paused, n, q) = {}
                         /\ DelaysIn(delayed, q) = {}
      BY DEF EventInv, Held
    <2>2. q \in Occurrences
      BY Numbers DEF Occurrences
    <2>3. CASE q = o
      <3>1. FrameIn(stack', n, q) = {} <=> ~(start <= n)
        BY <1>1, <2>2, <2>3
      <3>2. ~(start <= n) <=> start > n
        BY <1>2, EventAssumption
      <3> QED
        BY <2>2, <2>3, <3>1, <3>2
    <2>4. CASE q # o
      <3>1. FrameIn(stack', n, q) = FrameIn(stack, n, q)
        BY <1>1, <2>4
      <3> QED
        BY <2>1, <2>2, <2>4, <3>1
    <2> QED
      BY <2>3, <2>4
  <1> QED
    BY <1>4, <1>5, <1>6, <1>7, <1>8, <1>9, <1>10, <1>11 DEF EventInv
(* A delay that was not resumed by hand has its occurrence for itself. *)
LEMMA DelayOwns ==
  ASSUME EventInv, NEW d \in delayed
  PROVE  /\ d \in [id : 1..MaxDelays, occurrence : Occurrences,
                   next : 1..MaxListeners, resumed : BOOLEAN]
         /\ d.occurrence \in Occurrences /\ d.next \in 1..(MaxListeners + 1)
         /\ d.occurrence <= published /\ d.next <= passed[d.occurrence] + 1
         /\ d.next <= Len(listeners) /\ d.next \in Nat
         /\ d.occurrence \notin redone =>
              /\ d.next = passed[d.occurrence] + 1
              /\ FrameIn(stack, Len(listeners), d.occurrence) = {}
              /\ PausesIn(paused, Len(listeners), d.occurrence) = {}
              /\ DelaysIn(delayed, d.occurrence) = {d}
              /\ ~(d.occurrence \in cancelled
                     \/ passed[d.occurrence] = Len(listeners))
  <1> DEFINE o == d.occurrence
  <1>1. /\ d \in [id : 1..MaxDelays, occurrence : Occurrences,
                  next : 1..MaxListeners, resumed : BOOLEAN]
        /\ o \in Occurrences /\ d.next \in 1..MaxListeners
    BY DEF EventInv, TypeOK
  <1>2. /\ o <= published /\ d.next <= passed[o] + 1
        /\ d.next <= Len(listeners)
    BY DEF EventInv, Known, NotAhead
  <1>3. d.next \in Nat /\ d.next \in 1..(MaxListeners + 1)
    BY <1>1, EventAssumption
  <1>4. d \in DelaysIn(delayed, o)
    BY DEF DelaysIn
  <1>5. ASSUME o \notin redone
        PROVE  /\ d.next = passed[o] + 1
               /\ FrameIn(stack, Len(listeners), o) = {}
               /\ PausesIn(paused, Len(listeners), o) = {}
               /\ DelaysIn(delayed, o) = {d}
               /\ ~(o \in cancelled \/ passed[o] = Len(listeners))
    <2>1. d.next = passed[o] + 1
      BY <1>1, <1>4, <1>5 DEF EventInv, NotBehind
    <2>2. AtMostOne(FrameIn(stack, Len(listeners), o),
                    PausesIn(paused, Len(listeners), o), DelaysIn(delayed, o))
      BY <1>1, <1>5 DEF EventInv, Disjoint
    <2>3. /\ FrameIn(stack, Len(listeners), o) = {}
          /\ PausesIn(paused, Len(listeners), o) = {}
          /\ DelaysIn(delayed, o) = {d}
      BY <1>4, <2>2 DEF AtMostOne
    <2>4. o \in (1..published) \ redone
      BY <1>1, <1>2, <1>5, Numbers DEF Occurrences
    <2>5. ~(o \in cancelled \/ passed[o] = Len(listeners))
      BY <1>4, <2>4 DEF EventInv, Held
    <2> QED
      BY <2>1, <2>3, <2>5
  <1> QED
    BY <1>1, <1>2, <1>3, <1>5

\* So does the timer of a delay, which fires the event again.
LEMMA DelayTimerInv ==
  ASSUME EventInv, DelayTimer
  PROVE  EventInv'
  <1> DEFINE n == Len(listeners)
  <1>1. PICK d \in delayed : /\ delayed' = delayed \ {d}
                             /\ FireEvent(d.occurrence, "DELAY", d.next)
    BY DEF DelayTimer
  <1>2. /\ finalized = TRUE
        /\ UNCHANGED <<listeners, finalized, paused, interrupt_state, published,
                       passed, cancelled, redone>>
    BY DEF DelayTimer, EventInv, TypeOK
  <1>3. /\ d.occurrence \in Occurrences /\ d.next \in 1..(MaxListeners + 1)
        /\ d.occurrence <= published /\ d.next <= passed[d.occurrence] + 1
        /\ d.next <= n /\ d.next \in Nat
        /\ d.occurrence \notin redone =>
             /\ d.next = passed[d.occurrence] + 1
             /\ FrameIn(stack, n, d.occurrence) = {}
             /\ PausesIn(paused, n, d.occurrence) = {}
             /\ DelaysIn(delayed, d.occurrence) = {d}
             /\ ~(d.occurrence \in cancelled \/ passed[d.occurrence] = n)
    BY DelayOwns
  <1>4. /\ delayed' \subseteq [id : 1..MaxDelays, occurrence : Occurrences,
                               next : 1..MaxListeners, resumed : BOOLEAN]
        /\ \A e \in delayed' : e \in delayed
        /\ redone \subseteq Occurrences
    BY <1>1 DEF EventInv, TypeOK
  <1>5. ~(d.next > n)
    BY <1>3, Numbers
  <1>6. ASSUME NEW q \in Occurrences \ redone
        PROVE  /\ q # d.occurrence =>
                    DelaysIn(delayed', q) = DelaysIn(delayed, q)
               /\ q = d.occurrence => DelaysIn(delayed', q) = {}
    BY <1>1, <1>3 DEF DelaysIn
  <1> QED
    BY <1>1, <1>2, <1>3, <1>4, <1>5, <1>6, Continues

\* So does resuming a delayed event.
LEMMA ResumeDelayedInv ==
  ASSUME EventInv, ResumeDelayed
  PROVE  EventInv'
  <1> DEFINE n == Len(listeners)
             T == [id : 1..MaxDelays, occurrence : Occurrences,
                   next : 1..MaxListeners, resumed : BOOLEAN]
  <1>1. PICK d \in delayed :
          /\ delayed' = (delayed \ {d}) \cup {[d EXCEPT !.resumed = TRUE]}
          /\ FireEvent(d.occurrence, "DELAY", d.next)
          /\ redone' = redone \cup {d.occurrence}
    BY DEF ResumeDelayed
  <1> DEFINE e == [d EXCEPT !.resumed = TRUE]
  <1>2. /\ finalized = TRUE
        /\ UNCHANGED <<listeners, finalized, paused, interrupt_state, published,
                       passed, cancelled>>
    BY DEF ResumeDelayed, Free, EventInv, TypeOK
  <1>3. /\ d \in T /\ d.occurrence \in Occurrences
        /\ d.next \in 1..(MaxListeners + 1)
        /\ d.occurrence <= published /\ d.next <= passed[d.occurrence] + 1
    BY DelayOwns
  <1>4. e \in T /\ e.occurrence = d.occurrence /\ e.next = d.next
    BY <1>3
  <1>5. delayed' = (delayed \ {d}) \cup {e}
    BY <1>1
  <1> HIDE DEF e
  <1>6. /\ delayed' \subseteq T
        /\ \A c \in delayed' : \E b \in delayed : /\ c.occurrence = b.occurrence
                                                  /\ c.next = b.next
        /\ redone \subseteq redone' /\ redone' \subseteq Occurrences
    BY <1>1, <1>3, <1>4, <1>5 DEF EventInv, TypeOK
  <1>7. ASSUME NEW q \in Occurrences \ redone'
        PROVE  q # d.occurrence /\ DelaysIn(delayed', q) = DelaysIn(delayed, q)
    BY <1>1, <1>4, <1>5 DEF DelaysIn
  <1>8. UNCHANGED paused
    BY <1>2
  <1> QED
    BY <1>1, <1>2, <1>3, <1>6, <1>7, <1>8, Continues

(* A pause likewise, also one behind the last listener. *)
LEMMA PauseOwns ==
  ASSUME EventInv, NEW p \in paused
  PROVE  /\ p.occurrence \in Occurrences /\ p.next \in 1..(MaxListeners + 1)
         /\ p.occurrence <= published /\ p.next <= passed[p.occurrence] + 1
         /\ p.occurrence \notin redone =>
              /\ p.next = passed[p.occurrence] + 1
              /\ FrameIn(stack, Len(listeners), p.occurrence) = {}
              /\ PausesIn(paused, Len(listeners), p.occurrence) \subseteq {p}
              /\ DelaysIn(delayed, p.occurrence) = {}
              /\ p.next > Len(listeners) <=>
                   p.occurrence \in cancelled
                     \/ passed[p.occurrence] = Len(listeners)
  <1> DEFINE o == p.occurrence
             n == Len(listeners)
  <1>1. o \in Occurrences /\ p.next \in 1..(MaxListeners + 1)
    BY DEF EventInv, TypeOK
  <1>2. o <= published /\ p.next <= passed[o] + 1 /\ passed[o] <= n
    BY <1>1 DEF EventInv, Known, NotAhead
  <1>3. p.next \in Nat /\ n \in Nat /\ passed[o] \in Nat
    BY <1>1, Numbers
  <1>4. ASSUME o \notin redone
        PROVE  /\ p.next = passed[o] + 1 /\ FrameIn(stack, n, o) = {}
               /\ PausesIn(paused, n, o) \subseteq {p}
               /\ DelaysIn(delayed, o) = {}
               /\ p.next > n <=> o \in cancelled \/ passed[o] = n
    <2>1. o \in (1..published) \ redone
      BY <1>1, <1>2, <1>4, Numbers DEF Occurrences
    <2>2. (o \in cancelled \/ passed[o] = n) <=>
            /\ FrameIn(stack, n, o) = {} /\ PausesIn(paused, n, o) = {}
            /\ DelaysIn(delayed, o) = {}
      BY <2>1 DEF EventInv, Held
    <2>3. CASE p.next > n
      <3>1. passed[o] = n /\ p.next = passed[o] + 1
        BY <1>2, <1>3, <2>3
      <3> QED
        BY <2>2, <2>3, <3>1
    <2>4. CASE ~(p.next > n)
      <3>1. p \in PausesIn(paused, n, o)
        BY <1>3, <2>4 DEF PausesIn
      <3>2. p.next = passed[o] + 1
        BY <1>1, <1>4, <3>1 DEF EventInv, NotBehind
      <3>3. AtMostOne(FrameIn(stack, n, o), PausesIn(paused, n, o),
                      DelaysIn(delayed, o))
        BY <1>1, <1>4 DEF EventInv, Disjoint
      <3> QED
        BY <2>2, <2>4, <3>1, <3>2, <3>3 DEF AtMostOne
    <2> QED
      BY <2>3, <2>4
  <1> QED
    BY <1>1, <1>2, <1>4

\* So does resuming a paused event.
LEMMA ResumePausedInv ==
  ASSUME EventInv, ResumePaused
  PROVE  EventInv'
  <1> DEFINE n == Len(listeners)
  <1>1. PICK p \in paused : /\ paused' = paused \ {p}
                            /\ FireEvent(p.occurrence, "PAUSE", p.next)
    BY DEF ResumePaused
  <1>2. /\ finalized = TRUE
        /\ UNCHANGED <<listeners, finalized, delayed, interrupt_state,
                       published, passed, cancelled, redone>>
    BY DEF ResumePaused, Free, EventInv, TypeOK
  <1>3. /\ p.occurrence \in Occurrences /\ p.next \in 1..(MaxListeners + 1)
        /\ p.occurrence <= published /\ p.next <= passed[p.occurrence] + 1
        /\ p.occurrence \notin redone =>
             /\ p.next = passed[p.occurrence] + 1
             /\ FrameIn(stack, n, p.occurrence) = {}
             /\ PausesIn(paused, n, p.occurrence) \subseteq {p}
             /\ DelaysIn(delayed, p.occurrence) = {}
             /\ p.next > n <=>
                  p.occurrence \in cancelled \/ passed[p.occurrence] = n
    BY PauseOwns
  <1>4. /\ delayed' \subseteq [id : 1..MaxDelays, occurrence : Occurrences,
                               next : 1..MaxListeners, resumed : BOOLEAN]
        /\ \A e \in delayed' : e \in delayed
        /\ redone \subseteq Occurrences /\ paused' \subseteq paused
    BY <1>1, <1>2 DEF EventInv, TypeOK
  <1>5. ASSUME NEW q \in Occurrences \ redone
        PROVE  /\ q # p.occurrence =>
                    PausesIn(paused', n, q) = PausesIn(paused, n, q)
               /\ q = p.occurrence => PausesIn(paused', n, q) = {}
    BY <1>1, <1>3 DEF PausesIn
  <1> QED
    BY <1>1, <1>2, <1>3, <1>4, <1>5, Continues
\* So does publishing, from the loop or from a listener.
LEMMA PublishInv ==
  ASSUME EventInv, Publish
  PROVE  EventInv'
  <1> DEFINE n == Len(listeners)
             top == Len(stack) + 1
             new == published + 1
  <1>1. /\ finalized = TRUE /\ published' = new /\ published < MaxPublish
        /\ FireEvent(new, "NONE", 1)
        /\ UNCHANGED <<listeners, finalized, paused, delayed, interrupt_state,
                       passed, cancelled, redone>>
    BY DEF Publish, Free, EventInv, TypeOK
  <1>2. /\ TypeOK /\ n \in Nat /\ published \in Nat /\ MaxPublish \in Nat
        /\ \A q \in Occurrences : q \in Nat /\ passed[q] \in Nat
        /\ \A i \in 1..Len(stack) : stack[i].occurrence \in Occurrences
        /\ \A p \in paused : p.occurrence \in Occurrences
        /\ \A d \in delayed : d.occurrence \in Occurrences
    BY Numbers DEF EventInv
  <1>3. new \in Occurrences /\ new \in Nat /\ new \in 0..MaxPublish
        /\ 1 \in 1..(MaxListeners + 1)
    BY <1>1, <1>2, EventAssumption DEF Occurrences
  <1>4. /\ stack' \in Seq(Frames) /\ Len(stack') = top /\ Len(stack) \in Nat
        /\ \A i \in 1..Len(stack) : stack'[i] = stack[i]
        /\ stack'[top].occurrence = new /\ stack'[top].cur = 1
        /\ ~stack'[top].running
        /\ aborted' \in BOOLEAN
        /\ \A q : FrameIn(stack', n, q) =
                  FrameIn(stack, n, q) \cup {i \in {top} : new = q /\ 1 <= n}
    BY <1>1, <1>3, FirePushed
  <1>5. \A i \in 1..top : i = top \/ i \in 1..Len(stack)
    BY <1>4
  <1>6. /\ FrameIn(stack, n, new) = {} /\ PausesIn(paused, n, new) = {}
        /\ DelaysIn(delayed, new) = {}
        /\ passed[new] = 0 /\ new \notin cancelled
    <2>1. /\ \A i \in 1..Len(stack) : stack[i].occurrence <= published
          /\ \A p \in paused : p.occurrence <= published
          /\ \A d \in delayed : d.occurrence <= published
          /\ new > published => passed[new] = 0 /\ new \notin cancelled
      BY <1>3 DEF EventInv, Known
    <2>2. new > published /\ \A m \in Nat : m <= published => m # new
      BY <1>2
    <2> QED
      BY <1>2, <2>1, <2>2 DEF FrameIn, PausesIn, DelaysIn
  <1> HIDE DEF new
  <1>7. TypeOK'
    BY <1>1, <1>2, <1>3, <1>4 DEF TypeOK
  <1>8. NotFired' /\ Numbered'
    BY <1>1 DEF EventInv, NotFired, Numbered
  <1>9. InArray'
    BY <1>1, <1>4, <1>5 DEF EventInv, InArray
  <1>10. Known'
    <2>1. \A m \in Nat : /\ m <= published => m <= new
                         /\ m > new => m > published
      BY <1>2 DEF new
    <2>2. new <= new
      BY <1>3
    <2>3. /\ \A i \in 1..Len(stack') : stack'[i].occurrence <= new
          /\ \A p \in paused : p.occurrence <= new
          /\ \A d \in delayed : d.occurrence <= new /\ d.next <= n
      BY <1>2, <1>4, <1>5, <2>1, <2>2 DEF EventInv, Known
    <2>4. \A o \in Occurrences :
            /\ passed[o] <= n
            /\ o > new => passed[o] = 0 /\ o \notin cancelled
      BY <1>2, <2>1 DEF EventInv, Known
    <2> QED
      BY <1>1, <2>3, <2>4 DEF Known
  <1>11. NotAhead'
    BY <1>1, <1>4, <1>5, <1>6 DEF EventInv, NotAhead
  <1>12. NotBehind'
    <2> SUFFICES ASSUME NEW q \in Occurrences \ redone,
                        NEW i \in FrameIn(stack', n, q)
                 PROVE  stack'[i].cur = passed[q] + 1
      BY <1>1 DEF EventInv, NotBehind
    <2>1. CASE i \in FrameIn(stack, n, q)
      <3>1. stack[i].cur = passed[q] + 1 /\ stack'[i] = stack[i]
        BY <1>4, <2>1 DEF EventInv, NotBehind, FrameIn
      <3> QED
        BY <3>1
    <2>2. CASE i = top /\ new = q
      BY <1>4, <1>6, <2>2
    <2> QED
      BY <1>4, <2>1, <2>2
  <1>13. Disjoint'
    <2> SUFFICES ASSUME NEW q \in Occurrences \ redone
                 PROVE  AtMostOne(FrameIn(stack', n, q), PausesIn(paused, n, q),
                                  DelaysIn(delayed, q))
      BY <1>1 DEF Disjoint
    <2>1. AtMostOne(FrameIn(stack, n, q), PausesIn(paused, n, q),
                    DelaysIn(delayed, q))
      BY DEF EventInv, Disjoint
    <2>2. CASE q = new
      BY <1>4, <1>6, <2>2 DEF AtMostOne
    <2>3. CASE q # new
      BY <1>4, <2>1, <2>3 DEF AtMostOne
    <2> QED
      BY <2>2, <2>3
  <1>14. Held'
    <2> SUFFICES ASSUME NEW q \in (1..new) \ redone
                 PROVE (q \in cancelled \/ passed[q] = n) <=>
                         /\ FrameIn(stack', n, q) = {}
                         /\ PausesIn(paused, n, q) = {}
                         /\ DelaysIn(delayed, q) = {}
      BY <1>1 DEF Held
    <2>1. CASE q = new
      <3>1. FrameIn(stack', n, q) = {} <=> ~(1 <= n)
        BY <1>4, <1>6, <2>1
      <3>2. ~(1 <= n) <=> 0 = n
        BY <1>2
      <3> QED
        BY <1>6, <2>1, <3>1, <3>2
    <2>2. CASE q # new
      <3>1. q \in (1..published) \ redone
        BY <1>2, <2>2 DEF new
      <3>2. FrameIn(stack', n, q) = FrameIn(stack, n, q)
        BY <1>4, <2>2
      <3> QED
        BY <3>1, <3>2 DEF EventInv, Held
    <2> QED
      BY <2>1, <2>2
  <1> QED
    BY <1>7, <1>8, <1>9, <1>10, <1>11, <1>12, <1>13, <1>14 DEF EventInv

(* Registration: the new array, and nothing has been fired yet. *)
LEMMA ListenInv ==
  ASSUME EventInv, ListenersOrdered, NEW priority \in Priorities,
         Listen(priority)
  PROVE  EventInv' /\ ListenersOrdered'
  <1> DEFINE n == Len(listeners)
             k == Position(priority)
             e == [number |-> n + 1, priority |-> priority]
             R == [number : 1..MaxListeners, priority : Priorities]
  <1>1. /\ ~finalized /\ n < MaxListeners
        /\ listeners' = InsertAt(listeners, k, e)
        /\ UNCHANGED <<finalized, stack, paused, delayed, interrupt_state,
                       aborted, published, passed, cancelled, redone>>
    BY DEF Listen
  <1>2. /\ TypeOK /\ listeners \in Seq(R) /\ n \in Nat /\ MaxListeners \in Nat
        /\ \A i \in 1..n : /\ listeners[i].priority \in Int
                           /\ listeners[i].number \in Int
                           /\ listeners[i].priority \in Priorities
                           /\ listeners[i].number <= n
    BY ListenersType, EventAssumption DEF EventInv, TypeOK, Numbered
  <1>3. /\ e \in R /\ e.number = n + 1 /\ e.priority = priority
    BY <1>1, <1>2
  <1>4. \A x \in Priorities : x \in Int /\ x >= LAST_PRIORITY
    <2>1. \A x \in LAST_PRIORITY..FIRST_PRIORITY :
            x \in Int /\ x >= LAST_PRIORITY
      BY DEF LAST_PRIORITY, FIRST_PRIORITY
    <2> QED
      BY <2>1, EventAssumption
  <1>5. /\ k \in 1..(n + 1)
        /\ priority # LAST_PRIORITY =>
             /\ k <= n => priority >= listeners[k].priority
             /\ \A j \in 1..(k - 1) : priority < listeners[j].priority
        /\ priority = LAST_PRIORITY => k = n + 1
    <2>1. CASE priority = LAST_PRIORITY
      <3>1. k = n + 1
        BY <2>1 DEF Position
      <3> QED
        BY <1>2, <2>1, <3>1
    <2>2. CASE priority # LAST_PRIORITY
      BY <1>2, <2>2, PositionFound
    <2> QED
      BY <2>1, <2>2
  <1> HIDE DEF k, e, R
  <1>6. /\ listeners' \in Seq(R) /\ Len(listeners') = n + 1
        /\ \A i \in 1..(k - 1) : listeners'[i] = listeners[i]
        /\ listeners'[k] = e
        /\ \A i \in (k + 1)..(n + 1) : listeners'[i] = listeners[i - 1]
    BY <1>1, <1>2, <1>3, <1>5, InsertAtProperties
  <1>7. /\ stack = <<>> /\ paused = {} /\ delayed = {} /\ published = 0
        /\ passed = [o \in Occurrences |-> 0] /\ Len(stack) = 0
    BY <1>1 DEF EventInv, NotFired
  <1>8. TypeOK'
    BY <1>1, <1>2, <1>6 DEF TypeOK, R
  <1>9. NotFired' /\ InArray'
    BY <1>1, <1>7 DEF NotFired, InArray
  <1>10. \A i \in 1..(n + 1) : \/ i \in 1..(k - 1) /\ i \in 1..n
                               \/ i = k
                               \/ i \in (k + 1)..(n + 1) /\ i - 1 \in 1..n
    BY <1>2, <1>5
  <1>11. Numbered'
    <2> SUFFICES ASSUME NEW i \in 1..(n + 1)
                 PROVE  listeners'[i].number <= n + 1
      BY <1>6 DEF Numbered
    <2>1. CASE i = k
      BY <1>2, <1>3, <1>6, <2>1
    <2>2. CASE i # k
      <3>1. PICK j \in 1..n : listeners'[i] = listeners[j]
        BY <1>6, <1>10, <2>2
      <3> QED
        BY <1>2, <3>1
    <2> QED
      BY <2>1, <2>2
  <1>12. Known' /\ NotAhead'
    <2>1. \A o \in Occurrences : passed[o] = 0
      BY <1>7
    <2> QED
      BY <1>1, <1>2, <1>6, <1>7, <2>1 DEF Known, NotAhead, EventInv
  <1>13. \A o, m : /\ FrameIn(stack, m, o) = {} /\ PausesIn(paused, m, o) = {}
                  /\ DelaysIn(delayed, o) = {}
    BY <1>7 DEF FrameIn, PausesIn, DelaysIn
  <1>14. NotBehind' /\ Disjoint'
    BY <1>1, <1>13 DEF NotBehind, Disjoint, AtMostOne
  <1>15. Held'
    BY <1>1, <1>7 DEF Held
  <1>16. ListenersOrdered'
    <2> DEFINE Before(a, b) == \/ a.priority > b.priority
                               \/ /\ a.priority = b.priority
                                  /\ (a.number < b.number
                                        <=> a.priority = LAST_PRIORITY)
    <2> SUFFICES ASSUME NEW i \in 1..(n + 1), NEW j \in 1..(n + 1), i < j
                 PROVE  Before(listeners'[i], listeners'[j])
      BY <1>6 DEF ListenersOrdered
    <2>1. \A a, b \in 1..n : a < b => Before(listeners[a], listeners[b])
      BY DEF ListenersOrdered
    <2>2. CASE i # k /\ j # k
      <3>1. PICK a \in 1..n, b \in 1..n : /\ listeners'[i] = listeners[a]
                                          /\ listeners'[j] = listeners[b]
                                          /\ a < b
        <4>1. CASE i \in 1..(k - 1) /\ j \in 1..(k - 1)
          <5>1. /\ i \in 1..n /\ j \in 1..n
                /\ listeners'[i] = listeners[i]
                /\ listeners'[j] = listeners[j]
            BY <1>2, <1>5, <1>6, <4>1
          <5> QED
            BY <5>1
        <4>2. CASE i \in 1..(k - 1) /\ j \in (k + 1)..(n + 1)
          <5>1. /\ i \in 1..n /\ j - 1 \in 1..n /\ i < j - 1
                /\ listeners'[i] = listeners[i]
                /\ listeners'[j] = listeners[j - 1]
            BY <1>2, <1>5, <1>6, <4>2
          <5> QED
            BY <5>1
        <4>3. CASE i \in (k + 1)..(n + 1)
          <5>1. /\ i - 1 \in 1..n /\ j - 1 \in 1..n /\ i - 1 < j - 1
                /\ listeners'[i] = listeners[i - 1]
                /\ listeners'[j] = listeners[j - 1]
            BY <1>2, <1>5, <1>6, <4>3
          <5> QED
            BY <5>1
        <4> QED
          BY <1>5, <1>10, <2>2, <4>1, <4>2, <4>3
      <3> QED
        BY <2>1, <3>1
    <2>3. CASE i = k
      <3>1. /\ j - 1 \in 1..n /\ listeners'[j] = listeners[j - 1]
            /\ k <= n /\ k <= j - 1 /\ k \in 1..n
        BY <1>2, <1>5, <1>6, <2>3
      <3>2. priority # LAST_PRIORITY /\ priority >= listeners[k].priority
        BY <1>2, <1>5, <3>1
      <3>3. listeners[j - 1].priority <= listeners[k].priority
        <4>1. CASE k = j - 1
          BY <1>2, <3>1, <4>1
        <4>2. CASE k < j - 1
          BY <1>2, <2>1, <3>1, <4>2
        <4> QED
          BY <1>2, <3>1, <4>1, <4>2
      <3>4. /\ priority >= listeners[j - 1].priority
            /\ ~(n + 1 < listeners[j - 1].number)
        BY <1>2, <1>4, <3>1, <3>2, <3>3
      <3> QED
        BY <1>2, <1>3, <1>4, <1>6, <2>3, <3>1, <3>2, <3>4
    <2>4. CASE j = k
      <3>1. i \in 1..n /\ i \in 1..(k - 1) /\ listeners'[i] = listeners[i]
        BY <1>2, <1>5, <1>6, <2>4
      <3>2. CASE priority # LAST_PRIORITY
        BY <1>2, <1>3, <1>4, <1>5, <1>6, <2>4, <3>1, <3>2
      <3>3. CASE priority = LAST_PRIORITY
        <4>1. /\ listeners[i].priority >= LAST_PRIORITY
              /\ listeners[i].number < n + 1
          BY <1>2, <1>4, <3>1
        <4> QED
          BY <1>2, <1>3, <1>4, <1>6, <2>4, <3>1, <3>3, <4>1
      <3> QED
        BY <3>2, <3>3
    <2> QED
      BY <2>2, <2>3, <2>4
  <1> QED
    BY <1>8, <1>9, <1>11, <1>12, <1>14, <1>15, <1>16 DEF EventInv
(* Steps after registration leave the array alone. *)
LEMMA FinalizeInv ==
  ASSUME EventInv, Finalize
  PROVE  EventInv'
  <1>1. /\ finalized' = TRUE
        /\ UNCHANGED <<listeners, stack, paused, delayed, interrupt_state,
                       aborted, published, passed, cancelled, redone>>
    BY DEF Finalize
  <1>2. TypeOK'
    BY <1>1 DEF EventInv, TypeOK
  <1>3. NotFired' /\ Numbered' /\ InArray' /\ Known' /\ NotAhead'
    BY <1>1 DEF EventInv, NotFired, Numbered, InArray, Known, NotAhead
  <1>4. NotBehind' /\ Disjoint' /\ Held'
    BY <1>1 DEF EventInv, NotBehind, Disjoint, Held
  <1> QED
    BY <1>2, <1>3, <1>4 DEF EventInv

\* The invariant holds before anything was added or published.
LEMMA EventInit == Init => EventInv /\ ListenersOrdered
  <1> SUFFICES ASSUME Init PROVE EventInv /\ ListenersOrdered
    OBVIOUS
  <1>1. /\ Len(listeners) = 0 /\ Len(stack) = 0 /\ paused = {} /\ delayed = {}
        /\ published = 0 /\ \A o \in Occurrences : passed[o] = 0
    BY DEF Init
  <1>2. TypeOK
    <2>1. MaxListeners \in Nat /\ MaxPublish \in Nat
      BY EventAssumption
    <2>2. /\ 0 \in 0..MaxPublish /\ 0 <= MaxListeners
          /\ passed \in [Occurrences -> 0..MaxListeners]
      BY <2>1 DEF Init
    <2>3. finalized \in BOOLEAN /\ aborted \in BOOLEAN
      BY Zenon DEF Init
    <2>4. /\ listeners \in Seq([number : 1..MaxListeners,
                                priority : Priorities])
          /\ stack \in Seq(Frames)
      BY DEF Init
    <2>5. /\ paused \in SUBSET [occurrence : Occurrences,
                                next : 1..(MaxListeners + 1)]
          /\ delayed \in SUBSET [id : 1..MaxDelays, occurrence : Occurrences,
                                 next : 1..MaxListeners, resumed : BOOLEAN]
          /\ interrupt_state \in Interrupts \cup {"NONE"}
          /\ cancelled \subseteq Occurrences /\ redone \subseteq Occurrences
      BY DEF Init
    <2> QED
      BY <1>1, <2>2, <2>3, <2>4, <2>5 DEF TypeOK
  <1>3. NotFired /\ Numbered /\ InArray /\ NotAhead /\ ListenersOrdered
    BY <1>1 DEF Init, NotFired, Numbered, InArray, NotAhead, ListenersOrdered
  <1>4. Known
    BY <1>1 DEF Init, Known
  <1>5. \A o, m : /\ FrameIn(stack, m, o) = {} /\ PausesIn(paused, m, o) = {}
                 /\ DelaysIn(delayed, o) = {}
    BY <1>1 DEF FrameIn, PausesIn, DelaysIn
  <1>6. NotBehind /\ Disjoint
    BY <1>5 DEF NotBehind, Disjoint, AtMostOne
  <1>7. Held
    BY <1>1 DEF Held
  <1> QED
    BY <1>2, <1>3, <1>4, <1>6, <1>7 DEF EventInv

\* Every step keeps the invariant and the order of the listeners.
LEMMA EventStep == EventInv /\ ListenersOrdered /\ [Next]_vars
                     => EventInv' /\ ListenersOrdered'
  <1> SUFFICES ASSUME EventInv, ListenersOrdered, [Next]_vars
               PROVE  EventInv' /\ ListenersOrdered'
    OBVIOUS
  <1>1. ASSUME NEW priority \in Priorities, Listen(priority)
        PROVE  EventInv' /\ ListenersOrdered'
    BY <1>1, ListenInv
  <1>2. ASSUME UNCHANGED listeners
        PROVE  ListenersOrdered'
    BY <1>2 DEF ListenersOrdered
  <1>3. CASE Finalize
    BY <1>2, <1>3, FinalizeInv DEF Finalize
  <1>4. CASE Publish
    BY <1>2, <1>4, PublishInv DEF Publish
  <1>5. CASE CallListener
    BY <1>2, <1>5, CallListenerInv DEF CallListener
  <1>6. CASE ListenerReturns
    BY <1>2, <1>6, ListenerReturnsInv DEF ListenerReturns
  <1>7. CASE InterruptingListenerReturns
    BY <1>2, <1>7, InterruptingListenerReturnsInv
    DEF InterruptingListenerReturns
  <1>8. CASE FireReturns
    BY <1>2, <1>8, FireReturnsInv DEF FireReturns
  <1>9. CASE Cancel
    BY <1>2, <1>9, CancelInv DEF Cancel
  <1>10. CASE Pause
    BY <1>2, <1>10, PauseInv DEF Pause
  <1>11. CASE Delay
    BY <1>2, <1>11, DelayInv DEF Delay
  <1>12. CASE DelayTimer
    BY <1>2, <1>12, DelayTimerInv DEF DelayTimer
  <1>13. CASE ResumeDelayed
    BY <1>2, <1>13, ResumeDelayedInv DEF ResumeDelayed
  <1>14. CASE ResumePaused
    BY <1>2, <1>14, ResumePausedInv DEF ResumePaused
  <1>15. CASE UNCHANGED vars
    <2>1. UNCHANGED <<listeners, finalized, stack, paused, delayed,
                      interrupt_state, aborted, published, passed, cancelled,
                      redone>>
      BY <1>15 DEF vars
    <2>2. TypeOK' /\ NotFired' /\ Numbered' /\ InArray' /\ Known' /\ NotAhead'
      BY <2>1
      DEF EventInv, TypeOK, NotFired, Numbered, InArray, Known, NotAhead
    <2>3. NotBehind' /\ Disjoint' /\ Held'
      BY <2>1 DEF EventInv, NotBehind, Disjoint, Held
    <2> QED
      BY <1>2, <2>1, <2>2, <2>3 DEF EventInv
  <1> QED
    BY <1>1, <1>3, <1>4, <1>5, <1>6, <1>7, <1>8, <1>9, <1>10, <1>11, <1>12,
       <1>13, <1>14, <1>15 DEF Next

(* The invariant holds in every state of an event's life. *)
LEMMA EventInvariant == Spec => [](EventInv /\ ListenersOrdered)
  BY EventInit, EventStep, PTL DEF Spec

-----------------------------------------------------------------------------
(******************************** theorems *********************************)

(* Lists, structures and histories keep their shapes: no listener index    *)
(* that fire_event stores leaves the array.                                *)
THEOREM EventTypeCorrect == Spec => []TypeOK
  <1>1. EventInv => TypeOK
    BY DEF EventInv
  <1> QED
    BY <1>1, EventInvariant, PTL

(* The array is in order of priority however many listeners register, in   *)
(* whatever order, with whatever priorities.                               *)
THEOREM EventListenersOrdered == Spec => []ListenersOrdered
  BY EventInvariant, PTL

(* fire_event calls the listeners of an occurrence in order, leaving none  *)
(* out and repeating none, for every nesting of firings, pauses, delays    *)
(* and cancellations.                                                      *)
THEOREM EventNextInOrder == Spec => []NextInOrder
  <1>1. EventInv => NextInOrder
    <2> SUFFICES ASSUME EventInv, Calling, Top.interrupt = "NONE"
                 PROVE  \/ Top.cur = passed[Top.occurrence] + 1
                        \/ /\ Top.occurrence \in redone
                           /\ Top.cur <= passed[Top.occurrence]
      BY DEF NextInOrder
    <2>1. /\ Top.cur \in Nat /\ Top.occurrence \in Occurrences
          /\ Top.cur <= passed[Top.occurrence] + 1
          /\ Top.occurrence \notin redone =>
               Top.cur = passed[Top.occurrence] + 1
      BY CallingOwns
    <2>2. passed[Top.occurrence] \in Nat
      BY <2>1, Numbers
    <2> QED
      BY <2>1, <2>2
  <1> QED
    BY <1>1, EventInvariant, PTL

(* An occurrence with listeners left is held by exactly one firing, pause  *)
(* or delay, and a finished one by none: an interrupted event is neither   *)
(* lost nor run twice.                                                     *)
THEOREM EventOneOwner == Spec => []OneOwner
  <1>1. EventInv => OneOwner
    <2> SUFFICES ASSUME EventInv, NEW o \in (1..published) \ redone
                 PROVE  Cardinality(Frame(o)) + Cardinality(Pauses(o))
                          + Cardinality(Delays(o))
                        = IF Finished(o) THEN 0 ELSE 1
      BY DEF OneOwner
    <2>1. /\ Frame(o) = FrameIn(stack, Len(listeners), o)
          /\ Pauses(o) = PausesIn(paused, Len(listeners), o)
          /\ Delays(o) = DelaysIn(delayed, o)
          /\ Finished(o) <=> o \in cancelled \/ passed[o] = Len(listeners)
      <3>1. DOMAIN stack = 1..Len(stack)
        BY DEF EventInv, TypeOK
      <3> QED
        BY <3>1, Zenon
        DEF Frame, Pauses, Delays, FrameIn, PausesIn, DelaysIn, Finished
    <2>2. o \in Occurrences
      BY Numbers DEF Occurrences
    <2>3. AtMostOne(Frame(o), Pauses(o), Delays(o))
      BY <2>1, <2>2 DEF EventInv, Disjoint
    <2>4. Finished(o) <=> Frame(o) = {} /\ Pauses(o) = {} /\ Delays(o) = {}
      BY <2>1 DEF EventInv, Held
    <2>5. \A S : (\A x, y \in S : x = y) =>
                  Cardinality(S) = IF S = {} THEN 0 ELSE 1
      <3> SUFFICES ASSUME NEW S, \A x, y \in S : x = y
                   PROVE  Cardinality(S) = IF S = {} THEN 0 ELSE 1
        OBVIOUS
      <3>1. CASE S = {}
        BY <3>1, FS_EmptySet
      <3>2. CASE S # {}
        <4>1. PICK x : S = {x}
          BY <3>2
        <4> QED
          BY <3>2, <4>1, FS_Singleton
      <3> QED
        BY <3>1, <3>2
    <2>6. /\ Cardinality(Frame(o)) = IF Frame(o) = {} THEN 0 ELSE 1
          /\ Cardinality(Pauses(o)) = IF Pauses(o) = {} THEN 0 ELSE 1
          /\ Cardinality(Delays(o)) = IF Delays(o) = {} THEN 0 ELSE 1
      BY <2>3, <2>5 DEF AtMostOne
    <2> QED
      BY <2>3, <2>4, <2>6 DEF AtMostOne
  <1> QED
    BY <1>1, EventInvariant, PTL
=============================================================================
