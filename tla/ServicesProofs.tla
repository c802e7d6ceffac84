--------------------------- MODULE ServicesProofs ---------------------------
(***************************************************************************)
(* The startup of the server is sound (module Server): proofs for every    *)
(* number of bindings and of workers, and whatever goes wrong.             *)
(*                                                                         *)
(* The manager is at one step of a long conversation with the master and   *)
(* the workers; the invariant says what each message and each descriptor   *)
(* in flight means for where the manager is.                               *)
(***************************************************************************)
EXTENDS Server, Resolver, FiniteSetTheorems, SequenceTheorems, WellFoundedInduction, TLAPS

\* The startup without its liveness.
ServerSpec == ServerInit /\ [][ServerNext]_serverVars

Mgr == spc[SManager]
\* Until it has all sockets, the manager asks for them ...
Asking == {"off", "resolve", "unresolved", "request", "response", "receive"}
\* ... and then gives them to the workers.
Giving == {"give", "answer", "done_worker"}
Bound == {"request", "response", "receive", "give", "answer"}

\* The sockets the master opens for a binding.
FdsOf(b) == {(b - 1) * NSWorkers + i : i \in 1..NSWorkers}
\* The pairs of binding and descriptor a worker listens on.
Pairs(w) == {<<l.b, l.fd>> : l \in listening[w]}
Serves(w, b) == \E x \in Pairs(w) : x[1] = b
Complete(w) == \A b \in Bindings : Serves(w, b)
\* The descriptors in the queue of the receiver, without the timeout's 0.
Zero == \E i \in DOMAIN fdq : fdq[i] = 0
Queueing == IF Zero THEN Len(fdq) - 1 ELSE Len(fdq)
NoFds == \A i \in DOMAIN fdq : fdq[i] = 0
\* The messages from p to q in the channels c.
Ch(c, p, q) == c[<<p, q>>]
\* The i-th message from p to q is a t: in the channels c, and now.
In(c, p, q, i, t) == i \in DOMAIN Ch(c, p, q) /\ Ch(c, p, q)[i][1] = t
Is(p, q, i, t) == In(chan, p, q, i, t)

\* Kinds of messages that the invariant follows.
Request == {"sockets"}
Socket == {"socket"}
Answers == {"ok", "not ok"}
Done == {"done"}
Started == {"started"}
Start == {"start"}

Pcs == Asking \cup Giving \cup {"done_master", "done", "failed", "wait", "sent",
                                 "counted"}
Tags == {"sockets", "count", "ok", "not ok", "socket", "done", "start", "started"}
SMsgs == Tags \X (Int \cup (Int \X Int))
Chans == [SProcs \X SProcs -> Seq(SMsgs)]
Listeners == [b : Bindings, fd : Int, on : BOOLEAN]
ServerTypes ==
  /\ spc \in [SProcs -> Pcs]
  /\ chan \in Chans
  /\ fdq \in Seq(Int)
  /\ socks \in [Bindings -> SUBSET Int]
  /\ want \in [b : Int, w : SWorkers, n : Int, timer : BOOLEAN]
  /\ listening \in [SWorkers -> SUBSET Listeners]
  /\ shared \in [aborted : BOOLEAN, done : Nat]
  /\ finished \in [SProcs -> BOOLEAN]
  /\ srun \in [SProcs -> {"running", "stopping", "closing", "stopped"}]
  /\ starts \in [SProcs -> Nat]

\* Which binding and which worker the manager is at.
AtInv ==
  /\ Mgr \in Asking \cup Giving \cup {"done_master", "done", "failed"}
  /\ Mgr \in Bound => want.b \in Bindings
  /\ Mgr \in {"off", "resolve", "done_worker"} => want.b = 1
  /\ Mgr \in Asking => want.w = 0

\* A request for sockets, the answer to it, and the descriptors that follow.
AskInv ==
  /\ \A i, j \in Nat : Is(SManager, SMaster, i, "sockets")
                         /\ Is(SManager, SMaster, j, "sockets") => i = j
  /\ \A i \in Nat : Is(SManager, SMaster, i, "sockets") =>
       /\ Mgr = "response" /\ Ch(chan, SManager, SMaster)[i][2] = want.b
       /\ Ch(chan, SMaster, SManager) = <<>> /\ NoFds
  /\ Ch(chan, SMaster, SManager) # <<>> =>
       /\ Mgr = "response" /\ Len(Ch(chan, SMaster, SManager)) = 1
       /\ Ch(chan, SMaster, SManager)[1][2] = Queueing
  /\ Mgr = "receive" => want.n = Queueing
  /\ Mgr \notin {"response", "receive", "failed"} => NoFds
  /\ Mgr \in {"response", "receive"} =>
       \A i \in DOMAIN fdq : fdq[i] \in FdsOf(want.b) \cup {0}
  /\ Zero => ~want.timer
  /\ \A i, j \in DOMAIN fdq : fdq[i] = 0 /\ fdq[j] = 0 => i = j

\* How many sockets of a binding have left the manager.
Given(b) ==
  IF Mgr = "done_worker" \/ b < want.b \/ (b = want.b /\ Mgr = "answer")
  THEN want.w + 1 ELSE want.w
SockInv ==
  /\ \A b \in Bindings : socks[b] \subseteq FdsOf(b)
  /\ Mgr \in Asking => \A w \in SWorkers : listening[w] = {}
  /\ Mgr \in Giving =>
       \A b \in Bindings : Cardinality(socks[b]) + Given(b) <= NSWorkers
  /\ Mgr \in {"done_master", "done"} => \A b \in Bindings : socks[b] = {}

\* A descriptor is with the manager, on its way or with one worker.
OwnInv ==
  /\ \A w \in SWorkers : \A x \in Pairs(w) :
       x[1] \in Bindings /\ x[2] \in FdsOf(x[1]) /\ x[2] \notin socks[x[1]]
  /\ \A v, w \in SWorkers : \A x \in Pairs(v), y \in Pairs(w) :
       x[2] = y[2] => v = w
  /\ \A w \in SWorkers : \A i \in Nat : Is(SManager, w, i, "socket") =>
       LET s == Ch(chan, SManager, w)[i][2]
       IN  /\ s \in Bindings \X Int /\ s[2] \in FdsOf(s[1])
           /\ s[2] \notin socks[s[1]]
           /\ \A v \in SWorkers : \A x \in Pairs(v) : x[2] # s[2]

\* A socket on its way to a worker, and its answer.
Answer(w, i) == Is(w, SManager, i, "ok") \/ Is(w, SManager, i, "not ok")
GiveInv ==
  /\ \A w \in SWorkers : \A i \in Nat : Is(SManager, w, i, "socket") =>
       /\ Mgr = "answer" /\ w = want.w /\ Ch(chan, SManager, w)[i][2][1] = want.b
       /\ \A j \in Nat : ~Answer(w, j) /\ (Is(SManager, w, j, "socket") => i = j)
  /\ \A w \in SWorkers : \A i \in Nat : Answer(w, i) =>
       /\ Mgr = "answer" /\ w = want.w
       /\ Is(w, SManager, i, "ok") => Serves(w, want.b)
       /\ \A j \in Nat : Answer(w, j) => i = j
  /\ Mgr \in {"give", "answer"} => \A b \in 1..(want.b - 1) : Serves(want.w, b)
  /\ Mgr = "done_worker" => Complete(want.w)

\* A worker says nothing but that.
Other == Tags \ {"ok", "not ok", "started"}
RouteInv == \A w \in SWorkers : \A i \in Nat : \A t \in Other :
              ~Is(w, SManager, i, t)

\* A worker is done when it is complete, and all are when that is known.
Over == {"done_master", "done", "failed"}
Passed(w) == w < want.w \/ Mgr \in Over
Counted == {w \in SWorkers : spc[w] # "wait" /\ Complete(w) /\ Passed(w)}
AllComplete == \A w \in SWorkers : Complete(w)
DoneSaid == \A w \in SWorkers : \A i \in Nat :
              Is(SManager, w, i, "done") => Complete(w) /\ Passed(w)
CountRight == shared.done <= Cardinality(Counted)
StartedSaid == \A w \in SWorkers : \A i \in Nat :
                 Is(w, SManager, i, "started") => AllComplete /\ Mgr \in Over
StartSaid == \A p \in SProcs : \A i \in Nat :
               Is(SManager, p, i, "start") => AllComplete
StartHeard == \A p \in SProcs : starts[p] > 0 => AllComplete
DoneInv == DoneSaid /\ CountRight /\ StartedSaid /\ StartSaid /\ StartHeard

\* What is left when the startup ends.
HostNames == Int \X {"name"}
EndInv ==
  /\ Mgr = "failed" \/ spc[SMaster] = "failed" => shared.aborted
  /\ finished[SManager] => Mgr \in {"done", "failed"}
  /\ finished[SMaster] => spc[SMaster] \in {"done", "failed"}
  /\ spc[SMaster] \in {"wait", "done"} => mfds = {}
  /\ Mgr \in {"response", "receive"} =>
       hosts \subseteq HostNames \cup {<<want.b, "host">>, <<want.b, "address">>}
  /\ Mgr \notin {"response", "receive", "failed"} => hosts \subseteq HostNames

ServerInv == /\ ServerTypes /\ AtInv /\ AskInv /\ SockInv /\ OwnInv /\ GiveInv
             /\ RouteInv /\ DoneInv /\ EndInv
-----------------------------------------------------------------------------
(* Processes, descriptors and messages.                                    *)

\* The processes are told apart by their numbers.
LEMMA Procs ==
  /\ SManager \in SProcs /\ SMaster \in SProcs /\ SManager # SMaster
  /\ \A w \in SWorkers : w \in SProcs /\ w # SManager /\ w # SMaster
  /\ 0 \in SWorkers /\ NSWorkers \in Nat \ {0} /\ NServers \in Nat
  /\ \A p \in SProcs : p = SManager \/ p = SMaster \/ p \in SWorkers
  /\ \A w \in SWorkers : w \in Int
  BY ServerAssumption DEF SProcs, SManager, SMaster, SWorkers

\* Bindings have sockets of their own.
LEMMA OwnFds ==
  ASSUME NEW b \in Bindings, NEW c \in Bindings, FdsOf(b) \cap FdsOf(c) # {}
  PROVE  b = c
<1>1. b \in Int /\ c \in Int /\ NSWorkers \in Nat \ {0}
  BY ServerAssumption DEF Bindings
<1>2. PICK i \in 1..NSWorkers, j \in 1..NSWorkers :
        (b - 1) * NSWorkers + i = (c - 1) * NSWorkers + j
  BY DEF FdsOf
<1>3. CASE b < c
  <2>1. c - 1 >= b /\ c - 1 \in Int /\ b \in Int
    BY <1>1, <1>3
  <2>2. (c - 1) * NSWorkers >= b * NSWorkers
    BY <2>1, <1>1, Z3
  <2>3. b * NSWorkers = (b - 1) * NSWorkers + NSWorkers
    BY <1>1, Z3
  <2>4. /\ (c - 1) * NSWorkers \in Int /\ b * NSWorkers \in Int
        /\ (b - 1) * NSWorkers \in Int
    BY <1>1
  <2> HIDE DEF Bindings
  <2>5. FALSE
    BY <1>1, <1>2, <2>2, <2>3, <2>4
  <2> QED
    BY <2>5
<1>4. CASE c < b
  <2>1. b - 1 >= c /\ b - 1 \in Int /\ c \in Int
    BY <1>1, <1>4
  <2>2. (b - 1) * NSWorkers >= c * NSWorkers
    BY <2>1, <1>1, Z3
  <2>3. c * NSWorkers = (c - 1) * NSWorkers + NSWorkers
    BY <1>1, Z3
  <2>4. /\ (b - 1) * NSWorkers \in Int /\ c * NSWorkers \in Int
        /\ (c - 1) * NSWorkers \in Int
    BY <1>1
  <2>5. FALSE
    BY <1>1, <1>2, <2>2, <2>3, <2>4
  <2> QED
    BY <2>5
<1> QED
  BY <1>1, <1>3, <1>4

\* There are as many as there are workers.
LEMMA CountFds ==
  ASSUME NEW b \in Bindings
  PROVE  /\ IsFiniteSet(FdsOf(b)) /\ Cardinality(FdsOf(b)) = NSWorkers
         /\ FdsOf(b) \subseteq Nat \ {0}
<1>1. b \in Nat \ {0} /\ NSWorkers \in Nat \ {0}
  BY ServerAssumption DEF Bindings
<1>2. (b - 1) * NSWorkers \in Nat
  BY <1>1
<1> DEFINE k == (b - 1) * NSWorkers
<1>3. FdsOf(b) = (k + 1)..(k + NSWorkers)
  <2>0. k \in Nat
    BY <1>2
  <2>1. FdsOf(b) = {k + i : i \in 1..NSWorkers}
    BY DEF FdsOf
  <2> HIDE DEF k
  <2>2. \A x \in (k + 1)..(k + NSWorkers) : x - k \in 1..NSWorkers /\ x = k + (x - k)
    BY <2>0, <1>1
  <2> QED
    BY <2>0, <2>1, <2>2, <1>1
<1> HIDE DEF k
<1>4. k \in Nat
  BY <1>2 DEF k
<1> QED
  BY <1>1, <1>3, <1>4, FS_Interval

\* The messages of the kinds T from p to q in the channels d are those of c,
\* but for the first message if that was taken.
Kept(c, d, p, q, T) ==
  \E k \in {0, 1} : \A i \in Nat : \A t \in T : In(d, p, q, i, t) =>
    In(c, p, q, i + k, t) /\ Ch(d, p, q)[i] = Ch(c, p, q)[i + k]

Sent(c, p, q, m) == [c EXCEPT ![<<p, q>>] = Append(@, m)]
Taken(c, p, q) == [c EXCEPT ![<<p, q>>] = Tail(@)]

\* An untouched channel keeps its messages.
LEMMA KeptSame ==
  ASSUME NEW c \in Chans, NEW d, NEW p, NEW q, NEW T,
         Ch(d, p, q) = Ch(c, p, q)
  PROVE  Kept(c, d, p, q, T)
<1>1. \A i \in Nat : \A t \in T : In(d, p, q, i, t) =>
         In(c, p, q, i + 0, t) /\ Ch(d, p, q)[i] = Ch(c, p, q)[i + 0]
  BY DEF In
<1> QED
  BY <1>1 DEF Kept

\* A message that is sent is the last, and the only new one.
LEMMA Sending ==
  ASSUME NEW c \in Chans, NEW p \in SProcs, NEW q \in SProcs,
         NEW t \in Tags, NEW x \in Int \cup (Int \X Int)
  PROVE  LET d == Sent(c, p, q, <<t, x>>)
         IN  /\ d \in Chans
             /\ \A r, s \in SProcs : (r # p \/ s # q) => Ch(d, r, s) = Ch(c, r, s)
             /\ \A r, s \in SProcs : \A T : t \notin T => Kept(c, d, r, s, T)
             /\ \A i \in Nat : In(d, p, q, i, t) =>
                  \/ In(c, p, q, i, t) /\ Ch(d, p, q)[i] = Ch(c, p, q)[i]
                  \/ Ch(d, p, q)[i][2] = x /\ i = Len(Ch(c, p, q)) + 1
             /\ Ch(c, p, q) = <<>> => Len(Ch(d, p, q)) = 1 /\ Ch(d, p, q)[1][2] = x
<1> DEFINE m == <<t, x>>
           d == Sent(c, p, q, m)
<1>0. m \in SMsgs /\ m[1] = t /\ m[2] = x
  BY DEF SMsgs
<1> HIDE DEF m
<1>1. Ch(c, p, q) \in Seq(SMsgs) /\ <<p, q>> \in SProcs \X SProcs
  BY DEF Chans, Ch
<1>2. d \in Chans
  BY <1>0, <1>1 DEF Chans, Ch, Sent
<1>3. \A r, s \in SProcs : (r # p \/ s # q) => Ch(d, r, s) = Ch(c, r, s)
  BY DEF Chans, Ch, Sent
<1>4. Ch(d, p, q) = Append(Ch(c, p, q), m)
  BY <1>1 DEF Chans, Ch, Sent
<1> HIDE DEF d
<1>5. \A i \in Nat : \A u : In(d, p, q, i, u) =>
         \/ In(c, p, q, i, u) /\ Ch(d, p, q)[i] = Ch(c, p, q)[i]
         \/ u = m[1] /\ Ch(d, p, q)[i] = m /\ i = Len(Ch(c, p, q)) + 1
  BY <1>0, <1>1, <1>4 DEF In
<1>6. ASSUME NEW r \in SProcs, NEW s \in SProcs, NEW T, t \notin T
      PROVE  Kept(c, d, r, s, T)
  <2>1. CASE (r # p \/ s # q)
    BY <2>1, <1>3, KeptSame
  <2>2. CASE r = p /\ s = q
    <3>1. \A i \in Nat : \A u \in T : In(d, p, q, i, u) =>
            In(c, p, q, i + 0, u) /\ Ch(d, p, q)[i] = Ch(c, p, q)[i + 0]
      <4>1. \A i \in Nat : i + 0 = i
        OBVIOUS
      <4> QED
        BY <4>1, <1>0, <1>5, <1>6, Zenon
    <3> QED
      BY <2>2, <3>1 DEF Kept
  <2> QED
    BY <2>1, <2>2
<1>7. \A i \in Nat : In(d, p, q, i, t) =>
         \/ In(c, p, q, i, t) /\ Ch(d, p, q)[i] = Ch(c, p, q)[i]
         \/ Ch(d, p, q)[i][2] = x /\ i = Len(Ch(c, p, q)) + 1
  BY <1>0, <1>5
<1>8. Ch(c, p, q) = <<>> => Len(Ch(d, p, q)) = 1 /\ Ch(d, p, q)[1][2] = x
  <2> DEFINE z == Ch(c, p, q)
  <2>1. z = <<>> /\ z \in Seq(SMsgs) => Len(Append(z, m)) = 1 /\ Append(z, m)[1] = m
    BY <1>0
  <2> QED
    BY <2>1, <1>0, <1>1, <1>4
<1> QED
  BY <1>2, <1>3, <1>6, <1>7, <1>8 DEF d, m

\* The same, of the channels as they are.
LEMMA SendingNow ==
  ASSUME chan \in Chans, NEW p \in SProcs, NEW q \in SProcs,
         NEW t \in Tags, NEW x \in Int \cup (Int \X Int),
         chan' = Sent(chan, p, q, <<t, x>>)
  PROVE  /\ chan' \in Chans
         /\ \A r, s \in SProcs : (r # p \/ s # q) => Ch(chan', r, s) = Ch(chan, r, s)
         /\ \A r, s \in SProcs : \A T : t \notin T => Kept(chan, chan', r, s, T)
         /\ \A i \in Nat : In(chan', p, q, i, t) =>
              \/ In(chan, p, q, i, t) /\ Ch(chan', p, q)[i] = Ch(chan, p, q)[i]
              \/ Ch(chan', p, q)[i][2] = x /\ i = Len(Ch(chan, p, q)) + 1
<1>1. chan' \in Chans
  BY Sending
<1>2. \A r, s \in SProcs : (r # p \/ s # q) => Ch(chan', r, s) = Ch(chan, r, s)
  BY Sending
<1>3. \A r, s \in SProcs : \A T : t \notin T => Kept(chan, chan', r, s, T)
  BY Sending
<1>4. \A i \in Nat : In(chan', p, q, i, t) =>
         \/ In(chan, p, q, i, t) /\ Ch(chan', p, q)[i] = Ch(chan, p, q)[i]
         \/ Ch(chan', p, q)[i][2] = x /\ i = Len(Ch(chan, p, q)) + 1
  BY Sending
<1> QED
  BY <1>1, <1>2, <1>3, <1>4

\* A message that is taken was the first; the others move up.
LEMMA Taking ==
  ASSUME NEW c \in Chans, NEW p \in SProcs, NEW q \in SProcs, NEW d,
         Ch(c, p, q) # <<>>, d = Taken(c, p, q)
  PROVE  /\ d \in Chans
         /\ \A r, s \in SProcs : (r # p \/ s # q) => Ch(d, r, s) = Ch(c, r, s)
         /\ \A r, s \in SProcs : \A T : Kept(c, d, r, s, T)
         /\ \A i \in Nat : \A t : In(d, p, q, i, t) => In(c, p, q, i + 1, t) /\ i > 0
         /\ \A t : Head(Ch(c, p, q))[1] = t => In(c, p, q, 1, t)
         /\ Head(Ch(c, p, q)) = Ch(c, p, q)[1] /\ Ch(c, p, q)[1] \in SMsgs
<1>1. Ch(c, p, q) \in Seq(SMsgs) /\ <<p, q>> \in SProcs \X SProcs
  BY DEF Chans, Ch
<1>2. d \in Chans
  BY <1>1 DEF Chans, Ch, Sent, Taken
<1>3. \A r, s \in SProcs : (r # p \/ s # q) => Ch(d, r, s) = Ch(c, r, s)
  BY DEF Chans, Ch, Sent, Taken
<1>4. Ch(d, p, q) = Tail(Ch(c, p, q))
  BY <1>1 DEF Chans, Ch, Sent, Taken
<1>5. \A i \in Nat : \A t : In(d, p, q, i, t) =>
         /\ In(c, p, q, i + 1, t) /\ i > 0
         /\ Ch(d, p, q)[i] = Ch(c, p, q)[i + 1]
  <2> DEFINE z == Ch(c, p, q)
  <2>1. z \in Seq(SMsgs) /\ z # <<>>
    BY <1>1
  <2> HIDE DEF z
  <2>2. \A i \in DOMAIN Tail(z) : /\ i + 1 \in DOMAIN z /\ i > 0
                                  /\ Tail(z)[i] = z[i + 1]
    BY <2>1
  <2> QED
    BY <2>2, <1>4 DEF In, z
<1>6. ASSUME NEW r \in SProcs, NEW s \in SProcs, NEW T
      PROVE  Kept(c, d, r, s, T)
  <2>1. CASE (r # p \/ s # q)
    BY <2>1, <1>3, KeptSame
  <2>2. CASE r = p /\ s = q
    BY <2>2, <1>5 DEF Kept
  <2> QED
    BY <2>1, <2>2
<1>7. Head(Ch(c, p, q)) = Ch(c, p, q)[1] /\ 1 \in DOMAIN Ch(c, p, q)
  <2> DEFINE z == Ch(c, p, q)
  <2>1. z \in Seq(SMsgs) /\ z # <<>>
    BY <1>1
  <2> HIDE DEF z
  <2>2. Head(z) = z[1] /\ 1 \in DOMAIN z
    BY <2>1
  <2> QED
    BY <2>2 DEF z
<1>8. Ch(c, p, q)[1] \in SMsgs
  BY <1>1, <1>7
<1>9. \A t : Head(Ch(c, p, q))[1] = t => In(c, p, q, 1, t)
  BY <1>7 DEF In
<1>10. \A i \in Nat : \A t : In(d, p, q, i, t) => In(c, p, q, i + 1, t) /\ i > 0
  BY <1>5
<1> QED
  BY <1>2, <1>3, <1>6, <1>7, <1>8, <1>9, <1>10, Zenon
\* The same, of the channels as they are.
LEMMA TakingNow ==
  ASSUME chan \in Chans, NEW p \in SProcs, NEW q \in SProcs, Has(p, q)
  PROVE  /\ Took(p, q) \in Chans
         /\ \A r, s \in SProcs : (r # p \/ s # q) =>
              Ch(Took(p, q), r, s) = Ch(chan, r, s)
         /\ \A r, s \in SProcs : \A T : Kept(chan, Took(p, q), r, s, T)
         /\ \A i \in Nat : \A t :
              In(Took(p, q), p, q, i, t) => In(chan, p, q, i + 1, t) /\ i > 0
         /\ \A t : First(p, q)[1] = t => In(chan, p, q, 1, t)
         /\ First(p, q) = Ch(chan, p, q)[1] /\ Ch(chan, p, q)[1] \in SMsgs
         /\ Ch(chan, p, q) # <<>>
         /\ Len(Ch(chan, p, q)) = 1 => Ch(Took(p, q), p, q) = <<>>
<1>1. /\ Took(p, q) = Taken(chan, p, q) /\ Ch(chan, p, q) # <<>>
      /\ First(p, q) = Head(Ch(chan, p, q))
  BY DEF Took, Taken, Has, Ch, First
<1> DEFINE d == Took(p, q)
<1>2. /\ d \in Chans
      /\ \A r, s \in SProcs : (r # p \/ s # q) => Ch(d, r, s) = Ch(chan, r, s)
      /\ \A r, s \in SProcs : \A T : Kept(chan, d, r, s, T)
      /\ \A i \in Nat : \A t : In(d, p, q, i, t) => In(chan, p, q, i + 1, t) /\ i > 0
      /\ \A t : Head(Ch(chan, p, q))[1] = t => In(chan, p, q, 1, t)
      /\ Head(Ch(chan, p, q)) = Ch(chan, p, q)[1] /\ Ch(chan, p, q)[1] \in SMsgs
  BY <1>1, Taking
<1>3. Len(Ch(chan, p, q)) = 1 => Ch(d, p, q) = <<>>
  <2> DEFINE z == Ch(chan, p, q)
  <2>1. Ch(d, p, q) = Tail(z) /\ z \in Seq(SMsgs)
    BY DEF Took, Ch, Chans
  <2> HIDE DEF z
  <2>2. Len(z) = 1 => Tail(z) = <<>>
    BY <2>1
  <2> QED
    BY <2>1, <2>2 DEF z
<1> QED
  BY <1>1, <1>2, <1>3

\* The queue of the receiver: a descriptor is taken, ...
LEMMA FdTail ==
  ASSUME fdq \in Seq(Int), fdq # <<>>, fdq' = Tail(fdq),
         \A i, j \in DOMAIN fdq : fdq[i] = 0 /\ fdq[j] = 0 => i = j
  PROVE  /\ fdq' \in Seq(Int) /\ Head(fdq) = fdq[1] /\ 1 \in DOMAIN fdq
         /\ Zero' => Zero
         /\ (\A i, j \in DOMAIN fdq : fdq[i] = 0 /\ fdq[j] = 0 => i = j)'
         /\ \A i \in DOMAIN fdq' : i + 1 \in DOMAIN fdq /\ fdq'[i] = fdq[i + 1]
         /\ fdq[1] # 0 => Queueing' = Queueing - 1
<1>1. /\ fdq' \in Seq(Int) /\ Head(fdq) = fdq[1] /\ 1 \in DOMAIN fdq
      /\ Len(fdq') = Len(fdq) - 1 /\ Len(fdq) \in Nat
      /\ DOMAIN fdq = 1..Len(fdq) /\ DOMAIN fdq' = 1..Len(fdq')
      /\ \A i \in DOMAIN fdq' : i + 1 \in DOMAIN fdq /\ fdq'[i] = fdq[i + 1]
  OBVIOUS
<1>2. Zero' => Zero
  BY <1>1 DEF Zero
<1>3. (\A i, j \in DOMAIN fdq : fdq[i] = 0 /\ fdq[j] = 0 => i = j)'
  <2> SUFFICES ASSUME NEW i \in DOMAIN fdq', NEW j \in DOMAIN fdq',
                      fdq'[i] = 0, fdq'[j] = 0
               PROVE  i = j
    OBVIOUS
  <2>1. i + 1 = j + 1
    BY <1>1
  <2> QED
    BY <1>1, <2>1
<1>4. fdq[1] # 0 => (Zero <=> Zero')
  <2> SUFFICES ASSUME fdq[1] # 0, Zero
               PROVE  Zero'
    BY <1>2
  <2>1. PICK i \in DOMAIN fdq : fdq[i] = 0
    BY DEF Zero
  <2>2. i - 1 \in DOMAIN fdq' /\ (i - 1) + 1 = i
    BY <1>1, <2>1
  <2>3. fdq'[i - 1] = 0
    BY <1>1, <2>1, <2>2
  <2> QED
    BY <2>2, <2>3 DEF Zero
<1>5. fdq[1] # 0 => Queueing' = Queueing - 1
  BY <1>1, <1>4 DEF Queueing
<1> QED
  BY <1>1, <1>2, <1>3, <1>5

\* ... the timeout puts its 0 there, ...
LEMMA FdZero ==
  ASSUME fdq \in Seq(Int), fdq' = Append(fdq, 0), ~Zero
  PROVE  /\ fdq' \in Seq(Int)
         /\ (\A i, j \in DOMAIN fdq : fdq[i] = 0 /\ fdq[j] = 0 => i = j)'
         /\ \A i \in DOMAIN fdq' : (i \in DOMAIN fdq /\ fdq'[i] = fdq[i]) \/ fdq'[i] = 0
         /\ Queueing' = Queueing
<1>1. /\ fdq' \in Seq(Int) /\ Len(fdq') = Len(fdq) + 1 /\ Len(fdq) \in Nat
      /\ DOMAIN fdq' = 1..(Len(fdq) + 1) /\ DOMAIN fdq = 1..Len(fdq)
      /\ fdq'[Len(fdq) + 1] = 0
      /\ \A i \in DOMAIN fdq : fdq'[i] = fdq[i]
  OBVIOUS
<1>2. \A i \in DOMAIN fdq : fdq[i] # 0
  BY DEF Zero
<1>3. \A i \in DOMAIN fdq' : fdq'[i] = 0 => i = Len(fdq) + 1
  BY <1>1, <1>2
<1>4. Zero' /\ Queueing' = Queueing
  <2>1. Len(fdq) + 1 \in DOMAIN fdq'
    BY <1>1
  <2>2. Zero'
    BY <1>1, <2>1 DEF Zero
  <2>3. Queueing' = Len(fdq') - 1 /\ Queueing = Len(fdq)
    BY <2>2 DEF Queueing
  <2> QED
    BY <1>1, <2>2, <2>3
<1>5. \A i \in DOMAIN fdq' : (i \in DOMAIN fdq /\ fdq'[i] = fdq[i]) \/ fdq'[i] = 0
  BY <1>1
<1>6. \A i, j \in DOMAIN fdq' : fdq'[i] = 0 /\ fdq'[j] = 0 => i = j
  BY <1>3
<1> QED
  BY <1>1, <1>4, <1>5, <1>6

\* ... and when none is to come there is none.
LEMMA FdNone ==
  ASSUME fdq \in Seq(Int), Queueing = 0,
         \A i, j \in DOMAIN fdq : fdq[i] = 0 /\ fdq[j] = 0 => i = j
  PROVE  NoFds
<1>1. Len(fdq) \in Nat /\ DOMAIN fdq = 1..Len(fdq)
  OBVIOUS
<1>2. CASE Zero
  <2>1. Len(fdq) = 1 /\ \E i \in DOMAIN fdq : fdq[i] = 0
    BY <1>1, <1>2 DEF Queueing, Zero
  <2> QED
    BY <1>1, <2>1 DEF NoFds
<1>3. CASE ~Zero
  BY <1>1, <1>3 DEF Queueing, NoFds
<1> QED
  BY <1>2, <1>3
-----------------------------------------------------------------------------
(* What keeps each part of the invariant.                                  *)

\* The conversation with the master is not touched ...
LEMMA AskSame ==
  ASSUME AskInv, Mgr' = Mgr, want' = want, fdq' = fdq,
         Kept(chan, chan', SManager, SMaster, Request),
         Ch(chan', SMaster, SManager) = Ch(chan, SMaster, SManager)
  PROVE  AskInv'
<1>1. PICK k \in {0, 1} : \A i \in Nat : Is(SManager, SMaster, i, "sockets")' =>
         /\ Is(SManager, SMaster, i + k, "sockets")
         /\ Ch(chan', SManager, SMaster)[i] = Ch(chan, SManager, SMaster)[i + k]
  BY DEF Kept, Is, In, Request
<1>2. k \in Nat
  OBVIOUS
<1>3. \A i, j \in Nat : i + k \in Nat /\ (i + k = j + k => i = j)
  BY <1>2
<1>4. (\A i, j \in Nat : Is(SManager, SMaster, i, "sockets")
                          /\ Is(SManager, SMaster, j, "sockets") => i = j)'
  BY <1>1, <1>3 DEF AskInv
<1>5. (\A i \in Nat : Is(SManager, SMaster, i, "sockets") =>
         /\ Mgr = "response" /\ Ch(chan, SManager, SMaster)[i][2] = want.b
         /\ Ch(chan, SMaster, SManager) = <<>> /\ NoFds)'
  BY <1>1, <1>3 DEF AskInv, NoFds
<1> QED
  BY <1>4, <1>5 DEF AskInv, NoFds, Zero, Queueing

\* ... or is over, or has not begun.
LEMMA AskNot ==
  ASSUME AskInv, fdq' = fdq, want'.timer = want.timer,
         Kept(chan, chan', SManager, SMaster, Request),
         Ch(chan', SMaster, SManager) = Ch(chan, SMaster, SManager),
         Mgr \notin {"response", "receive", "failed"},
         Mgr' \notin {"response", "receive"}
  PROVE  AskInv'
<1>1. \A i \in Nat : ~Is(SManager, SMaster, i, "sockets")
  BY DEF AskInv
<1>2. PICK k \in {0, 1} : \A i \in Nat : Is(SManager, SMaster, i, "sockets")' =>
         Is(SManager, SMaster, i + k, "sockets")
  BY DEF Kept, Is, In, Request
<1>3. \A i \in Nat : i + k \in Nat
  OBVIOUS
<1>4. \A i \in Nat : ~Is(SManager, SMaster, i, "sockets")'
  BY <1>1, <1>2, <1>3
<1>5. Ch(chan, SMaster, SManager) = <<>> /\ NoFds
  BY DEF AskInv
<1> QED
  BY <1>4, <1>5 DEF AskInv, NoFds, Zero, Queueing

\* No socket comes to the manager.
LEMMA SockSame ==
  ASSUME SockInv, Mgr' = Mgr, want' = want, socks' = socks,
         Mgr \in Asking => listening' = listening
  PROVE  SockInv'
  BY DEF SockInv, Given

\* Listeners are those there were, and no socket is new on its way.
LEMMA OwnSame ==
  ASSUME OwnInv, \A w \in SWorkers : Pairs(w)' = Pairs(w),
         \A b \in Bindings : socks'[b] \subseteq socks[b],
         \A w \in SWorkers : Kept(chan, chan', SManager, w, Socket)
  PROVE  OwnInv'
<1>1. ASSUME NEW w \in SWorkers, NEW i \in Nat, Is(SManager, w, i, "socket")'
      PROVE  \E j \in Nat : /\ Is(SManager, w, j, "socket")
                             /\ Ch(chan', SManager, w)[i] = Ch(chan, SManager, w)[j]
  <2>1. PICK k \in {0, 1} : \A x \in Nat : In(chan', SManager, w, x, "socket") =>
           /\ In(chan, SManager, w, x + k, "socket")
           /\ Ch(chan', SManager, w)[x] = Ch(chan, SManager, w)[x + k]
    BY DEF Kept, Socket
  <2>2. i + k \in Nat
    OBVIOUS
  <2> QED
    BY <1>1, <2>1, <2>2 DEF Is, In
<1>2. ASSUME NEW w \in SWorkers, NEW i \in Nat, Is(SManager, w, i, "socket")'
      PROVE  LET s == Ch(chan', SManager, w)[i][2]
             IN  /\ s \in Bindings \X Int /\ s[2] \in FdsOf(s[1])
                 /\ s[2] \notin socks'[s[1]]
                 /\ \A v \in SWorkers : \A x \in Pairs(v)' : x[2] # s[2]
  <2>1. PICK j \in Nat : /\ Is(SManager, w, j, "socket")
                         /\ Ch(chan', SManager, w)[i] = Ch(chan, SManager, w)[j]
    BY <1>1, <1>2
  <2> DEFINE s == Ch(chan, SManager, w)[j][2]
  <2>2. /\ s \in Bindings \X Int /\ s[2] \in FdsOf(s[1])
        /\ s[2] \notin socks[s[1]]
        /\ \A v \in SWorkers : \A x \in Pairs(v) : x[2] # s[2]
    BY <2>1 DEF OwnInv
  <2>3. Ch(chan', SManager, w)[i][2] = s
    BY <2>1
  <2> HIDE DEF s
  <2> QED
    BY <2>2, <2>3
<1>3. (\A w \in SWorkers : \A i \in Nat : Is(SManager, w, i, "socket") =>
         LET s == Ch(chan, SManager, w)[i][2]
         IN  /\ s \in Bindings \X Int /\ s[2] \in FdsOf(s[1])
             /\ s[2] \notin socks[s[1]]
             /\ \A v \in SWorkers : \A x \in Pairs(v) : x[2] # s[2])'
  BY <1>2 DEF FdsOf
<1>4. (\A w \in SWorkers : \A x \in Pairs(w) :
         x[1] \in Bindings /\ x[2] \in FdsOf(x[1]) /\ x[2] \notin socks[x[1]])'
  BY DEF OwnInv, FdsOf
<1>5. (\A v, w \in SWorkers : \A x \in Pairs(v), y \in Pairs(w) :
         x[2] = y[2] => v = w)'
  BY DEF OwnInv
<1> QED
  BY <1>3, <1>4, <1>5 DEF OwnInv

\* No socket and no answer is new on its way, and the manager stays.
LEMMA GiveSame ==
  ASSUME GiveInv, Mgr' = Mgr, want' = want, want.w \in SWorkers,
         \A w \in SWorkers : Pairs(w) \subseteq Pairs(w)',
         \A w \in SWorkers : Kept(chan, chan', SManager, w, Socket),
         \A w \in SWorkers : Kept(chan, chan', w, SManager, Answers)
  PROVE  GiveInv'
<1>2. \A w \in SWorkers : \A b : Serves(w, b) => Serves(w, b)'
  BY DEF Serves
<1>3. ASSUME NEW w \in SWorkers, NEW i \in Nat, Is(SManager, w, i, "socket")'
      PROVE  /\ Mgr = "answer" /\ w = want.w
             /\ Ch(chan', SManager, w)[i][2][1] = want.b
             /\ \A j \in Nat : ~Answer(w, j)' /\ (Is(SManager, w, j, "socket")' => i = j)
  <2>1. PICK k \in {0, 1} : \A x \in Nat : Is(SManager, w, x, "socket")' =>
           /\ Is(SManager, w, x + k, "socket")
           /\ Ch(chan', SManager, w)[x] = Ch(chan, SManager, w)[x + k]
    BY DEF Kept, Is, In, Socket
  <2>2. k \in Nat
    OBVIOUS
  <2>3. \A x, y \in Nat : x + k \in Nat /\ (x + k = y + k => x = y)
    BY <2>2
  <2>4. /\ Is(SManager, w, i + k, "socket") /\ i + k \in Nat
        /\ Ch(chan', SManager, w)[i] = Ch(chan, SManager, w)[i + k]
    BY <1>3, <2>1, <2>3
  <2>5. /\ Mgr = "answer" /\ w = want.w
        /\ Ch(chan, SManager, w)[i + k][2][1] = want.b
        /\ \A j \in Nat : ~Answer(w, j) /\ (Is(SManager, w, j, "socket") => i + k = j)
    BY <2>4 DEF GiveInv
  <2>6. \A j \in Nat : Is(SManager, w, j, "socket")' => i = j
    BY <2>1, <2>3, <2>5
  <2>7. \A j \in Nat : ~Answer(w, j)'
    <3>1. PICK n \in {0, 1} : \A x \in Nat : \A t \in Answers :
             In(chan', w, SManager, x, t) => In(chan, w, SManager, x + n, t)
      BY DEF Kept
    <3>2. n \in Nat
      BY <3>1
    <3>3. \A x \in Nat : x + n \in Nat
      BY <3>2
    <3>4. "ok" \in Answers /\ "not ok" \in Answers
      BY DEF Answers
    <3> QED
      BY <2>5, <3>1, <3>3, <3>4 DEF Answer, Is
  <2> QED
    BY <2>4, <2>5, <2>6, <2>7
<1>4. (\A w \in SWorkers : \A i \in Nat : Is(SManager, w, i, "socket") =>
         /\ Mgr = "answer" /\ w = want.w /\ Ch(chan, SManager, w)[i][2][1] = want.b
         /\ \A j \in Nat : ~Answer(w, j) /\ (Is(SManager, w, j, "socket") => i = j))'
  BY <1>3
<1>5. (\A w \in SWorkers : \A i \in Nat : Answer(w, i) =>
         /\ Mgr = "answer" /\ w = want.w
         /\ Is(w, SManager, i, "ok") => Serves(w, want.b)
         /\ \A j \in Nat : Answer(w, j) => i = j)'
  <2> SUFFICES ASSUME NEW w \in SWorkers, NEW i \in Nat, Answer(w, i)'
               PROVE  (/\ Mgr = "answer" /\ w = want.w
                       /\ Is(w, SManager, i, "ok") => Serves(w, want.b)
                       /\ \A j \in Nat : Answer(w, j) => i = j)'
    OBVIOUS
  <2>1. PICK n \in {0, 1} : \A x \in Nat : \A t \in {"ok", "not ok"} :
           In(chan', w, SManager, x, t) => In(chan, w, SManager, x + n, t)
    BY DEF Kept, Answers
  <2>2. n \in Nat
    OBVIOUS
  <2>3. \A x, y \in Nat : x + n \in Nat /\ (x + n = y + n => x = y)
    BY <2>2
  <2>4. \A x \in Nat : /\ Answer(w, x)' => Answer(w, x + n)
                       /\ Is(w, SManager, x, "ok")' => Is(w, SManager, x + n, "ok")
    BY <2>1 DEF Answer, Is
  <2>5. /\ Mgr = "answer" /\ w = want.w
        /\ Is(w, SManager, i + n, "ok") => Serves(w, want.b)
        /\ \A j \in Nat : Answer(w, j) => i + n = j
    BY <2>3, <2>4 DEF GiveInv
  <2> QED
    BY <1>2, <2>3, <2>4, <2>5
<1>6. (/\ Mgr \in {"give", "answer"} => \A b \in 1..(want.b - 1) : Serves(want.w, b)
       /\ Mgr = "done_worker" => Complete(want.w))'
  BY <1>2 DEF GiveInv, Complete
<1> QED
  BY <1>4, <1>5, <1>6 DEF GiveInv

\* A message of a kind that is kept was there.
LEMMA KeptHad ==
  ASSUME NEW c, NEW d, NEW p, NEW q, NEW T, Kept(c, d, p, q, T),
         NEW t \in T, NEW i \in Nat, In(d, p, q, i, t)
  PROVE  \E j \in Nat : In(c, p, q, j, t) /\ Ch(d, p, q)[i] = Ch(c, p, q)[j]
<1>1. PICK k \in {0, 1} : \A x \in Nat : \A u \in T : In(d, p, q, x, u) =>
         In(c, p, q, x + k, u) /\ Ch(d, p, q)[x] = Ch(c, p, q)[x + k]
  BY DEF Kept
<1>2. k \in Nat
  BY <1>1
<1>3. i + k \in Nat
  BY <1>2
<1> QED
  BY <1>1, <1>3

\* Nothing is on its way to a worker or back, unless the manager waits for it.
LEMMA Quiet ==
  ASSUME GiveInv, Mgr # "answer",
         \A w \in SWorkers : Kept(chan, chan', SManager, w, Socket),
         \A w \in SWorkers : Kept(chan, chan', w, SManager, Answers)
  PROVE  \A w \in SWorkers : \A i \in Nat :
            ~Is(SManager, w, i, "socket")' /\ ~Answer(w, i)'
<1>1. \A w \in SWorkers : \A i \in Nat :
         ~Is(SManager, w, i, "socket") /\ ~Answer(w, i)
  BY DEF GiveInv
<1>2. "socket" \in Socket /\ "ok" \in Answers /\ "not ok" \in Answers
  BY DEF Socket, Answers
<1>3. ASSUME NEW w \in SWorkers, NEW i \in Nat
      PROVE  ~Is(SManager, w, i, "socket")'
  BY <1>1, <1>2, KeptHad DEF Is
<1>4. ASSUME NEW w \in SWorkers, NEW i \in Nat
      PROVE  ~Answer(w, i)'
  <2>1. ~In(chan', w, SManager, i, "ok")
    BY <1>1, <1>2, KeptHad DEF Is, Answer
  <2>2. ~In(chan', w, SManager, i, "not ok")
    BY <1>1, <1>2, KeptHad DEF Is, Answer
  <2> QED
    BY <2>1, <2>2 DEF Answer, Is
<1> QED
  BY <1>3, <1>4

\* Workers go on saying nothing else.
LEMMA RouteSame ==
  ASSUME RouteInv, \A w \in SWorkers : Kept(chan, chan', w, SManager, Other)
  PROVE  RouteInv'
<1> SUFFICES ASSUME NEW w \in SWorkers, NEW i \in Nat, NEW t \in Other,
                    In(chan', w, SManager, i, t)
             PROVE  FALSE
  BY DEF RouteInv, Is
<1>1. \E j \in Nat : In(chan, w, SManager, j, t)
  BY KeptHad
<1> QED
  BY <1>1 DEF RouteInv, Is

\* Nothing is taken back from the workers: announcements that are not new stay
\* true, and a worker that counted has.
LEMMA DoneEach ==
  ASSUME DoneInv, \A w \in SWorkers : Passed(w) => Passed(w)',
         Mgr \in Over => Mgr' \in Over,
         \A w \in SWorkers : Pairs(w) \subseteq Pairs(w)',
         \A w \in SWorkers : spc[w] # "wait" => spc'[w] # "wait"
  PROVE  /\ (\A w \in SWorkers : Kept(chan, chan', SManager, w, Done)) => DoneSaid'
         /\ (\A w \in SWorkers : Kept(chan, chan', w, SManager, Started)) => StartedSaid'
         /\ (\A p \in SProcs : Kept(chan, chan', SManager, p, Start)) => StartSaid'
         /\ starts' = starts => StartHeard'
         /\ shared.done \in Nat /\ shared'.done = shared.done => CountRight'
         /\ AllComplete => AllComplete'
         /\ \A w \in SWorkers : Complete(w) => Complete(w)'
         /\ Counted \subseteq Counted' /\ IsFiniteSet(Counted) /\ IsFiniteSet(Counted')
         /\ Cardinality(Counted) \in Nat /\ Cardinality(Counted') \in Nat
         /\ Cardinality(Counted) <= Cardinality(Counted')
<1>1. \A w \in SWorkers : Complete(w) => Complete(w)'
  BY DEF Complete, Serves
<1>2. AllComplete => AllComplete'
  BY <1>1 DEF AllComplete
<1>3. "done" \in Done /\ "started" \in Started /\ "start" \in Start
  BY DEF Done, Started, Start
<1>4. (\A w \in SWorkers : Kept(chan, chan', SManager, w, Done)) => DoneSaid'
  <2> SUFFICES ASSUME NEW w \in SWorkers, Kept(chan, chan', SManager, w, Done),
                      NEW i \in Nat, In(chan', SManager, w, i, "done")
               PROVE  Complete(w)' /\ Passed(w)'
    BY DEF Is, DoneSaid
  <2>1. \E j \in Nat : In(chan, SManager, w, j, "done")
    BY <1>3, KeptHad
  <2> QED
    BY <2>1, <1>1 DEF DoneInv, DoneSaid, Is
<1>5. (\A w \in SWorkers : Kept(chan, chan', w, SManager, Started)) => StartedSaid'
  <2> SUFFICES ASSUME NEW w \in SWorkers, Kept(chan, chan', w, SManager, Started),
                      NEW i \in Nat, In(chan', w, SManager, i, "started")
               PROVE  AllComplete' /\ Mgr' \in Over
    BY DEF Is, StartedSaid
  <2>1. \E j \in Nat : In(chan, w, SManager, j, "started")
    BY <1>3, KeptHad
  <2> QED
    BY <2>1, <1>2 DEF DoneInv, StartedSaid, Is
<1>6. (\A p \in SProcs : Kept(chan, chan', SManager, p, Start)) => StartSaid'
  <2> SUFFICES ASSUME NEW p \in SProcs, Kept(chan, chan', SManager, p, Start),
                      NEW i \in Nat, In(chan', SManager, p, i, "start")
               PROVE  AllComplete'
    BY DEF Is, StartSaid
  <2>1. \E j \in Nat : In(chan, SManager, p, j, "start")
    BY <1>3, KeptHad
  <2> QED
    BY <2>1, <1>2 DEF DoneInv, StartSaid, Is
<1>7. starts' = starts => StartHeard'
  BY <1>2 DEF DoneInv, StartHeard
<1>8. Counted \subseteq Counted' /\ Counted' \subseteq SWorkers
  BY <1>1 DEF Counted
<1>9. IsFiniteSet(SWorkers)
  BY ServerAssumption, FS_Interval DEF SWorkers
<1>10. IsFiniteSet(Counted') /\ IsFiniteSet(Counted)
  BY <1>8, <1>9, FS_Subset
<1>11. Cardinality(Counted) <= Cardinality(Counted')
  BY <1>8, <1>10, FS_Subset
<1>12. Cardinality(Counted) \in Nat /\ Cardinality(Counted') \in Nat
  BY <1>10, FS_CardinalityType
<1>13. shared.done \in Nat /\ shared'.done = shared.done => CountRight'
  BY <1>11, <1>12 DEF DoneInv, CountRight
<1> QED
  BY <1>1, <1>2, <1>4, <1>5, <1>6, <1>7, <1>8, <1>10, <1>11, <1>12, <1>13

\* No announcement is new.
LEMMA DoneSame ==
  ASSUME DoneInv, \A w \in SWorkers : Passed(w) => Passed(w)',
         Mgr \in Over => Mgr' \in Over,
         \A w \in SWorkers : Pairs(w) \subseteq Pairs(w)',
         \A w \in SWorkers : spc[w] # "wait" => spc'[w] # "wait",
         shared.done \in Nat, shared'.done = shared.done, starts' = starts,
         \A w \in SWorkers : Kept(chan, chan', SManager, w, Done),
         \A w \in SWorkers : Kept(chan, chan', w, SManager, Started),
         \A p \in SProcs : Kept(chan, chan', SManager, p, Start)
  PROVE  DoneInv'
  BY DoneEach DEF DoneInv

\* The manager gives up: only what was given away is left to care about.
LEMMA ManagerFails ==
  ASSUME ServerInv, ServerTypes', Aborts(SManager),
         Mgr \notin {"response", "failed", "done"},
         \A p, q \in SProcs : \A T : Kept(chan, chan', p, q, T),
         Ch(chan', SMaster, SManager) = Ch(chan, SMaster, SManager),
         \A w \in SWorkers : \A i \in Nat :
            ~Is(SManager, w, i, "socket")' /\ ~Answer(w, i)',
         (Zero => ~want.timer)',
         (\A i, j \in DOMAIN fdq : fdq[i] = 0 /\ fdq[j] = 0 => i = j)',
         \A b \in Bindings : socks'[b] \subseteq socks[b],
         UNCHANGED <<listening, starts, mfds>>
  PROVE  ServerInv'
<1> USE Procs
<1>1. /\ Mgr' = "failed" /\ \A p \in SProcs : p # SManager => spc'[p] = spc[p]
      /\ shared'.done = shared.done /\ shared'.aborted /\ shared.done \in Nat
      /\ \A p \in SProcs : p # SManager => finished'[p] = finished[p]
  BY DEF Aborts, Goto, ServerInv, ServerTypes, Mgr
<1>2. AtInv'
  BY <1>1 DEF AtInv, Asking, Giving, Bound
<1>3. AskInv'
  <2>1. \A i \in Nat : ~Is(SManager, SMaster, i, "sockets")
    BY DEF ServerInv, AskInv
  <2>2. "sockets" \in Request /\ Kept(chan, chan', SManager, SMaster, Request)
    BY DEF Request
  <2>3. \A i \in Nat : ~Is(SManager, SMaster, i, "sockets")'
    BY <2>1, <2>2, KeptHad DEF Is
  <2>4. Ch(chan', SMaster, SManager) = <<>>
    BY DEF ServerInv, AskInv
  <2> QED
    BY <1>1, <2>3, <2>4 DEF AskInv
<1>4. SockInv'
  BY <1>1 DEF ServerInv, SockInv, Asking, Giving, FdsOf
<1>5. OwnInv'
  BY OwnSame DEF ServerInv, Pairs
<1>6. GiveInv'
  BY <1>1 DEF GiveInv
<1>7. DoneInv'
  BY <1>1, DoneSame DEF ServerInv, Pairs, Passed, Over
<1>8. EndInv'
  BY <1>1 DEF ServerInv, EndInv, HostNames
<1>9. RouteInv'
  BY RouteSame DEF ServerInv
<1> QED
  BY <1>2, <1>3, <1>4, <1>5, <1>6, <1>7, <1>8, <1>9 DEF ServerInv

\* No message is sent or taken.
LEMMA NoMessage ==
  ASSUME ServerTypes, chan' = chan
  PROVE  \A p, q \in SProcs : \A T : Kept(chan, chan', p, q, T)
  BY KeptSame DEF ServerTypes

\* The manager goes on without a new socket or announcement on its way.
LEMMA ManagerGoes ==
  ASSUME ServerInv, NEW pc \in Pcs, Goto(SManager, pc),
         Mgr \in Over => pc \in Over, want'.w \in SWorkers, want.w <= want'.w,
         UNCHANGED <<listening, shared, finished, mfds, starts>>,
         \A b \in Bindings : socks'[b] \subseteq socks[b],
         \A w \in SWorkers : Kept(chan, chan', SManager, w, Socket),
         \A w \in SWorkers : Kept(chan, chan', SManager, w, Done),
         \A w \in SWorkers : Kept(chan, chan', w, SManager, Started),
         \A w \in SWorkers : Kept(chan, chan', w, SManager, Other),
         \A p \in SProcs : Kept(chan, chan', SManager, p, Start)
  PROVE  /\ OwnInv' /\ DoneInv' /\ RouteInv' /\ Mgr' = pc
         /\ spc' \in [SProcs -> Pcs]
         /\ \A p \in SProcs : p # SManager => spc'[p] = spc[p]
<1> USE Procs
<1>1. /\ Mgr' = pc /\ \A p \in SProcs : p # SManager => spc'[p] = spc[p]
      /\ shared.done \in Nat /\ spc' \in [SProcs -> Pcs] /\ want.w \in SWorkers
  BY DEF Goto, ServerInv, ServerTypes, Mgr
<1>2. OwnInv'
  BY OwnSame DEF ServerInv, Pairs
<1>3. DoneInv'
  <2>1. \A w \in SWorkers : Passed(w) => Passed(w)'
    BY <1>1 DEF Passed
  <2> QED
    BY <1>1, <2>1, DoneSame DEF ServerInv, Pairs
<1>4. RouteInv'
  BY RouteSame DEF ServerInv
<1> QED
  BY <1>1, <1>2, <1>3, <1>4
-----------------------------------------------------------------------------
(* The manager's steps.                                                    *)

\* A report of a worker is the last, or not.
LEMMA ReportKeeps ==
  ASSUME ServerInv, ServerReport
  PROVE  ServerInv'
<1> USE Procs
<1>1. PICK pc \in {"off", "resolve"} : Goto(SManager, pc)
  <2>1. spc' = spc => Goto(SManager, "off")
    BY DEF ServerReport, Goto, ServerInv, ServerTypes
  <2> QED
    BY <2>1 DEF ServerReport
<1>2. \A p, q \in SProcs : \A T : Kept(chan, chan', p, q, T)
  BY NoMessage DEF ServerInv, ServerReport
<1>3. /\ OwnInv' /\ DoneInv' /\ RouteInv' /\ Mgr' = pc /\ spc' \in [SProcs -> Pcs]
      /\ \A p \in SProcs : p # SManager => spc'[p] = spc[p]
  <2>1. pc \in Pcs /\ Goto(SManager, pc)
    BY <1>1 DEF Pcs, Asking, Giving
  <2>2. /\ UNCHANGED <<listening, shared, finished, mfds, starts>>
        /\ \A b \in Bindings : socks'[b] \subseteq socks[b]
        /\ Mgr \notin Over /\ want'.w \in SWorkers /\ want.w <= want'.w
    BY DEF ServerReport, ServerInv, ServerTypes, Over, Mgr
  <2>3. /\ \A w \in SWorkers : Kept(chan, chan', SManager, w, Socket)
        /\ \A w \in SWorkers : Kept(chan, chan', SManager, w, Done)
        /\ \A w \in SWorkers : Kept(chan, chan', w, SManager, Started)
        /\ \A w \in SWorkers : Kept(chan, chan', w, SManager, Other)
        /\ \A p \in SProcs : Kept(chan, chan', SManager, p, Start)
    BY <1>2
  <2> QED
    BY <2>1, <2>2, <2>3, ManagerGoes
<1>4. ServerTypes' /\ Mgr = "off"
  BY <1>3 DEF ServerInv, ServerTypes, ServerReport, Mgr
<1>5. AtInv'
  BY <1>1, <1>3, <1>4 DEF ServerInv, AtInv, ServerReport, Asking, Giving, Bound
<1>6. AskInv'
  BY <1>1, <1>2, <1>3, <1>4, AskNot DEF ServerInv, ServerReport
<1>7. SockInv'
  <2>1. UNCHANGED <<socks, listening, want>>
    BY DEF ServerReport
  <2>2. Mgr' \notin Giving /\ Mgr' \notin {"done_master", "done"} /\ Mgr \in Asking
    BY <1>1, <1>3, <1>4 DEF Asking, Giving
  <2> QED
    BY <2>1, <2>2 DEF ServerInv, SockInv, FdsOf
<1>8. GiveInv'
  <2>1. \A w \in SWorkers : \A i \in Nat :
            ~Is(SManager, w, i, "socket")' /\ ~Answer(w, i)'
    BY <1>2, <1>4, Quiet DEF ServerInv
  <2> QED
    BY <1>1, <1>3, <2>1 DEF GiveInv
<1>9. EndInv'
  BY <1>1, <1>3, <1>4 DEF ServerInv, EndInv, ServerReport, HostNames
<1> QED
  BY <1>3, <1>4, <1>5, <1>6, <1>7, <1>8, <1>9 DEF ServerInv

\* The hosts are resolved, or not.
LEMMA ResolveKeeps ==
  ASSUME ServerInv, ServerResolve
  PROVE  ServerInv'
<1> USE Procs
<1>1. PICK pc \in {"done_worker", "request", "unresolved"} :
         /\ Goto(SManager, pc)
         /\ pc = "done_worker" => NServers = 0
         /\ pc = "request" => NServers # 0
  BY DEF ServerResolve
<1>2. \A p, q \in SProcs : \A T : Kept(chan, chan', p, q, T)
  BY NoMessage DEF ServerInv, ServerResolve
<1>3. /\ OwnInv' /\ DoneInv' /\ RouteInv' /\ Mgr' = pc /\ spc' \in [SProcs -> Pcs]
      /\ \A p \in SProcs : p # SManager => spc'[p] = spc[p]
  <2>1. pc \in Pcs /\ Goto(SManager, pc)
    BY <1>1 DEF Pcs, Asking, Giving
  <2>2. /\ UNCHANGED <<listening, shared, finished, mfds, starts>>
        /\ \A b \in Bindings : socks'[b] \subseteq socks[b]
        /\ Mgr \notin Over /\ want'.w \in SWorkers /\ want.w <= want'.w
    BY DEF ServerResolve, ServerInv, ServerTypes, Over, Mgr
  <2>3. /\ \A w \in SWorkers : Kept(chan, chan', SManager, w, Socket)
        /\ \A w \in SWorkers : Kept(chan, chan', SManager, w, Done)
        /\ \A w \in SWorkers : Kept(chan, chan', w, SManager, Started)
        /\ \A w \in SWorkers : Kept(chan, chan', w, SManager, Other)
        /\ \A p \in SProcs : Kept(chan, chan', SManager, p, Start)
    BY <1>2
  <2> QED
    BY <2>1, <2>2, <2>3, ManagerGoes
<1>4. ServerTypes' /\ Mgr = "resolve"
  BY <1>3 DEF ServerInv, ServerTypes, ServerResolve, Mgr
<1>5. AtInv'
  BY <1>1, <1>3, <1>4 DEF ServerInv, AtInv, ServerResolve, Asking, Giving, Bound,
     Bindings
<1>6. AskInv'
  BY <1>1, <1>2, <1>3, <1>4, AskNot DEF ServerInv, ServerResolve
<1>7. SockInv'
  <2>1. UNCHANGED <<socks, listening, want>>
    BY DEF ServerResolve
  <2>2. Mgr' \in Giving => Bindings = {}
    BY <1>1, <1>3 DEF Giving, Bindings
  <2>3. Mgr' \notin {"done_master", "done"} /\ Mgr \in Asking
    BY <1>1, <1>3, <1>4 DEF Asking
  <2> QED
    BY <2>1, <2>2, <2>3 DEF ServerInv, SockInv, FdsOf
<1>8. GiveInv'
  <2>1. \A w \in SWorkers : \A i \in Nat :
            ~Is(SManager, w, i, "socket")' /\ ~Answer(w, i)'
    BY <1>2, <1>4, Quiet DEF ServerInv
  <2>2. Mgr' = "done_worker" => Bindings = {}
    BY <1>1, <1>3 DEF Bindings
  <2>3. Mgr' = "done_worker" => Complete(want.w)'
    BY <2>2 DEF Complete
  <2> QED
    BY <1>1, <1>3, <2>1, <2>3 DEF GiveInv
<1>9. EndInv'
  BY <1>1, <1>3, <1>4 DEF ServerInv, EndInv, ServerResolve, HostNames
<1> QED
  BY <1>3, <1>4, <1>5, <1>6, <1>7, <1>8, <1>9 DEF ServerInv

\* Sockets for a binding are asked for.
LEMMA RequestKeeps ==
  ASSUME ServerInv, ServerRequest
  PROVE  ServerInv'
<1> USE Procs
<1>0. /\ Mgr = "request" /\ want.b \in Bindings /\ want.b \in Int /\ ServerTypes
      /\ chan \in Chans /\ want.w = 0
  BY DEF ServerInv, AtInv, Bound, ServerTypes, ServerRequest, Mgr, Asking
<1>1. CASE Aborts(SManager) /\ chan' = chan
  <2>1. ServerTypes'
    BY <1>1 DEF ServerInv, ServerTypes, ServerRequest, Aborts, Goto, Pcs
  <2>2. \A p, q \in SProcs : \A T : Kept(chan, chan', p, q, T)
    BY <1>0, <1>1, NoMessage
  <2>3. \A w \in SWorkers : \A i \in Nat :
            ~Is(SManager, w, i, "socket")' /\ ~Answer(w, i)'
    BY <1>0, <2>2, Quiet DEF ServerInv
  <2>4. /\ (Zero => ~want.timer)'
        /\ (\A i, j \in DOMAIN fdq : fdq[i] = 0 /\ fdq[j] = 0 => i = j)'
    BY DEF ServerInv, AskInv, ServerRequest, Zero
  <2> QED
    BY <1>0, <1>1, <2>1, <2>2, <2>3, <2>4, ManagerFails DEF ServerRequest
<1>2. CASE ~(Aborts(SManager) /\ chan' = chan)
  <2> DEFINE m == <<"sockets", want.b>>
  <2>1. /\ chan' = Sent(chan, SManager, SMaster, m)
        /\ Goto(SManager, "response") /\ hosts' = hosts \cup ({want.b} \X {"host", "name", "address"})
        /\ UNCHANGED <<fdq, mfds, socks, want, listening, srun, starts, shared, finished>>
    BY <1>2 DEF ServerRequest, TrySend, Sent
  <2>2. m[2] = want.b /\ "sockets" \in Tags /\ want.b \in Int \cup (Int \X Int)
    BY <1>0 DEF Tags
  <2>3. /\ chan' \in Chans
        /\ \A r, s \in SProcs : (r # SManager \/ s # SMaster) =>
              Ch(chan', r, s) = Ch(chan, r, s)
        /\ \A r, s \in SProcs : \A T : "sockets" \notin T => Kept(chan, chan', r, s, T)
        /\ \A i \in Nat : In(chan', SManager, SMaster, i, "sockets") =>
             \/ /\ In(chan, SManager, SMaster, i, "sockets")
                /\ Ch(chan', SManager, SMaster)[i] = Ch(chan, SManager, SMaster)[i]
             \/ /\ Ch(chan', SManager, SMaster)[i][2] = want.b
                /\ i = Len(Ch(chan, SManager, SMaster)) + 1
    BY <2>1, <2>2, <1>0, SendingNow
  <2> HIDE DEF m
  <2>4. /\ "sockets" \notin Socket /\ "sockets" \notin Answers
        /\ "sockets" \notin Done /\ "sockets" \notin Started /\ "sockets" \notin Start
    BY DEF Socket, Answers, Done, Started, Start
  <2>5. /\ OwnInv' /\ DoneInv' /\ RouteInv' /\ Mgr' = "response" /\ spc' \in [SProcs -> Pcs]
        /\ \A p \in SProcs : p # SManager => spc'[p] = spc[p]
    <3>1. "response" \in Pcs
      BY DEF Pcs, Asking
    <3>2. /\ \A b \in Bindings : socks'[b] \subseteq socks[b]
          /\ Mgr \notin Over /\ want'.w \in SWorkers /\ want.w <= want'.w
      BY <1>0, <2>1 DEF ServerTypes, Over
    <3>3. /\ \A w \in SWorkers : Kept(chan, chan', SManager, w, Socket)
          /\ \A w \in SWorkers : Kept(chan, chan', SManager, w, Done)
          /\ \A w \in SWorkers : Kept(chan, chan', w, SManager, Started)
          /\ \A w \in SWorkers : Kept(chan, chan', w, SManager, Other)
          /\ \A p \in SProcs : Kept(chan, chan', SManager, p, Start)
      <4>1. \A w \in SWorkers : Kept(chan, chan', w, SManager, Other)
        BY <1>0, <2>3, KeptSame
      <4> QED
        BY <2>3, <2>4, <4>1
    <3> QED
      BY <2>1, <3>1, <3>2, <3>3, ManagerGoes
  <2>6. ServerTypes'
    BY <2>1, <2>3, <2>5, <1>0 DEF ServerTypes
  <2>7. AtInv'
    BY <2>1, <2>5, <1>0 DEF AtInv, Asking, Bound
  <2>8. AskInv'
    <3>1. \A i \in Nat : ~Is(SManager, SMaster, i, "sockets")
      BY <1>0 DEF ServerInv, AskInv
    <3>2. \A i \in Nat : Is(SManager, SMaster, i, "sockets")' =>
             /\ Ch(chan', SManager, SMaster)[i][2] = want.b
             /\ i = Len(Ch(chan, SManager, SMaster)) + 1
      BY <2>3, <3>1 DEF Is
    <3>3. Ch(chan, SMaster, SManager) = <<>> /\ NoFds
      BY <1>0 DEF ServerInv, AskInv
    <3>4. Ch(chan', SMaster, SManager) = <<>> /\ NoFds'
      BY <2>1, <2>3, <3>3 DEF NoFds
    <3> QED
      BY <1>0, <2>1, <2>2, <2>5, <3>2, <3>4 DEF ServerInv, AskInv, NoFds, Zero
  <2>9. SockInv'
    BY <1>0, <2>1, <2>5 DEF ServerInv, SockInv, Asking, Giving, FdsOf
  <2>10. GiveInv'
    <3>1. \A w \in SWorkers : \A i \in Nat :
            ~Is(SManager, w, i, "socket")' /\ ~Answer(w, i)'
      BY <1>0, <2>3, <2>4, Quiet DEF ServerInv
    <3> QED
      BY <2>5, <3>1 DEF GiveInv
  <2>11. EndInv'
    <3>1. hosts' \subseteq HostNames \cup {<<want.b, "host">>, <<want.b, "address">>}
      BY <1>0, <2>1 DEF ServerInv, EndInv, HostNames
    <3> QED
      BY <1>0, <2>1, <2>5, <3>1 DEF ServerInv, EndInv, HostNames
  <2> QED
    BY <2>5, <2>6, <2>7, <2>8, <2>9, <2>10, <2>11 DEF ServerInv
<1> QED
  BY <1>1, <1>2

\* The number of sockets that follow is known.
LEMMA ResponseKeeps ==
  ASSUME ServerInv, ServerResponse
  PROVE  ServerInv'
<1> USE Procs
<1>0. /\ Mgr = "response" /\ want.b \in Bindings /\ ServerTypes /\ chan \in Chans
      /\ want.w = 0 /\ Has(SMaster, SManager) /\ chan' = Took(SMaster, SManager)
      /\ fdq \in Seq(Int)
  BY DEF ServerInv, AtInv, Bound, Asking, ServerTypes, ServerResponse, Mgr
<1>1. /\ chan' \in Chans
      /\ \A r, s \in SProcs : (r # SMaster \/ s # SManager) =>
           Ch(chan', r, s) = Ch(chan, r, s)
      /\ \A r, s \in SProcs : \A T : Kept(chan, chan', r, s, T)
      /\ First(SMaster, SManager) = Ch(chan, SMaster, SManager)[1]
      /\ Ch(chan, SMaster, SManager) # <<>>
      /\ Len(Ch(chan, SMaster, SManager)) = 1 => Ch(chan', SMaster, SManager) = <<>>
  BY <1>0, TakingNow
<1>2. /\ Ch(chan', SMaster, SManager) = <<>>
      /\ First(SMaster, SManager)[2] = Queueing
      /\ \A i \in Nat : ~Is(SManager, SMaster, i, "sockets")
  BY <1>1 DEF ServerInv, AskInv
<1>3. Queueing \in Int
  BY <1>0 DEF Queueing
<1>4. /\ OwnInv' /\ DoneInv' /\ RouteInv' /\ Mgr' = "receive" /\ spc' \in [SProcs -> Pcs]
      /\ \A p \in SProcs : p # SManager => spc'[p] = spc[p]
  <2>1. "receive" \in Pcs
    BY DEF Pcs, Asking
  <2>2. /\ Goto(SManager, "receive")
        /\ UNCHANGED <<listening, shared, finished, mfds, starts>>
        /\ \A b \in Bindings : socks'[b] \subseteq socks[b]
    BY DEF ServerResponse
  <2>4. Mgr \notin Over /\ want'.w \in SWorkers /\ want.w <= want'.w
    BY <1>0 DEF ServerTypes, Over, ServerResponse
  <2>3. /\ \A w \in SWorkers : Kept(chan, chan', SManager, w, Socket)
        /\ \A w \in SWorkers : Kept(chan, chan', SManager, w, Done)
        /\ \A w \in SWorkers : Kept(chan, chan', w, SManager, Started)
        /\ \A w \in SWorkers : Kept(chan, chan', w, SManager, Other)
        /\ \A p \in SProcs : Kept(chan, chan', SManager, p, Start)
    BY <1>1
  <2> QED
    BY <2>1, <2>2, <2>3, <2>4, ManagerGoes
<1>5. /\ want' = [want EXCEPT !.n = Queueing]
      /\ UNCHANGED <<fdq, mfds, socks, hosts, listening, shared, finished, srun, starts>>
  BY <1>2 DEF ServerResponse
<1>6. /\ want'.n = Queueing /\ want'.b = want.b /\ want'.w = want.w
      /\ want'.timer = want.timer /\ want' \in [b : Int, w : SWorkers, n : Int, timer : BOOLEAN]
  BY <1>0, <1>3, <1>5 DEF ServerTypes
<1>7. ServerTypes'
  BY <1>0, <1>1, <1>4, <1>5, <1>6 DEF ServerTypes
<1>8. AtInv'
  BY <1>0, <1>4, <1>6 DEF AtInv, Asking, Bound
<1>9. AskInv'
  <2>1. \A i \in Nat : ~Is(SManager, SMaster, i, "sockets")'
    BY <1>1, <1>2 DEF Is, In
  <2>2. /\ Zero' <=> Zero
        /\ Queueing' = Queueing
    BY <1>5 DEF Zero, Queueing
  <2> QED
    BY <1>0, <1>2, <1>4, <1>5, <1>6, <2>1, <2>2 DEF ServerInv, AskInv, FdsOf
<1>10. SockInv'
  BY <1>0, <1>4, <1>5 DEF ServerInv, SockInv, Asking, Giving, FdsOf
<1>11. GiveInv'
  <2>1. \A w \in SWorkers : \A i \in Nat :
          ~Is(SManager, w, i, "socket")' /\ ~Answer(w, i)'
    BY <1>0, <1>1, Quiet DEF ServerInv
  <2> QED
    BY <1>4, <2>1 DEF GiveInv
<1>12. EndInv'
  BY <1>0, <1>4, <1>5, <1>6 DEF ServerInv, EndInv, HostNames
<1> QED
  BY <1>4, <1>7, <1>8, <1>9, <1>10, <1>11, <1>12 DEF ServerInv

\* A descriptor arrives, or the time is over.
LEMMA ReceiveFdKeeps ==
  ASSUME ServerInv, ServerReceiveFd
  PROVE  ServerInv'
<1> USE Procs
<1>0. /\ Mgr = "receive" /\ want.b \in Bindings /\ ServerTypes /\ want.w = 0
      /\ fdq \in Seq(Int) /\ fdq # <<>> /\ fdq' = Tail(fdq)
      /\ \A i, j \in DOMAIN fdq : fdq[i] = 0 /\ fdq[j] = 0 => i = j
      /\ UNCHANGED <<chan, mfds, hosts, listening, srun, starts>>
  BY DEF ServerInv, AtInv, AskInv, Bound, Asking, ServerTypes, ServerReceiveFd, Mgr
<1>1. /\ fdq' \in Seq(Int) /\ Head(fdq) = fdq[1] /\ 1 \in DOMAIN fdq
      /\ Zero' => Zero
      /\ (\A i, j \in DOMAIN fdq : fdq[i] = 0 /\ fdq[j] = 0 => i = j)'
      /\ \A i \in DOMAIN fdq' : i + 1 \in DOMAIN fdq /\ fdq'[i] = fdq[i + 1]
      /\ fdq[1] # 0 => Queueing' = Queueing - 1
  BY <1>0, FdTail
<1>2. \A p, q \in SProcs : \A T : Kept(chan, chan', p, q, T)
  BY <1>0, NoMessage
<1>3. \A w \in SWorkers : \A i \in Nat :
         ~Is(SManager, w, i, "socket")' /\ ~Answer(w, i)'
  BY <1>0, <1>2, Quiet DEF ServerInv
<1>4. CASE fdq[1] = 0
  <2>1. Aborts(SManager) /\ UNCHANGED <<socks, want>>
    BY <1>1, <1>4 DEF ServerReceiveFd
  <2>2. ServerTypes'
    BY <1>0, <1>1, <2>1 DEF ServerTypes, Aborts, Goto, Pcs
  <2>3. (Zero => ~want.timer)'
    BY <1>1, <2>1 DEF ServerInv, AskInv
  <2>4. /\ Ch(chan', SMaster, SManager) = Ch(chan, SMaster, SManager)
        /\ \A b \in Bindings : socks'[b] \subseteq socks[b]
    BY <1>0, <2>1
  <2> QED
    BY <1>0, <1>1, <1>2, <1>3, <2>1, <2>2, <2>3, <2>4, ManagerFails
<1>5. CASE fdq[1] # 0
  <2>1. /\ socks' = [socks EXCEPT ![want.b] = @ \cup {fdq[1]}]
        /\ want' = [want EXCEPT !.n = @ - 1]
        /\ UNCHANGED <<shared, finished, spc>>
    BY <1>1, <1>5 DEF ServerReceiveFd
  <2>2. /\ want'.n = want.n - 1 /\ want'.b = want.b /\ want'.w = want.w
        /\ want'.timer = want.timer
        /\ want' \in [b : Int, w : SWorkers, n : Int, timer : BOOLEAN]
    <3>1. want \in [b : Int, w : SWorkers, n : Int, timer : BOOLEAN]
      BY <1>0 DEF ServerTypes
    <3>2. want.n - 1 \in Int
      BY <3>1
    <3> DEFINE k == want.n - 1
    <3>3. want' = [want EXCEPT !.n = k] /\ k \in Int
      BY <2>1, <3>2
    <3> HIDE DEF k
    <3>4. /\ want'.n = k /\ want'.b = want.b /\ want'.w = want.w
          /\ want'.timer = want.timer
          /\ want' \in [b : Int, w : SWorkers, n : Int, timer : BOOLEAN]
      BY <3>1, <3>3
    <3> QED
      BY <3>4 DEF k
  <2>3. fdq[1] \in FdsOf(want.b) /\ fdq[1] \in Int
    BY <1>0, <1>1, <1>5 DEF ServerInv, AskInv
  <2>4. /\ socks' \in [Bindings -> SUBSET Int]
        /\ \A b \in Bindings : socks'[b] \subseteq FdsOf(b)
    BY <1>0, <2>1, <2>3 DEF ServerInv, SockInv, ServerTypes
  <2>5. ServerTypes' /\ Mgr' = "receive"
    BY <1>0, <1>1, <2>1, <2>2, <2>4 DEF ServerTypes, Mgr
  <2>6. AtInv'
    BY <1>0, <2>2, <2>5 DEF AtInv, Asking, Bound
  <2>7. AskInv'
    <3>1. \A i \in Nat : ~Is(SManager, SMaster, i, "sockets")'
      BY <1>0 DEF ServerInv, AskInv, Is
    <3>2. Ch(chan', SMaster, SManager) = <<>>
      BY <1>0 DEF ServerInv, AskInv
    <3>3. Queueing' = want'.n
      BY <1>0, <1>1, <1>5, <2>2 DEF ServerInv, AskInv
    <3>4. \A i \in DOMAIN fdq' : fdq'[i] \in FdsOf(want'.b) \cup {0}
      BY <1>0, <1>1, <2>2 DEF ServerInv, AskInv
    <3>5. Zero' => ~want'.timer
      BY <1>1, <2>2 DEF ServerInv, AskInv
    <3> QED
      BY <1>1, <2>5, <3>1, <3>2, <3>3, <3>4, <3>5 DEF AskInv, FdsOf
  <2>8. /\ SockInv'
        /\ \A w \in SWorkers : Pairs(w)' = {}
    BY <1>0, <2>4, <2>5 DEF ServerInv, SockInv, Asking, Giving, FdsOf, Pairs
  <2>9. OwnInv'
    BY <1>3, <2>8 DEF OwnInv
  <2>10. GiveInv'
    BY <1>3, <2>5 DEF GiveInv
  <2>11. DoneInv'
    <3>1. \A w \in SWorkers : Pairs(w)' = Pairs(w)
      BY <1>0 DEF Pairs
    <3> QED
      BY <1>0, <1>2, <2>1, <2>2, <2>5, <3>1, DoneSame DEF ServerInv, ServerTypes, Passed
  <2>12. EndInv'
    BY <1>0, <2>1, <2>2, <2>5 DEF ServerInv, EndInv, HostNames
  <2>13. RouteInv'
    BY <1>2, RouteSame DEF ServerInv
  <2> QED
    BY <2>5, <2>6, <2>7, <2>8, <2>9, <2>10, <2>11, <2>12, <2>13 DEF ServerInv
<1> QED
  BY <1>4, <1>5

\* The time is over: the receiver will see it in its turn.
LEMMA TimeoutKeeps ==
  ASSUME ServerInv, ServerTimeout
  PROVE  ServerInv'
<1> USE Procs
<1>0. /\ want.timer /\ fdq \in Seq(Int) /\ fdq' = Append(fdq, 0) /\ ~Zero
      /\ want' = [want EXCEPT !.timer = FALSE] /\ ServerTypes /\ shared.done \in Nat
      /\ UNCHANGED <<spc, chan, mfds, socks, hosts, listening, shared, finished,
                     srun, starts>>
  BY DEF ServerInv, AskInv, ServerTypes, ServerTimeout
<1>1. /\ fdq' \in Seq(Int)
      /\ (\A i, j \in DOMAIN fdq : fdq[i] = 0 /\ fdq[j] = 0 => i = j)'
      /\ \A i \in DOMAIN fdq' : (i \in DOMAIN fdq /\ fdq'[i] = fdq[i]) \/ fdq'[i] = 0
      /\ Queueing' = Queueing
  BY <1>0, FdZero
<1>2. /\ want'.n = want.n /\ want'.b = want.b /\ want'.w = want.w /\ ~want'.timer
      /\ want' \in [b : Int, w : SWorkers, n : Int, timer : BOOLEAN]
  BY <1>0 DEF ServerTypes
<1>3. Mgr' = Mgr /\ \A p, q \in SProcs : \A T : Kept(chan, chan', p, q, T)
  BY <1>0, NoMessage DEF Mgr
<1>4. ServerTypes'
  BY <1>0, <1>1, <1>2 DEF ServerTypes
<1>5. AtInv'
  BY <1>2, <1>3 DEF ServerInv, AtInv
<1>6. AskInv'
  <2>1. NoFds => NoFds'
    BY <1>1 DEF NoFds
  <2>2. \A i \in Nat : /\ Is(SManager, SMaster, i, "sockets")' =>
                           Is(SManager, SMaster, i, "sockets")
                       /\ Ch(chan', SManager, SMaster)[i] = Ch(chan, SManager, SMaster)[i]
    BY <1>0 DEF Is
  <2>3. Ch(chan', SMaster, SManager) = Ch(chan, SMaster, SManager)
    BY <1>0
  <2>4. (\A i \in DOMAIN fdq : fdq[i] \in FdsOf(want.b) \cup {0}) =>
          (\A i \in DOMAIN fdq : fdq[i] \in FdsOf(want.b) \cup {0})'
    BY <1>1, <1>2 DEF FdsOf
  <2> QED
    BY <1>1, <1>2, <1>3, <2>1, <2>2, <2>3, <2>4 DEF ServerInv, AskInv
<1>7. SockInv'
  BY <1>0, <1>2, <1>3 DEF ServerInv, SockInv, Given, FdsOf
<1>8. Pairs(0)' = Pairs(0) /\ \A w \in SWorkers : Pairs(w)' = Pairs(w)
  BY <1>0 DEF Pairs
<1>9. OwnInv'
  BY <1>0, <1>3, <1>8, OwnSame DEF ServerInv
<1>10. GiveInv'
  <2>1. \A w \in SWorkers : \A b : Serves(w, b)' <=> Serves(w, b)
    BY <1>8 DEF Serves
  <2> QED
    <3>1. \A w \in SWorkers : \A i \in Nat :
             /\ Is(SManager, w, i, "socket")' <=> Is(SManager, w, i, "socket")
             /\ Is(w, SManager, i, "ok")' <=> Is(w, SManager, i, "ok")
             /\ Answer(w, i)' <=> Answer(w, i)
             /\ Ch(chan', SManager, w)[i] = Ch(chan, SManager, w)[i]
      BY <1>0 DEF Is, Answer
    <3>2. Complete(want.w) => Complete(want.w)'
      BY <1>2, <2>1 DEF Complete, ServerInv, ServerTypes
    <3>3. want.w \in SWorkers
      BY <1>0 DEF ServerTypes
    <3>4. (/\ Mgr \in {"give", "answer"} => \A b \in 1..(want.b - 1) : Serves(want.w, b)
           /\ Mgr = "done_worker" => Complete(want.w))'
      BY <1>2, <1>3, <2>1, <3>2, <3>3 DEF ServerInv, GiveInv
    <3> QED
      BY <1>2, <1>3, <2>1, <3>1, <3>4 DEF ServerInv, GiveInv
<1>11. DoneInv'
  BY <1>0, <1>2, <1>3, <1>8, DoneSame DEF ServerInv, Passed
<1>12. EndInv'
  BY <1>0, <1>2, <1>3 DEF ServerInv, EndInv, HostNames
<1>13. RouteInv'
  BY <1>3, RouteSame DEF ServerInv
<1> QED
  BY <1>4, <1>5, <1>6, <1>7, <1>9, <1>10, <1>11, <1>12, <1>13 DEF ServerInv

\* All sockets of a binding are there.
LEMMA ReceivedKeeps ==
  ASSUME ServerInv, ServerReceived
  PROVE  ServerInv'
<1> USE Procs
<1> DEFINE pc == IF want.b = NServers THEN "give" ELSE "request"
           nb == IF want.b = NServers THEN 1 ELSE want.b + 1
<1>0. /\ Mgr = "receive" /\ want.b \in Bindings /\ ServerTypes /\ chan \in Chans
      /\ want.w = 0 /\ fdq \in Seq(Int) /\ Queueing = 0
      /\ \A i, j \in DOMAIN fdq : fdq[i] = 0 /\ fdq[j] = 0 => i = j
      /\ TrySend(SManager, SMaster, <<"ok", 0>>, chan, pc)
      /\ want' = [want EXCEPT !.b = nb]
      /\ UNCHANGED <<fdq, mfds, socks, listening, srun, starts>>
  BY DEF ServerInv, AtInv, AskInv, Bound, Asking, ServerTypes, ServerReceived, Mgr
<1>1. NoFds
  BY <1>0, FdNone
<1>2. nb \in Bindings /\ nb \in Int /\ (pc = "give" => nb = 1) /\ pc \in {"give", "request"}
  BY <1>0 DEF Bindings
<1>a. hosts' = IF spc'[SManager] = "failed" THEN hosts ELSE hosts \ {<<want.b, "host">>, <<want.b, "address">>}
  BY DEF ServerReceived, FreeHost
<1> HIDE DEF nb, pc
<1>3. /\ want'.n = want.n /\ want'.b = nb /\ want'.w = want.w
      /\ want'.timer = want.timer
      /\ want' \in [b : Int, w : SWorkers, n : Int, timer : BOOLEAN]
  BY <1>0, <1>2 DEF ServerTypes
<1>4. CASE Aborts(SManager) /\ chan' = chan
  <2>1. ServerTypes'
    BY <1>0, <1>3, <1>4 DEF ServerTypes, Aborts, Goto, Pcs
  <2>2. \A p, q \in SProcs : \A T : Kept(chan, chan', p, q, T)
    BY <1>0, <1>4, NoMessage
  <2>3. \A w \in SWorkers : \A i \in Nat :
          ~Is(SManager, w, i, "socket")' /\ ~Answer(w, i)'
    BY <1>0, <2>2, Quiet DEF ServerInv
  <2>4. /\ (Zero => ~want.timer)'
        /\ (\A i, j \in DOMAIN fdq : fdq[i] = 0 /\ fdq[j] = 0 => i = j)'
    BY <1>0, <1>3 DEF ServerInv, AskInv, Zero
  <2>5. /\ Ch(chan', SMaster, SManager) = Ch(chan, SMaster, SManager)
        /\ \A b \in Bindings : socks'[b] \subseteq socks[b]
    BY <1>0, <1>4
  <2> QED
    BY <1>0, <1>4, <2>1, <2>2, <2>3, <2>4, <2>5, ManagerFails
<1>5. CASE ~(Aborts(SManager) /\ chan' = chan)
  <2>1. /\ chan' = Sent(chan, SManager, SMaster, <<"ok", 0>>)
        /\ Goto(SManager, pc) /\ UNCHANGED <<shared, finished>>
    BY <1>0, <1>5 DEF TrySend, Sent
  <2>2. "ok" \in Tags /\ 0 \in Int \cup (Int \X Int)
    BY DEF Tags
  <2>3. /\ chan' \in Chans
        /\ \A r, s \in SProcs : (r # SManager \/ s # SMaster) =>
             Ch(chan', r, s) = Ch(chan, r, s)
        /\ \A r, s \in SProcs : \A T : "ok" \notin T => Kept(chan, chan', r, s, T)
    BY <2>1, <2>2, <1>0, SendingNow
  <2>4. /\ "ok" \notin Socket /\ "ok" \notin Done /\ "ok" \notin Started
        /\ "ok" \notin Start /\ "ok" \notin Other /\ "ok" \notin Request
    BY DEF Socket, Done, Started, Start, Other, Request
  <2>5. /\ OwnInv' /\ DoneInv' /\ RouteInv' /\ Mgr' = pc /\ spc' \in [SProcs -> Pcs]
        /\ \A p \in SProcs : p # SManager => spc'[p] = spc[p]
    <3>1. pc \in Pcs
      BY <1>2 DEF Pcs, Asking, Giving
    <3>2. /\ \A b \in Bindings : socks'[b] \subseteq socks[b]
          /\ Mgr \notin Over /\ want'.w \in SWorkers /\ want.w <= want'.w
      BY <1>0, <1>3 DEF ServerTypes, Over
    <3>3. /\ \A w \in SWorkers : Kept(chan, chan', SManager, w, Socket)
          /\ \A w \in SWorkers : Kept(chan, chan', SManager, w, Done)
          /\ \A w \in SWorkers : Kept(chan, chan', w, SManager, Started)
          /\ \A w \in SWorkers : Kept(chan, chan', w, SManager, Other)
          /\ \A p \in SProcs : Kept(chan, chan', SManager, p, Start)
      BY <2>3, <2>4
    <3>4. UNCHANGED <<listening, shared, finished, mfds, starts>> /\ Goto(SManager, pc)
      BY <1>0, <2>1
    <3> QED
      BY <3>1, <3>2, <3>3, <3>4, ManagerGoes
  <2>6. ServerTypes'
    BY <1>0, <1>3, <2>1, <2>3, <2>5 DEF ServerTypes
  <2>7. AtInv'
    BY <1>0, <1>2, <1>3, <2>5 DEF AtInv, Asking, Giving, Bound
  <2>8. AskInv'
    <3>1. \A i \in Nat : ~Is(SManager, SMaster, i, "sockets")
      BY <1>0 DEF ServerInv, AskInv
    <3>2. "sockets" \in Request /\ Kept(chan, chan', SManager, SMaster, Request)
      BY <2>3, <2>4 DEF Request
    <3>3. \A i \in Nat : ~Is(SManager, SMaster, i, "sockets")'
      BY <3>1, <3>2, KeptHad DEF Is
    <3>4. Ch(chan', SMaster, SManager) = <<>>
      BY <1>0, <2>3 DEF ServerInv, AskInv
    <3>5. NoFds' /\ (Zero' => ~want'.timer)
      BY <1>0, <1>1, <1>3 DEF NoFds, Zero, ServerInv, AskInv
    <3> QED
      BY <1>0, <1>2, <2>5, <3>3, <3>4, <3>5 DEF AskInv
  <2>9. SockInv'
    <3>1. \A b \in Bindings : /\ socks'[b] \subseteq FdsOf(b)
                              /\ Cardinality(socks'[b]) <= NSWorkers
                              /\ Cardinality(socks'[b]) \in Nat
      <4> SUFFICES ASSUME NEW b \in Bindings
                   PROVE  /\ socks'[b] \subseteq FdsOf(b)
                          /\ Cardinality(socks'[b]) <= NSWorkers
                          /\ Cardinality(socks'[b]) \in Nat
        OBVIOUS
      <4>1. socks'[b] \subseteq FdsOf(b)
        BY <1>0 DEF ServerInv, SockInv
      <4>2. IsFiniteSet(FdsOf(b)) /\ Cardinality(FdsOf(b)) = NSWorkers
        BY CountFds
      <4> QED
        BY <4>1, <4>2, FS_Subset, FS_CardinalityType
    <3>2. Mgr' = "give" => \A b \in Bindings : Given(b)' = 0
      <4>1. \A b \in Bindings : ~(b < 1)
        BY DEF Bindings
      <4>2. Mgr' = "give" => want'.b = 1 /\ want'.w = 0
        BY <1>0, <1>2, <1>3, <2>5
      <4> QED
        BY <4>1, <4>2 DEF Given
    <3>3. \A w \in SWorkers : listening'[w] = {}
      BY <1>0 DEF ServerInv, SockInv, Asking
    <3>4. (\A b \in Bindings : socks[b] \subseteq FdsOf(b))'
      BY <3>1 DEF FdsOf
    <3>5. Mgr' = "give" =>
            \A b \in Bindings : Cardinality(socks'[b]) + Given(b)' <= NSWorkers
      BY <3>1, <3>2
    <3>6. Mgr' \in {"give", "request"}
      BY <1>2, <2>5
    <3> QED
      BY <3>3, <3>4, <3>5, <3>6 DEF SockInv, Giving
  <2>10. GiveInv'
    <3>1. \A w \in SWorkers : Kept(chan, chan', w, SManager, Answers)
      BY <1>0, <2>3, KeptSame
    <3>2. \A w \in SWorkers : \A i \in Nat :
            ~Is(SManager, w, i, "socket")' /\ ~Answer(w, i)'
      BY <1>0, <2>3, <2>4, <3>1, Quiet DEF ServerInv
    <3>3. Mgr' = "give" => 1..(want'.b - 1) = {}
      BY <1>2, <1>3, <2>5
    <3> QED
      BY <1>2, <2>5, <3>2, <3>3 DEF GiveInv
  <2>11. EndInv'
    <3>1. hosts' \subseteq HostNames
      <4>1. hosts \subseteq HostNames \cup {<<want.b, "host">>, <<want.b, "address">>}
        BY <1>0 DEF ServerInv, EndInv, HostNames
      <4>2. spc'[SManager] # "failed"
        BY <1>2, <2>5 DEF Mgr
      <4> QED
        BY <1>a, <4>1, <4>2
    <3> QED
      BY <1>0, <1>2, <2>1, <2>5, <3>1 DEF ServerInv, EndInv, HostNames
  <2> QED
    BY <2>5, <2>6, <2>7, <2>8, <2>9, <2>10, <2>11 DEF ServerInv
<1> QED
  BY <1>4, <1>5

\* A set of numbers has a least one.
LEMMA LeastOf ==
  ASSUME NEW S \in SUBSET Nat, S # {}
  PROVE  \E x \in S : \A y \in S : x <= y
<1>1. PICK x \in S : \A y \in S : ~(<<y, x>> \in OpToRel(<, Nat))
  BY WFMin, NatLessThanWellFounded
<1>2. \A y \in S : ~(y < x)
  BY <1>1 DEF OpToRel
<1> QED
  BY <1>2

\* Some socket that the manager holds has the greatest number.
LEMMA GreatestFd ==
  ASSUME NEW b \in Bindings, NEW S \in SUBSET FdsOf(b), S # {}
  PROVE  \E f \in S : \A g \in S : g <= f
<1>1. b \in Nat \ {0} /\ NSWorkers \in Nat \ {0}
  BY ServerAssumption DEF Bindings
<1> DEFINE k == (b - 1) * NSWorkers
           T == {k + NSWorkers - g : g \in S}
<1>2. k \in Nat
  BY <1>1
<1>3. \A g \in S : \E i \in 1..NSWorkers : g = k + i
  BY DEF FdsOf
<1> HIDE DEF k
<1>4. \A g \in S : g \in Nat /\ k + NSWorkers - g \in Nat
  BY <1>1, <1>2, <1>3
<1>5. T \in SUBSET Nat /\ T # {}
  BY <1>4
<1>6. PICK x \in T : \A y \in T : x <= y
  BY <1>5, LeastOf
<1>7. PICK f \in S : x = k + NSWorkers - f
  BY <1>6
<1>8. \A g \in S : k + NSWorkers - f <= k + NSWorkers - g
  BY <1>6, <1>7
<1>9. \A g \in S : g <= f
  BY <1>1, <1>2, <1>4, <1>8
<1> QED
  BY <1>9

\* A worker is given a socket, or there is none left.
LEMMA GiveKeeps ==
  ASSUME ServerInv, ServerGive
  PROVE  ServerInv'
<1> USE Procs
<1> DEFINE S == socks[want.b]
           fd == CHOOSE f \in S : \A g \in S : g <= f
<1>0. /\ Mgr = "give" /\ want.b \in Bindings /\ ServerTypes /\ chan \in Chans
      /\ want.w \in SWorkers /\ want.b \in Int /\ NoFds
      /\ UNCHANGED <<fdq, mfds, want, hosts, listening, srun, starts>>
      /\ S \subseteq FdsOf(want.b)
      /\ S = {} => Aborts(SManager) /\ UNCHANGED <<chan, socks>>
      /\ S # {} => /\ Give(want.b, fd)
                   /\ TrySend(SManager, want.w, <<"socket", <<want.b, fd>>>>, chan, "answer")
  BY DEF ServerInv, AtInv, AskInv, SockInv, Bound, ServerTypes, ServerGive, Mgr
<1>1. IsFiniteSet(S) /\ IsFiniteSet(FdsOf(want.b)) /\ FdsOf(want.b) \subseteq Nat \ {0}
  BY <1>0, CountFds, FS_Subset
<1>2. S # {} => fd \in S /\ fd \in FdsOf(want.b) /\ fd \in Int
  <2>1. S # {} => \E f \in S : \A g \in S : g <= f
    BY <1>0, GreatestFd
  <2>2. S # {} => fd \in S
    BY <2>1
  <2> QED
    BY <1>0, <1>1, <2>2
<1> HIDE DEF fd
<1>3. /\ \A b \in Bindings : socks'[b] \subseteq socks[b]
      /\ socks' \in [Bindings -> SUBSET Int]
      /\ S # {} => socks'[want.b] = S \ {fd}
      /\ S # {} => \A b \in Bindings : b # want.b => socks'[b] = socks[b]
  <2>0. socks \in [Bindings -> SUBSET Int]
    BY <1>0 DEF ServerTypes
  <2>1. CASE S = {}
    BY <1>0, <2>0, <2>1
  <2>2. CASE S # {}
    <3>1. socks' = [socks EXCEPT ![want.b] = @ \ {fd}]
      BY <1>0, <2>2 DEF Give
    <3> QED
      BY <1>0, <2>0, <2>2, <3>1
  <2> QED
    BY <2>1, <2>2
<1>4. CASE Aborts(SManager) /\ chan' = chan
  <2>1. ServerTypes'
    BY <1>0, <1>3, <1>4 DEF ServerTypes, Aborts, Goto, Pcs
  <2>2. \A p, q \in SProcs : \A T : Kept(chan, chan', p, q, T)
    BY <1>0, <1>4, NoMessage
  <2>3. \A w \in SWorkers : \A i \in Nat :
          ~Is(SManager, w, i, "socket")' /\ ~Answer(w, i)'
    BY <1>0, <2>2, Quiet DEF ServerInv
  <2>4. /\ (Zero => ~want.timer)'
        /\ (\A i, j \in DOMAIN fdq : fdq[i] = 0 /\ fdq[j] = 0 => i = j)'
    BY <1>0 DEF ServerInv, AskInv, Zero
  <2>5. Ch(chan', SMaster, SManager) = Ch(chan, SMaster, SManager)
    BY <1>4
  <2> QED
    BY <1>0, <1>3, <1>4, <2>1, <2>2, <2>3, <2>4, <2>5, ManagerFails
<1>5. CASE ~(Aborts(SManager) /\ chan' = chan)
  <2> DEFINE x == <<want.b, fd>>
  <2>0. S # {} /\ fd \in S /\ fd \in FdsOf(want.b) /\ fd \in Int
    BY <1>0, <1>2, <1>5
  <2>1. /\ chan' = Sent(chan, SManager, want.w, <<"socket", x>>)
        /\ Goto(SManager, "answer") /\ UNCHANGED <<shared, finished>>
    BY <1>0, <1>5, <2>0 DEF TrySend, Sent
  <2>2. /\ "socket" \in Tags /\ x \in Int \cup (Int \X Int)
        /\ x \in Bindings \X Int /\ x[1] = want.b /\ x[2] = fd
    BY <1>0, <2>0 DEF Tags
  <2> HIDE DEF x
  <2>3. /\ chan' \in Chans
        /\ \A r, s \in SProcs : (r # SManager \/ s # want.w) =>
             Ch(chan', r, s) = Ch(chan, r, s)
        /\ \A r, s \in SProcs : \A T : "socket" \notin T => Kept(chan, chan', r, s, T)
        /\ \A i \in Nat : In(chan', SManager, want.w, i, "socket") =>
             \/ /\ In(chan, SManager, want.w, i, "socket")
                /\ Ch(chan', SManager, want.w)[i] = Ch(chan, SManager, want.w)[i]
             \/ /\ Ch(chan', SManager, want.w)[i][2] = x
                /\ i = Len(Ch(chan, SManager, want.w)) + 1
    BY <2>1, <2>2, <1>0, SendingNow
  <2>4. /\ "socket" \notin Answers /\ "socket" \notin Done /\ "socket" \notin Started
        /\ "socket" \notin Start /\ "socket" \notin Request
    BY DEF Answers, Done, Started, Start, Request
  <2>5. /\ Mgr' = "answer" /\ spc' \in [SProcs -> Pcs]
        /\ \A p \in SProcs : p # SManager => spc'[p] = spc[p]
    BY <1>0, <2>1 DEF Goto, ServerTypes, Mgr, Pcs, Giving
  <2>6. ServerTypes'
    BY <1>0, <1>3, <2>1, <2>3, <2>5 DEF ServerTypes
  <2>7. AtInv'
    BY <1>0, <2>5 DEF AtInv, Asking, Giving, Bound
  <2>8. AskInv'
    BY <1>0, <2>3, <2>4, <2>5, AskNot DEF ServerInv
  <2>9. SockInv'
    <3>1. Cardinality(S \ {fd}) = Cardinality(S) - 1 /\ Cardinality(S) \in Nat
      BY <1>1, <2>0, FS_RemoveElement, FS_CardinalityType
    <3>2. \A b \in Bindings : Cardinality(socks[b]) + Given(b) <= NSWorkers
      BY <1>0 DEF ServerInv, SockInv, Giving
    <3>3. want.w \in Int /\ \A b \in Bindings : b \in Int
      BY <1>0 DEF Bindings
    <3>4. /\ \A b \in Bindings : b = want.b => Given(b) = want.w /\ Given(b)' = want.w + 1
          /\ \A b \in Bindings : b # want.b => Given(b)' = Given(b)
      BY <1>0, <2>5, <3>3 DEF Given
    <3>5. \A b \in Bindings : Cardinality(socks'[b]) + Given(b)' <= NSWorkers
      <4> SUFFICES ASSUME NEW b \in Bindings
                   PROVE  Cardinality(socks'[b]) + Given(b)' <= NSWorkers
        OBVIOUS
      <4>1. CASE b = want.b
        <5>1. Cardinality(S) + want.w <= NSWorkers
          BY <1>0, <3>2, <3>4, <4>1
        <5>2. Cardinality(socks'[b]) = Cardinality(S) - 1
          BY <1>3, <2>0, <3>1, <4>1
        <5>3. \A c, g \in Int : c + g <= NSWorkers => (c - 1) + (g + 1) <= NSWorkers
          OBVIOUS
        <5>4. Cardinality(S) \in Int /\ Given(b)' = want.w + 1
          BY <3>1, <3>4, <4>1
        <5> QED
          BY <3>3, <5>1, <5>2, <5>3, <5>4
      <4>2. CASE b # want.b
        BY <1>3, <2>0, <3>2, <3>4, <4>2
      <4> QED
        BY <4>1, <4>2
    <3>6. (\A b \in Bindings : socks[b] \subseteq FdsOf(b))'
      BY <1>3 DEF ServerInv, SockInv, FdsOf
    <3> QED
      BY <2>5, <3>5, <3>6 DEF SockInv, Asking
  <2>10. \A w \in SWorkers : \A i \in Nat :
            ~Is(SManager, w, i, "socket") /\ ~Answer(w, i)
    BY <1>0 DEF ServerInv, GiveInv
  <2>11. \A w \in SWorkers : \A i \in Nat : Is(SManager, w, i, "socket")' =>
            /\ w = want.w /\ Ch(chan', SManager, w)[i][2] = x
            /\ i = Len(Ch(chan, SManager, want.w)) + 1
    <3> SUFFICES ASSUME NEW w \in SWorkers, NEW i \in Nat, In(chan', SManager, w, i, "socket")
                 PROVE  /\ w = want.w /\ Ch(chan', SManager, w)[i][2] = x
                        /\ i = Len(Ch(chan, SManager, want.w)) + 1
      BY DEF Is
    <3>1. CASE w # want.w
      BY <2>3, <2>10, <3>1 DEF Is, In
    <3>2. CASE w = want.w
      BY <2>3, <2>10, <3>2 DEF Is
    <3> QED
      BY <3>1, <3>2
  <2>12. \A w \in SWorkers : Pairs(w)' = Pairs(w)
    BY <1>0 DEF Pairs
  <2>13. OwnInv'
    <3>1. \A v \in SWorkers : \A y \in Pairs(v) : y[2] # fd
      <4> SUFFICES ASSUME NEW v \in SWorkers, NEW y \in Pairs(v), y[2] = fd
                   PROVE  FALSE
        OBVIOUS
      <4>1. y[1] \in Bindings /\ y[2] \in FdsOf(y[1]) /\ y[2] \notin socks[y[1]]
        BY DEF ServerInv, OwnInv
      <4>2. y[1] = want.b
        BY <1>0, <2>0, <4>1, OwnFds
      <4> QED
        BY <2>0, <4>1, <4>2
    <3>2. (\A w \in SWorkers : \A i \in Nat : Is(SManager, w, i, "socket") =>
             LET s == Ch(chan, SManager, w)[i][2]
             IN  /\ s \in Bindings \X Int /\ s[2] \in FdsOf(s[1])
                 /\ s[2] \notin socks[s[1]]
                 /\ \A v \in SWorkers : \A y \in Pairs(v) : y[2] # s[2])'
      <4>1. /\ x \in Bindings \X Int /\ x[2] \in FdsOf(x[1])
            /\ x[2] \notin socks'[x[1]]
            /\ \A v \in SWorkers : \A y \in Pairs(v)' : y[2] # x[2]
        BY <1>3, <2>0, <2>2, <2>12, <3>1
      <4> QED
        BY <2>11, <4>1 DEF FdsOf
    <3>3. (\A w \in SWorkers : \A y \in Pairs(w) :
             y[1] \in Bindings /\ y[2] \in FdsOf(y[1]) /\ y[2] \notin socks[y[1]])'
      BY <1>3, <2>12 DEF ServerInv, OwnInv, FdsOf
    <3>4. (\A v, w \in SWorkers : \A y \in Pairs(v), z \in Pairs(w) :
             y[2] = z[2] => v = w)'
      BY <2>12 DEF ServerInv, OwnInv
    <3> QED
      BY <3>2, <3>3, <3>4 DEF OwnInv
  <2>14. GiveInv'
    <3>1. \A w \in SWorkers : \A i \in Nat : ~Answer(w, i)'
      <4>1. \A w \in SWorkers : Ch(chan', w, SManager) = Ch(chan, w, SManager)
        BY <2>3
      <4> QED
        BY <2>10, <4>1 DEF Answer, Is, In
    <3>2. (\A b \in 1..(want.b - 1) : Serves(want.w, b))'
      <4>1. \A b \in 1..(want.b - 1) : Serves(want.w, b)
        BY <1>0 DEF ServerInv, GiveInv
      <4>2. \A b : Serves(want.w, b) => Serves(want.w, b)'
        BY <1>0, <2>12 DEF Serves
      <4>3. want'.w = want.w /\ want'.b = want.b
        BY <1>0
      <4> QED
        BY <4>1, <4>2, <4>3 DEF Serves
    <3>3. \A w \in SWorkers : \A i \in Nat : Is(SManager, w, i, "socket")' =>
            w = want'.w /\ Ch(chan', SManager, w)[i][2][1] = want'.b
      BY <1>0, <2>2, <2>11
    <3>4. (\A w \in SWorkers : \A i \in Nat : Is(SManager, w, i, "socket") =>
             /\ Mgr = "answer" /\ w = want.w /\ Ch(chan, SManager, w)[i][2][1] = want.b
             /\ \A j \in Nat : ~Answer(w, j) /\ (Is(SManager, w, j, "socket") => i = j))'
      BY <2>5, <2>11, <3>1, <3>3
    <3>5. (\A w \in SWorkers : \A i \in Nat : Answer(w, i) =>
             /\ Mgr = "answer" /\ w = want.w
             /\ Is(w, SManager, i, "ok") => Serves(w, want.b)
             /\ \A j \in Nat : Answer(w, j) => i = j)'
      BY <3>1
    <3> QED
      BY <2>5, <3>2, <3>4, <3>5 DEF GiveInv
  <2>15. DoneInv'
    <3>1. \A w \in SWorkers : Passed(w) => Passed(w)'
      BY <1>0 DEF Passed, Over
    <3>2. /\ \A w \in SWorkers : Kept(chan, chan', SManager, w, Done)
          /\ \A w \in SWorkers : Kept(chan, chan', w, SManager, Started)
          /\ \A p \in SProcs : Kept(chan, chan', SManager, p, Start)
      BY <2>3, <2>4
    <3>3. /\ Mgr \notin Over /\ shared.done \in Nat
          /\ \A w \in SWorkers : spc[w] # "wait" => spc'[w] # "wait"
      BY <1>0, <2>5 DEF Over, ServerTypes
    <3> QED
      BY <1>0, <2>1, <2>12, <3>1, <3>2, <3>3, DoneSame DEF ServerInv
  <2>16. RouteInv'
    <3>1. \A w \in SWorkers : Kept(chan, chan', w, SManager, Other)
      BY <1>0, <2>3, KeptSame
    <3> QED
      BY <3>1, RouteSame DEF ServerInv
  <2>17. EndInv'
    BY <1>0, <2>1, <2>5 DEF ServerInv, EndInv, HostNames
  <2> QED
    BY <2>6, <2>7, <2>8, <2>9, <2>13, <2>14, <2>15, <2>16, <2>17 DEF ServerInv
<1> QED
  BY <1>4, <1>5

\* A worker has answered.
LEMMA AnswerKeeps ==
  ASSUME ServerInv, ServerAnswer
  PROVE  ServerInv'
<1> USE Procs
<1> DEFINE w0 == want.w
<1>0. /\ Mgr = "answer" /\ want.b \in Bindings /\ ServerTypes /\ chan \in Chans
      /\ w0 \in SWorkers /\ want.b \in Int
      /\ Has(w0, SManager) /\ chan' = Took(w0, SManager)
      /\ UNCHANGED <<fdq, mfds, socks, hosts, listening, srun, starts>>
  BY DEF ServerInv, AtInv, Bound, ServerTypes, ServerAnswer, Mgr
<1>1. /\ chan' \in Chans
      /\ \A r, s \in SProcs : (r # w0 \/ s # SManager) => Ch(chan', r, s) = Ch(chan, r, s)
      /\ \A r, s \in SProcs : \A T : Kept(chan, chan', r, s, T)
      /\ \A i \in Nat : \A t :
           In(chan', w0, SManager, i, t) => In(chan, w0, SManager, i + 1, t) /\ i > 0
      /\ \A t : First(w0, SManager)[1] = t => In(chan, w0, SManager, 1, t)
      /\ First(w0, SManager) = Ch(chan, w0, SManager)[1]
      /\ Ch(chan, w0, SManager)[1] \in SMsgs
  BY <1>0, TakingNow
<1>2. Answer(w0, 1)
  <2>1. First(w0, SManager)[1] \in Tags
    BY <1>1 DEF SMsgs
  <2>2. First(w0, SManager)[1] \notin Other
    BY <1>0, <1>1 DEF ServerInv, RouteInv, Is
  <2>3. First(w0, SManager)[1] # "started"
    <3>1. ~Is(w0, SManager, 1, "started")
      BY <1>0 DEF ServerInv, DoneInv, StartedSaid, Over
    <3> QED
      BY <1>1, <3>1 DEF Is
  <2>4. First(w0, SManager)[1] \in {"ok", "not ok"}
    BY <2>1, <2>2, <2>3 DEF Other
  <2> QED
    BY <1>1, <2>4 DEF Answer, Is
<1>3. \A w \in SWorkers : \A i \in Nat :
         ~Is(SManager, w, i, "socket")' /\ ~Answer(w, i)'
  <2>1. \A i \in Nat : ~Is(SManager, w0, i, "socket")
    BY <1>0, <1>2 DEF ServerInv, GiveInv
  <2>2. \A w \in SWorkers : \A i \in Nat : ~Is(SManager, w, i, "socket")
    BY <1>0, <2>1 DEF ServerInv, GiveInv
  <2>3. \A w \in SWorkers : \A i \in Nat : ~Is(SManager, w, i, "socket")'
    BY <1>0, <1>1, <2>2 DEF Is, In
  <2>4. \A w \in SWorkers : \A i \in Nat : w # w0 => ~Answer(w, i)'
    <3>1. \A w \in SWorkers : \A i \in Nat : w # w0 => ~Answer(w, i)
      BY DEF ServerInv, GiveInv
    <3>2. \A w \in SWorkers : w # w0 => Ch(chan', w, SManager) = Ch(chan, w, SManager)
      BY <1>0, <1>1
    <3> QED
      BY <3>1, <3>2 DEF Answer, Is, In
  <2>5. \A i \in Nat : Answer(w0, i) => i = 1
    BY <1>0, <1>2 DEF ServerInv, GiveInv
  <2>6. \A i \in Nat : ~In(chan', w0, SManager, i, "ok") /\ ~In(chan', w0, SManager, i, "not ok")
    <3> SUFFICES ASSUME NEW i \in Nat
                 PROVE  ~In(chan', w0, SManager, i, "ok") /\ ~In(chan', w0, SManager, i, "not ok")
      OBVIOUS
    <3>1. i + 1 \in Nat /\ (i > 0 => i + 1 # 1)
      OBVIOUS
    <3>2. i > 0 => ~Answer(w0, i + 1)
      BY <2>5, <3>1
    <3>3. i > 0 => /\ ~In(chan, w0, SManager, i + 1, "ok")
                   /\ ~In(chan, w0, SManager, i + 1, "not ok")
      BY <3>2 DEF Answer, Is
    <3> QED
      BY <1>1, <3>3
  <2>7. \A w \in SWorkers : \A i \in Nat : ~Answer(w, i)'
    BY <2>4, <2>6 DEF Answer, Is
  <2> QED
    BY <2>3, <2>7
<1>4. CASE First(w0, SManager)[1] # "ok"
  <2>0. Aborts(SManager) /\ UNCHANGED want
    BY <1>4 DEF ServerAnswer
  <2>1. ServerTypes'
    BY <1>0, <1>1, <2>0 DEF ServerTypes, Aborts, Goto, Pcs
  <2>4. /\ (Zero => ~want.timer)'
        /\ (\A i, j \in DOMAIN fdq : fdq[i] = 0 /\ fdq[j] = 0 => i = j)'
    BY <1>0, <2>0 DEF ServerInv, AskInv, Zero
  <2>5. /\ Ch(chan', SMaster, SManager) = Ch(chan, SMaster, SManager)
        /\ \A b \in Bindings : socks'[b] \subseteq socks[b]
    BY <1>0, <1>1
  <2> QED
    BY <1>0, <1>1, <1>3, <2>0, <2>1, <2>4, <2>5, ManagerFails
<1>5. CASE First(w0, SManager)[1] = "ok"
  <2> DEFINE pc == IF want.b = NServers THEN "done_worker" ELSE "give"
             nb == IF want.b = NServers THEN 1 ELSE want.b + 1
  <2>1. /\ Goto(SManager, pc) /\ want' = [want EXCEPT !.b = nb]
        /\ UNCHANGED <<shared, finished>>
    BY <1>5 DEF ServerAnswer
  <2>2. /\ nb \in Int /\ nb \in Bindings /\ pc \in {"done_worker", "give"}
        /\ pc = "done_worker" => nb = 1 /\ want.b = NServers
        /\ pc = "give" => nb = want.b + 1
    BY <1>0 DEF Bindings
  <2> HIDE DEF nb, pc
  <2>3. /\ want'.n = want.n /\ want'.b = nb /\ want'.w = want.w
        /\ want'.timer = want.timer
        /\ want' \in [b : Int, w : SWorkers, n : Int, timer : BOOLEAN]
    BY <1>0, <2>1, <2>2 DEF ServerTypes
  <2>5. /\ OwnInv' /\ DoneInv' /\ RouteInv' /\ Mgr' = pc /\ spc' \in [SProcs -> Pcs]
        /\ \A p \in SProcs : p # SManager => spc'[p] = spc[p]
    <3>1. pc \in Pcs
      BY <2>2 DEF Pcs, Giving
    <3>2. /\ \A b \in Bindings : socks'[b] \subseteq socks[b]
          /\ Mgr \notin Over /\ want'.w \in SWorkers /\ want.w <= want'.w
      BY <1>0, <2>3 DEF ServerTypes, Over
    <3>3. /\ \A w \in SWorkers : Kept(chan, chan', SManager, w, Socket)
          /\ \A w \in SWorkers : Kept(chan, chan', SManager, w, Done)
          /\ \A w \in SWorkers : Kept(chan, chan', w, SManager, Started)
          /\ \A w \in SWorkers : Kept(chan, chan', w, SManager, Other)
          /\ \A p \in SProcs : Kept(chan, chan', SManager, p, Start)
      BY <1>1
    <3>4. UNCHANGED <<listening, shared, finished, mfds, starts>> /\ Goto(SManager, pc)
      BY <1>0, <2>1
    <3> QED
      BY <3>1, <3>2, <3>3, <3>4, ManagerGoes
  <2>6. ServerTypes'
    BY <1>0, <1>1, <2>1, <2>3, <2>5 DEF ServerTypes
  <2>7. AtInv'
    BY <1>0, <2>2, <2>3, <2>5 DEF AtInv, Asking, Giving, Bound
  <2>8. AskInv'
    BY <1>0, <1>1, <2>2, <2>3, <2>5, AskNot DEF ServerInv
  <2>9. SockInv'
    <3>1. \A b \in Bindings : Given(b)' = Given(b)
      <4>1. \A b \in Bindings : b \in Int /\ b <= NServers
        BY DEF Bindings
      <4>2. Mgr = "answer" /\ want.b \in Int /\ want'.w = want.w
        BY <1>0, <2>3 DEF Bindings
      <4>3. CASE pc = "done_worker"
        <5>1. Mgr' = "done_worker" /\ want.b = NServers
          BY <2>2, <2>5, <4>3
        <5>2. \A b \in Bindings : b < want.b \/ b = want.b
          BY <4>1, <4>2, <5>1
        <5> QED
          BY <4>2, <5>1, <5>2 DEF Given
      <4>4. CASE pc = "give"
        <5>1. Mgr' = "give" /\ want'.b = want.b + 1
          BY <2>2, <2>3, <2>5, <4>4
        <5>2. \A b \in Bindings : b < want'.b <=> b < want.b \/ b = want.b
          BY <4>1, <4>2, <5>1
        <5> QED
          BY <4>2, <5>1, <5>2 DEF Given
      <4> QED
        BY <2>2, <4>3, <4>4
    <3> QED
      BY <1>0, <2>2, <2>5, <3>1 DEF ServerInv, SockInv, Giving, Asking, FdsOf
  <2>10. GiveInv'
    <3>1. Serves(w0, want.b)
      BY <1>0, <1>1, <1>2, <1>5 DEF ServerInv, GiveInv, Is
    <3>2. \A b \in 1..(want.b - 1) : Serves(w0, b)
      BY <1>0 DEF ServerInv, GiveInv
    <3>3. \A b \in 1..want.b : Serves(w0, b)
      <4>1. \A b \in 1..want.b : b = want.b \/ b \in 1..(want.b - 1)
        BY <1>0
      <4> QED
        BY <3>1, <3>2, <4>1
    <3>4. \A w \in SWorkers : \A b : Serves(w, b)' <=> Serves(w, b)
      BY <1>0 DEF Serves, Pairs
    <3>5. (Mgr = "give" => \A b \in 1..(want.b - 1) : Serves(want.w, b))'
      <4>1. Mgr' = "give" => want'.b - 1 = want.b
        BY <1>0, <2>2, <2>3, <2>5
      <4> QED
        BY <1>0, <2>3, <3>3, <3>4, <4>1
    <3>6. (Mgr = "done_worker" => Complete(want.w))'
      <4>1. Mgr' = "done_worker" => \A b \in Bindings : b \in 1..want.b
        BY <2>2, <2>5 DEF Bindings
      <4> QED
        BY <1>0, <2>3, <3>3, <3>4, <4>1 DEF Complete
    <3> QED
      BY <1>3, <2>2, <2>5, <3>5, <3>6 DEF GiveInv
  <2>11. EndInv'
    BY <1>0, <2>1, <2>2, <2>5 DEF ServerInv, EndInv, HostNames
  <2> QED
    BY <2>5, <2>6, <2>7, <2>8, <2>9, <2>10, <2>11 DEF ServerInv
<1> QED
  BY <1>4, <1>5

\* A worker has all its sockets and is told so.
LEMMA DoneWorkerKeeps ==
  ASSUME ServerInv, ServerDoneWorker
  PROVE  ServerInv'
<1> USE Procs
<1> DEFINE last == want.w = NSWorkers - 1
           pc == IF last THEN "done_master"
                 ELSE IF NServers = 0 THEN "done_worker" ELSE "give"
           nw == IF last THEN want.w ELSE want.w + 1
<1>0. /\ Mgr = "done_worker" /\ ServerTypes /\ chan \in Chans
      /\ want.w \in SWorkers /\ want.b = 1 /\ NoFds
      /\ TrySend(SManager, want.w, <<"done", 0>>, chan, pc)
      /\ want' = [want EXCEPT !.w = nw]
      /\ UNCHANGED <<fdq, mfds, socks, hosts, listening, srun, starts>>
  BY DEF ServerInv, AtInv, AskInv, ServerTypes, ServerDoneWorker, Mgr
<1>1. /\ nw \in SWorkers /\ want.w <= nw /\ pc \in {"done_master", "done_worker", "give"}
      /\ pc = "done_worker" => NServers = 0
      /\ pc = "give" => NServers # 0
      /\ pc # "done_master" => nw = want.w + 1
      /\ pc = "done_master" => want.w = NSWorkers - 1
  BY <1>0 DEF SWorkers
<1> HIDE DEF nw, pc
<1>2. /\ want'.n = want.n /\ want'.b = want.b /\ want'.w = nw
      /\ want'.timer = want.timer
      /\ want' \in [b : Int, w : SWorkers, n : Int, timer : BOOLEAN]
  BY <1>0, <1>1 DEF ServerTypes
<1>3. CASE Aborts(SManager) /\ chan' = chan
  <2>1. ServerTypes'
    BY <1>0, <1>2, <1>3 DEF ServerTypes, Aborts, Goto, Pcs
  <2>2. \A p, q \in SProcs : \A T : Kept(chan, chan', p, q, T)
    BY <1>0, <1>3, NoMessage
  <2>3. \A w \in SWorkers : \A i \in Nat :
          ~Is(SManager, w, i, "socket")' /\ ~Answer(w, i)'
    BY <1>0, <2>2, Quiet DEF ServerInv
  <2>4. /\ (Zero => ~want.timer)'
        /\ (\A i, j \in DOMAIN fdq : fdq[i] = 0 /\ fdq[j] = 0 => i = j)'
    BY <1>0, <1>2 DEF ServerInv, AskInv, Zero
  <2>5. /\ Ch(chan', SMaster, SManager) = Ch(chan, SMaster, SManager)
        /\ \A b \in Bindings : socks'[b] \subseteq socks[b]
    BY <1>0, <1>3
  <2> QED
    BY <1>0, <1>3, <2>1, <2>2, <2>3, <2>4, <2>5, ManagerFails
<1>4. CASE ~(Aborts(SManager) /\ chan' = chan)
  <2>1. /\ chan' = Sent(chan, SManager, want.w, <<"done", 0>>)
        /\ Goto(SManager, pc) /\ UNCHANGED <<shared, finished>>
    BY <1>0, <1>4 DEF TrySend, Sent
  <2>2. "done" \in Tags /\ 0 \in Int \cup (Int \X Int)
    BY DEF Tags
  <2>3. /\ chan' \in Chans
        /\ \A r, s \in SProcs : (r # SManager \/ s # want.w) =>
             Ch(chan', r, s) = Ch(chan, r, s)
        /\ \A r, s \in SProcs : \A T : "done" \notin T => Kept(chan, chan', r, s, T)
    BY <2>1, <2>2, <1>0, SendingNow
  <2>4. /\ "done" \notin Socket /\ "done" \notin Answers /\ "done" \notin Started
        /\ "done" \notin Start /\ "done" \notin Request
    BY DEF Socket, Answers, Started, Start, Request
  <2>5. /\ Mgr' = pc /\ spc' \in [SProcs -> Pcs]
        /\ \A p \in SProcs : p # SManager => spc'[p] = spc[p]
    BY <1>0, <1>1, <2>1 DEF Goto, ServerTypes, Mgr, Pcs, Giving
  <2>6. ServerTypes'
    BY <1>0, <1>2, <2>1, <2>3, <2>5 DEF ServerTypes
  <2>7. AtInv'
    BY <1>0, <1>1, <1>2, <2>5 DEF AtInv, Asking, Giving, Bound, Bindings
  <2>8. AskInv'
    BY <1>0, <1>1, <1>2, <2>3, <2>4, <2>5, AskNot DEF ServerInv
  <2>9. SockInv'
    <3>1. \A b \in Bindings : Cardinality(socks[b]) + (want.w + 1) <= NSWorkers
      BY <1>0 DEF ServerInv, SockInv, Giving, Given
    <3>2. \A b \in Bindings : IsFiniteSet(socks[b]) /\ Cardinality(socks[b]) \in Nat
      BY CountFds, FS_Subset, FS_CardinalityType DEF ServerInv, SockInv
    <3>3. Mgr' = "done_master" => \A b \in Bindings : socks'[b] = {}
      <4> SUFFICES ASSUME Mgr' = "done_master", NEW b \in Bindings
                   PROVE  socks'[b] = {}
        OBVIOUS
      <4>1. Cardinality(socks[b]) = 0
        BY <1>0, <1>1, <2>5, <3>1, <3>2
      <4> QED
        BY <1>0, <3>2, <4>1, FS_EmptySet
    <3>4. Mgr' = "give" => \A b \in Bindings : Given(b)' = want.w + 1
      <4>1. \A b \in Bindings : ~(b < 1)
        BY DEF Bindings
      <4> QED
        BY <1>0, <1>1, <1>2, <2>5, <4>1 DEF Given
    <3>5. Mgr' = "done_worker" => Bindings = {}
      BY <1>1, <2>5 DEF Bindings
    <3>6. Mgr' \in Giving => \A b \in Bindings : Cardinality(socks'[b]) + Given(b)' <= NSWorkers
      BY <1>0, <1>1, <2>5, <3>1, <3>4, <3>5 DEF Giving
    <3>7. (\A b \in Bindings : socks[b] \subseteq FdsOf(b))'
      BY <1>0 DEF ServerInv, SockInv, FdsOf
    <3> QED
      BY <1>1, <2>5, <3>3, <3>6, <3>7 DEF SockInv, Asking
  <2>10. \A w \in SWorkers : Pairs(w)' = Pairs(w)
    BY <1>0 DEF Pairs
  <2>11. OwnInv'
    BY <1>0, <2>3, <2>4, <2>10, OwnSame DEF ServerInv
  <2>12. GiveInv'
    <3>1. \A w \in SWorkers : \A i \in Nat :
            ~Is(SManager, w, i, "socket")' /\ ~Answer(w, i)'
      BY <1>0, <2>3, <2>4, Quiet DEF ServerInv
    <3>2. Mgr' = "give" => 1..(want'.b - 1) = {}
      BY <1>0, <1>2
    <3>3. Mgr' = "done_worker" => Bindings = {}
      BY <1>1, <2>5 DEF Bindings
    <3> QED
      BY <1>1, <2>5, <3>1, <3>2, <3>3 DEF GiveInv, Complete
  <2>13. DoneInv'
    <3>1. Complete(want.w)
      BY <1>0 DEF ServerInv, GiveInv
    <3>2. \A w \in SWorkers : w <= want.w => Passed(w)'
      BY <1>0, <1>1, <1>2, <2>5 DEF Passed, Over
    <3>3. \A w \in SWorkers : Passed(w) => Passed(w)'
      BY <1>0, <3>2 DEF Passed, Over
    <3>4. /\ Mgr \notin Over /\ shared.done \in Nat
          /\ \A w \in SWorkers : spc[w] # "wait" => spc'[w] # "wait"
      BY <1>0, <2>5 DEF Over, ServerTypes
    <3>5. /\ \A w \in SWorkers : Kept(chan, chan', w, SManager, Started)
          /\ \A p \in SProcs : Kept(chan, chan', SManager, p, Start)
      BY <2>3, <2>4
    <3>6. /\ StartedSaid' /\ StartSaid' /\ StartHeard' /\ CountRight'
          /\ \A w \in SWorkers : Complete(w) => Complete(w)'
      BY <1>0, <2>1, <2>10, <3>3, <3>4, <3>5, DoneEach DEF ServerInv
    <3>7. DoneSaid'
      <4> SUFFICES ASSUME NEW w \in SWorkers, NEW i \in Nat, Is(SManager, w, i, "done")'
                   PROVE  Complete(w)' /\ Passed(w)'
        BY DEF DoneSaid
      <4>1. CASE w = want.w
        BY <1>0, <3>1, <3>2, <3>6, <4>1
      <4>2. CASE w # want.w
        <5>1. Is(SManager, w, i, "done")
          BY <2>3, <4>2 DEF Is, In
        <5> QED
          BY <3>3, <3>6, <5>1 DEF ServerInv, DoneInv, DoneSaid
      <4> QED
        BY <4>1, <4>2
    <3> QED
      BY <3>6, <3>7 DEF DoneInv
  <2>14. RouteInv'
    <3>1. \A w \in SWorkers : Kept(chan, chan', w, SManager, Other)
      BY <1>0, <2>3, KeptSame
    <3> QED
      BY <3>1, RouteSame DEF ServerInv
  <2>15. EndInv'
    BY <1>0, <1>1, <2>1, <2>5 DEF ServerInv, EndInv, HostNames
  <2> QED
    BY <2>6, <2>7, <2>8, <2>9, <2>11, <2>12, <2>13, <2>14, <2>15 DEF ServerInv
<1> QED
  BY <1>3, <1>4

\* The last worker was told: the master is too.
LEMMA DoneMasterKeeps ==
  ASSUME ServerInv, ServerDoneMaster
  PROVE  ServerInv'
<1> USE Procs
<1>0. /\ Mgr = "done_master" /\ ServerTypes /\ chan \in Chans /\ NoFds
      /\ want.w \in SWorkers
      /\ UNCHANGED <<fdq, mfds, socks, want, hosts, listening, srun, starts>>
  BY DEF ServerInv, AskInv, ServerTypes, ServerDoneMaster, Mgr
<1>3. CASE Aborts(SManager) /\ chan' = chan
  <2>1. ServerTypes'
    BY <1>0, <1>3 DEF ServerTypes, Aborts, Goto, Pcs
  <2>2. \A p, q \in SProcs : \A T : Kept(chan, chan', p, q, T)
    BY <1>0, <1>3, NoMessage
  <2>3. \A w \in SWorkers : \A i \in Nat :
          ~Is(SManager, w, i, "socket")' /\ ~Answer(w, i)'
    BY <1>0, <2>2, Quiet DEF ServerInv
  <2>4. /\ (Zero => ~want.timer)'
        /\ (\A i, j \in DOMAIN fdq : fdq[i] = 0 /\ fdq[j] = 0 => i = j)'
    BY <1>0 DEF ServerInv, AskInv, Zero
  <2>5. /\ Ch(chan', SMaster, SManager) = Ch(chan, SMaster, SManager)
        /\ \A b \in Bindings : socks'[b] \subseteq socks[b]
    BY <1>0, <1>3
  <2> QED
    BY <1>0, <1>3, <2>1, <2>2, <2>3, <2>4, <2>5, ManagerFails
<1>4. CASE ~(Aborts(SManager) /\ chan' = chan)
  <2>1. /\ chan' = Sent(chan, SManager, SMaster, <<"done", 0>>)
        /\ Finishes(SManager) /\ UNCHANGED shared
    BY <1>4 DEF ServerDoneMaster, Sent
  <2>2. "done" \in Tags /\ 0 \in Int \cup (Int \X Int)
    BY DEF Tags
  <2>3. /\ chan' \in Chans
        /\ \A r, s \in SProcs : (r # SManager \/ s # SMaster) =>
             Ch(chan', r, s) = Ch(chan, r, s)
        /\ \A r, s \in SProcs : \A T : "done" \notin T => Kept(chan, chan', r, s, T)
    BY <2>1, <2>2, <1>0, SendingNow
  <2>4. "done" \notin Start /\ "done" \notin Request
    BY DEF Start, Request
  <2>5. /\ Mgr' = "done" /\ spc' \in [SProcs -> Pcs]
        /\ \A p \in SProcs : p # SManager => spc'[p] = spc[p]
        /\ finished' \in [SProcs -> BOOLEAN]
        /\ \A p \in SProcs : p # SManager => finished'[p] = finished[p]
    BY <1>0, <2>1 DEF Finishes, Goto, ServerTypes, Mgr, Pcs
  <2>6. ServerTypes'
    BY <1>0, <2>1, <2>3, <2>5 DEF ServerTypes
  <2>7. AtInv'
    BY <2>5 DEF AtInv, Asking, Giving, Bound
  <2>8. AskInv'
    BY <1>0, <2>3, <2>4, <2>5, AskNot DEF ServerInv
  <2>9. SockInv'
    BY <1>0, <2>5 DEF ServerInv, SockInv, Asking, Giving, FdsOf
  <2>10. /\ \A w \in SWorkers : Pairs(w)' = Pairs(w)
         /\ \A w \in SWorkers : \A T : Kept(chan, chan', SManager, w, T)
         /\ \A w \in SWorkers : \A T : Kept(chan, chan', w, SManager, T)
    BY <1>0, <2>3, KeptSame DEF Pairs
  <2>11. OwnInv'
    BY <1>0, <2>10, OwnSame DEF ServerInv
  <2>12. GiveInv'
    <3>1. \A w \in SWorkers : \A i \in Nat :
            ~Is(SManager, w, i, "socket")' /\ ~Answer(w, i)'
      BY <1>0, <2>10, Quiet DEF ServerInv
    <3> QED
      BY <2>5, <3>1 DEF GiveInv
  <2>13. DoneInv'
    <3>1. \A w \in SWorkers : Passed(w) => Passed(w)'
      BY <2>5 DEF Passed, Over
    <3>2. \A p \in SProcs : Kept(chan, chan', SManager, p, Start)
      BY <2>3, <2>4
    <3>3. /\ Mgr' \in Over /\ shared.done \in Nat
          /\ \A w \in SWorkers : spc[w] # "wait" => spc'[w] # "wait"
      BY <1>0, <2>5 DEF Over, ServerTypes
    <3> QED
      BY <1>0, <2>1, <2>10, <3>1, <3>2, <3>3, DoneSame DEF ServerInv
  <2>14. RouteInv'
    BY <2>10, RouteSame DEF ServerInv
  <2>15. EndInv'
    BY <1>0, <2>1, <2>5 DEF ServerInv, EndInv, HostNames
  <2> QED
    BY <2>6, <2>7, <2>8, <2>9, <2>11, <2>12, <2>13, <2>14, <2>15 DEF ServerInv
<1> QED
  BY <1>3, <1>4
-----------------------------------------------------------------------------
(* Steps at which the manager stays where it is.                           *)

\* Nothing of what it waits for is touched.
LEMMA Aside ==
  ASSUME ServerInv, ServerTypes', Mgr' = Mgr, UNCHANGED <<want, socks, fdq>>,
         \A w \in SWorkers : Pairs(w)' = Pairs(w),
         Mgr \in Asking => listening' = listening,
         Kept(chan, chan', SManager, SMaster, Request),
         Ch(chan', SMaster, SManager) = Ch(chan, SMaster, SManager),
         \A w \in SWorkers : Kept(chan, chan', SManager, w, Socket),
         \A w \in SWorkers : Kept(chan, chan', w, SManager, Answers),
         \A w \in SWorkers : Kept(chan, chan', w, SManager, Other)
  PROVE  AtInv' /\ AskInv' /\ SockInv' /\ OwnInv' /\ GiveInv' /\ RouteInv'
<1>1. AtInv'
  BY DEF ServerInv, AtInv
<1>2. AskInv'
  BY AskSame DEF ServerInv
<1>3. SockInv'
  BY SockSame DEF ServerInv
<1>4. OwnInv'
  BY OwnSame DEF ServerInv
<1>5. GiveInv'
  BY GiveSame DEF ServerInv, ServerTypes
<1>6. RouteInv'
  BY RouteSame DEF ServerInv
<1> QED
  BY <1>1, <1>2, <1>3, <1>4, <1>5, <1>6

\* The manager has every process told that the server has started.
LEMMA StartAllKeeps ==
  ASSUME ServerInv, ServerStartAll
  PROVE  ServerInv'
<1> USE Procs
<1>0. /\ ServerTypes /\ chan \in Chans
      /\ UNCHANGED <<spc, fdq, mfds, socks, want, hosts, listening, shared,
                     finished, srun, starts>>
  BY DEF ServerInv, ServerTypes, ServerStartAll
<1>1. PICK w \in SWorkers :
         /\ Has(w, SManager) /\ First(w, SManager)[1] = "started"
         /\ chan' = IF \E p \in SProcs : srun[p] # "running" THEN Took(w, SManager)
                    ELSE [e \in DOMAIN Took(w, SManager) |->
                            IF e[1] # SManager THEN Took(w, SManager)[e]
                            ELSE Append(Took(w, SManager)[e], <<"start", 0>>)]
  BY DEF ServerStartAll
<1> DEFINE c == Took(w, SManager)
           m == <<"start", 0>>
<1>2. /\ c \in Chans
      /\ \A r, s \in SProcs : (r # w \/ s # SManager) => Ch(c, r, s) = Ch(chan, r, s)
      /\ \A r, s \in SProcs : \A T : Kept(chan, c, r, s, T)
      /\ Is(w, SManager, 1, "started")
  <2>1. /\ c \in Chans
        /\ \A r, s \in SProcs : (r # w \/ s # SManager) => Ch(c, r, s) = Ch(chan, r, s)
        /\ \A r, s \in SProcs : \A T : Kept(chan, c, r, s, T)
        /\ \A t : First(w, SManager)[1] = t => In(chan, w, SManager, 1, t)
    BY <1>0, <1>1, TakingNow
  <2> QED
    BY <1>1, <2>1 DEF Is
<1>3. AllComplete /\ \A p \in SWorkers : Complete(p)
  BY <1>2 DEF ServerInv, DoneInv, StartedSaid, AllComplete
<1>4. m \in SMsgs /\ m[1] = "start"
  BY DEF SMsgs, Tags
<1>5. /\ chan' \in Chans
      /\ \A r, s \in SProcs : r # SManager => Ch(chan', r, s) = Ch(c, r, s)
      /\ \A s \in SProcs : \/ Ch(chan', SManager, s) = Ch(c, SManager, s)
                           \/ Ch(chan', SManager, s) = Append(Ch(c, SManager, s), m)
  <2> HIDE DEF m, c
  <2>1. CASE chan' = c
    BY <1>2, <2>1
  <2>2. CASE chan' = [e \in DOMAIN c |-> IF e[1] # SManager THEN c[e] ELSE Append(c[e], m)]
    <3>1. DOMAIN c = SProcs \X SProcs /\ \A e \in SProcs \X SProcs : c[e] \in Seq(SMsgs)
      BY <1>2 DEF Chans
    <3>2. chan' \in Chans
      BY <1>4, <2>2, <3>1 DEF Chans
    <3>3. \A r, s \in SProcs : Ch(chan', r, s) =
             IF r # SManager THEN Ch(c, r, s) ELSE Append(Ch(c, r, s), m)
      BY <2>2, <3>1 DEF Ch
    <3> QED
      BY <3>2, <3>3
  <2> QED
    BY <1>1, <2>1, <2>2 DEF c, m
<1> HIDE DEF m, c
<1>6. ASSUME NEW r \in SProcs, NEW s \in SProcs, NEW T, "start" \notin T
      PROVE  Kept(chan, chan', r, s, T)
  <2>1. CASE r # SManager
    <3>1. Kept(chan, c, r, s, T) /\ Ch(chan', r, s) = Ch(c, r, s)
      BY <1>2, <1>5, <2>1
    <3> QED
      BY <3>1 DEF Kept, In
  <2>2. CASE r = SManager
    <3>1. Ch(c, r, s) = Ch(chan, r, s) /\ Ch(c, r, s) \in Seq(SMsgs)
      BY <1>2, <2>2 DEF Chans, Ch
    <3> DEFINE z == Ch(chan, r, s)
               y == Ch(chan', r, s)
    <3>2. z \in Seq(SMsgs) /\ (y = z \/ y = Append(z, m))
      BY <1>5, <2>2, <3>1
    <3> HIDE DEF z, y
    <3>3. \A i \in Nat : \A t \in T : i \in DOMAIN y /\ y[i][1] = t =>
             i + 0 \in DOMAIN z /\ z[i + 0][1] = t /\ y[i] = z[i + 0]
      BY <1>4, <1>6, <3>2
    <3> QED
      BY <3>3 DEF Kept, In, z, y
  <2> QED
    BY <2>1, <2>2
<1>7. /\ "start" \notin Request /\ "start" \notin Socket /\ "start" \notin Answers
      /\ "start" \notin Done /\ "start" \notin Started
  BY DEF Request, Socket, Answers, Done, Started
<1>8. /\ ServerTypes' /\ Mgr' = Mgr /\ \A p \in SWorkers : Pairs(p)' = Pairs(p)
  BY <1>0, <1>5 DEF ServerTypes, Mgr, Pairs
<1>9. /\ Ch(chan', SMaster, SManager) = Ch(chan, SMaster, SManager)
      /\ \A p \in SWorkers : Kept(chan, chan', p, SManager, Other)
  <2>1. Ch(chan', SMaster, SManager) = Ch(chan, SMaster, SManager)
    BY <1>2, <1>5
  <2>2. ASSUME NEW p \in SWorkers
        PROVE  Kept(chan, chan', p, SManager, Other)
    <3>1. Kept(chan, c, p, SManager, Other) /\ Ch(chan', p, SManager) = Ch(c, p, SManager)
      BY <1>2, <1>5
    <3> QED
      BY <3>1 DEF Kept, In
  <2> QED
    BY <2>1, <2>2
<1>10. /\ Kept(chan, chan', SManager, SMaster, Request)
       /\ \A p \in SWorkers : Kept(chan, chan', SManager, p, Socket)
       /\ \A p \in SWorkers : Kept(chan, chan', p, SManager, Answers)
       /\ \A p \in SWorkers : Kept(chan, chan', SManager, p, Done)
       /\ \A p \in SWorkers : Kept(chan, chan', p, SManager, Started)
  BY <1>6, <1>7
<1>11. AtInv' /\ AskInv' /\ SockInv' /\ OwnInv' /\ GiveInv' /\ RouteInv'
  BY <1>0, <1>8, <1>9, <1>10, Aside
<1>12. DoneInv'
  <2>1. /\ \A p \in SWorkers : Passed(p) => Passed(p)'
        /\ \A p \in SWorkers : spc[p] # "wait" => spc'[p] # "wait"
        /\ shared.done \in Nat
    BY <1>0, <1>8 DEF Passed, ServerTypes
  <2>2. /\ DoneSaid' /\ StartedSaid' /\ StartHeard' /\ CountRight' /\ AllComplete'
    BY <1>0, <1>3, <1>8, <1>10, <2>1, DoneEach DEF ServerInv
  <2>3. StartSaid'
    BY <2>2 DEF StartSaid
  <2> QED
    BY <2>2, <2>3 DEF DoneInv
<1>13. EndInv'
  BY <1>0, <1>8 DEF ServerInv, EndInv, HostNames
<1> QED
  BY <1>8, <1>11, <1>12, <1>13 DEF ServerInv

\* A process publishes the event.
LEMMA StartKeeps ==
  ASSUME ServerInv, NEW p \in SProcs, ServerStart(p)
  PROVE  ServerInv'
<1> USE Procs
<1>0. /\ ServerTypes /\ chan \in Chans /\ Has(SManager, p)
      /\ First(SManager, p)[1] = "start" /\ chan' = Took(SManager, p)
      /\ starts' = [starts EXCEPT ![p] = @ + 1]
      /\ UNCHANGED <<spc, fdq, mfds, socks, want, hosts, listening, shared,
                     finished, srun>>
  BY DEF ServerInv, ServerTypes, ServerStart
<1>1. /\ chan' \in Chans
      /\ \A r, s \in SProcs : (r # SManager \/ s # p) => Ch(chan', r, s) = Ch(chan, r, s)
      /\ \A r, s \in SProcs : \A T : Kept(chan, chan', r, s, T)
      /\ \A t : First(SManager, p)[1] = t => In(chan, SManager, p, 1, t)
  BY <1>0, TakingNow
<1>2. AllComplete
  BY <1>0, <1>1 DEF ServerInv, DoneInv, StartSaid, Is
<1>3. /\ ServerTypes' /\ Mgr' = Mgr /\ \A w \in SWorkers : Pairs(w)' = Pairs(w)
  BY <1>0, <1>1 DEF ServerTypes, Mgr, Pairs
<1>4. Ch(chan', SMaster, SManager) = Ch(chan, SMaster, SManager)
  BY <1>1
<1>5. AtInv' /\ AskInv' /\ SockInv' /\ OwnInv' /\ GiveInv' /\ RouteInv'
  BY <1>0, <1>1, <1>3, <1>4, Aside
<1>6. DoneInv'
  <2>1. /\ \A w \in SWorkers : Passed(w) => Passed(w)'
        /\ \A w \in SWorkers : spc[w] # "wait" => spc'[w] # "wait"
        /\ shared.done \in Nat
    BY <1>0, <1>3 DEF Passed, ServerTypes
  <2>2. DoneSaid' /\ StartedSaid' /\ StartSaid' /\ CountRight' /\ AllComplete'
    BY <1>0, <1>1, <1>2, <1>3, <2>1, DoneEach DEF ServerInv
  <2>3. StartHeard'
    BY <2>2 DEF StartHeard
  <2> QED
    BY <2>2, <2>3 DEF DoneInv
<1>7. EndInv'
  BY <1>0, <1>3 DEF ServerInv, EndInv, HostNames
<1> QED
  BY <1>3, <1>5, <1>6, <1>7 DEF ServerInv

\* A process may stop: its listeners stay, switched off.
LEMMA ClosingKeeps ==
  ASSUME ServerInv, NEW p \in SProcs, ServerClosing(p)
  PROVE  ServerInv'
<1> USE Procs
<1> DEFINE Off(l) == [l EXCEPT !.on = FALSE]
<1>0. /\ ServerTypes /\ srun' = [srun EXCEPT ![p] = "closing"]
      /\ listening' = [w \in SWorkers |-> IF w # p THEN listening[w]
                                          ELSE {Off(l) : l \in listening[w]}]
      /\ UNCHANGED <<spc, chan, fdq, mfds, socks, want, hosts, shared, finished, starts>>
  BY DEF ServerInv, ServerClosing
<1>1. listening \in [SWorkers -> SUBSET Listeners]
  BY <1>0 DEF ServerTypes
<1>2. \A l \in Listeners : Off(l) \in Listeners /\ Off(l).b = l.b /\ Off(l).fd = l.fd
  BY DEF Listeners
<1> HIDE DEF Off
<1>3. listening' \in [SWorkers -> SUBSET Listeners]
  BY <1>0, <1>1, <1>2
<1>4. \A w \in SWorkers : Pairs(w)' = Pairs(w)
  <2> SUFFICES ASSUME NEW w \in SWorkers
               PROVE  Pairs(w)' = Pairs(w)
    OBVIOUS
  <2>1. CASE w # p
    BY <1>0, <2>1 DEF Pairs
  <2>2. CASE w = p
    <3>1. listening'[w] = {Off(l) : l \in listening[w]} /\ listening[w] \subseteq Listeners
      BY <1>0, <1>1, <2>2
    <3>2. Pairs(w)' = {<<l.b, l.fd>> : l \in listening'[w]}
      BY DEF Pairs
    <3>3. Pairs(w)' \subseteq Pairs(w)
      BY <1>2, <3>1, <3>2 DEF Pairs
    <3>4. Pairs(w) \subseteq Pairs(w)'
      <4> SUFFICES ASSUME NEW l \in listening[w]
                   PROVE  <<l.b, l.fd>> \in Pairs(w)'
        BY DEF Pairs
      <4>1. Off(l) \in listening'[w] /\ Off(l).b = l.b /\ Off(l).fd = l.fd
        BY <1>2, <3>1
      <4> QED
        BY <3>2, <4>1
    <3> QED
      BY <3>3, <3>4
  <2> QED
    BY <2>1, <2>2
<1>5. Mgr \in Asking => listening' = listening
  <2>1. Mgr \in Asking => \A w \in SWorkers : listening[w] = {} /\ listening'[w] = {}
    BY <1>0 DEF ServerInv, SockInv
  <2> QED
    BY <1>1, <1>3, <2>1
<1>6. \A r, s \in SProcs : \A T : Kept(chan, chan', r, s, T)
  BY <1>0, NoMessage
<1>7. /\ ServerTypes' /\ Mgr' = Mgr
      /\ Ch(chan', SMaster, SManager) = Ch(chan, SMaster, SManager)
  BY <1>0, <1>3 DEF ServerTypes, Mgr
<1>8. AtInv' /\ AskInv' /\ SockInv' /\ OwnInv' /\ GiveInv' /\ RouteInv'
  BY <1>0, <1>4, <1>5, <1>6, <1>7, Aside
<1>9. DoneInv'
  <2>1. /\ \A w \in SWorkers : Passed(w) => Passed(w)'
        /\ \A w \in SWorkers : spc[w] # "wait" => spc'[w] # "wait"
        /\ shared.done \in Nat
    BY <1>0, <1>7 DEF Passed, ServerTypes
  <2> QED
    BY <1>0, <1>4, <1>6, <1>7, <2>1, DoneSame DEF ServerInv
<1>10. EndInv'
  BY <1>0, <1>7 DEF ServerInv, EndInv, HostNames
<1> QED
  BY <1>7, <1>8, <1>9, <1>10 DEF ServerInv

\* A process is asked to stop, or has stopped, or nothing has happened.
LEMMA StoppedKeeps ==
  ASSUME ServerInv, srun' \in [SProcs -> {"running", "stopping", "closing", "stopped"}],
         UNCHANGED <<spc, chan, fdq, mfds, socks, want, hosts, listening, shared,
                     finished, starts>>
  PROVE  ServerInv'
<1> USE Procs
<1>1. ServerTypes' /\ ServerTypes /\ Mgr' = Mgr /\ \A w \in SWorkers : Pairs(w)' = Pairs(w)
  BY DEF ServerInv, ServerTypes, Mgr, Pairs
<1>2. \A r, s \in SProcs : \A T : Kept(chan, chan', r, s, T)
  BY <1>1, NoMessage
<1>3. AtInv' /\ AskInv' /\ SockInv' /\ OwnInv' /\ GiveInv' /\ RouteInv'
  BY <1>1, <1>2, Aside
<1>4. DoneInv'
  <2>1. /\ \A w \in SWorkers : Passed(w) => Passed(w)'
        /\ shared.done \in Nat
    BY <1>1 DEF Passed, ServerTypes
  <2> QED
    BY <1>1, <1>2, <2>1, DoneSame DEF ServerInv
<1>5. EndInv'
  BY <1>1 DEF ServerInv, EndInv, HostNames
<1> QED
  BY <1>1, <1>3, <1>4, <1>5 DEF ServerInv

\* A worker has heard that it is done, and counts itself.
LEMMA CountKeeps ==
  ASSUME ServerInv, NEW w \in SWorkers, ServerCount(w)
  PROVE  ServerInv'
<1> USE Procs
<1>0. /\ ServerTypes /\ chan \in Chans /\ Has(SManager, w) /\ spc[w] = "wait"
      /\ First(SManager, w)[1] = "done" /\ chan' = Took(SManager, w)
      /\ Goto(w, "counted") /\ shared' = [shared EXCEPT !.done = @ + 1]
      /\ shared \in [aborted : BOOLEAN, done : Nat]
      /\ UNCHANGED <<fdq, mfds, socks, want, hosts, listening, finished, srun, starts>>
  BY DEF ServerInv, ServerTypes, ServerCount
<1>1. /\ chan' \in Chans
      /\ \A r, s \in SProcs : (r # SManager \/ s # w) => Ch(chan', r, s) = Ch(chan, r, s)
      /\ \A r, s \in SProcs : \A T : Kept(chan, chan', r, s, T)
      /\ \A t : First(SManager, w)[1] = t => In(chan, SManager, w, 1, t)
  BY <1>0, TakingNow
<1>2. Complete(w) /\ Passed(w)
  BY <1>0, <1>1 DEF ServerInv, DoneInv, DoneSaid, Is
<1>3. /\ spc' \in [SProcs -> Pcs] /\ spc'[w] = "counted"
      /\ \A p \in SProcs : p # w => spc'[p] = spc[p]
      /\ shared' \in [aborted : BOOLEAN, done : Nat] /\ shared'.done = shared.done + 1
      /\ shared'.aborted = shared.aborted /\ shared.done \in Nat
  <2>1. /\ spc' \in [SProcs -> Pcs] /\ spc'[w] = "counted"
        /\ \A p \in SProcs : p # w => spc'[p] = spc[p]
    BY <1>0 DEF Goto, ServerTypes, Pcs
  <2>2. /\ shared' \in [aborted : BOOLEAN, done : Nat] /\ shared'.done = shared.done + 1
        /\ shared'.aborted = shared.aborted /\ shared.done \in Nat
    BY <1>0
  <2> QED
    BY <2>1, <2>2
<1>4. /\ ServerTypes' /\ Mgr' = Mgr /\ \A v \in SWorkers : Pairs(v)' = Pairs(v)
  BY <1>0, <1>1, <1>3 DEF ServerTypes, Mgr, Pairs
<1>5. Ch(chan', SMaster, SManager) = Ch(chan, SMaster, SManager)
  BY <1>1
<1>6. AtInv' /\ AskInv' /\ SockInv' /\ OwnInv' /\ GiveInv' /\ RouteInv'
  BY <1>0, <1>1, <1>4, <1>5, Aside
<1>7. DoneInv'
  <2>1. /\ \A v \in SWorkers : Passed(v) => Passed(v)'
        /\ \A v \in SWorkers : spc[v] # "wait" => spc'[v] # "wait"
    BY <1>0, <1>3, <1>4 DEF Passed
  <2>2. /\ DoneSaid' /\ StartedSaid' /\ StartSaid' /\ StartHeard'
        /\ Complete(w)' /\ Counted \subseteq Counted'
        /\ IsFiniteSet(Counted) /\ IsFiniteSet(Counted')
        /\ Cardinality(Counted) \in Nat /\ Cardinality(Counted') \in Nat
    BY <1>0, <1>1, <1>2, <1>4, <2>1, DoneEach DEF ServerInv
  <2> DEFINE S == Counted
             U == S \cup {w}
  <2>3. w \notin S /\ U \subseteq Counted'
    BY <1>0, <1>2, <1>3, <2>1, <2>2 DEF Counted
  <2>4. IsFiniteSet(U) /\ Cardinality(U) = Cardinality(S) + 1
    BY <2>2, <2>3, FS_AddElement
  <2>5. Cardinality(U) <= Cardinality(Counted')
    BY <2>2, <2>3, FS_Subset
  <2>6. shared.done <= Cardinality(S)
    BY DEF ServerInv, DoneInv, CountRight
  <2> HIDE DEF U, S
  <2>7. Cardinality(S) \in Nat /\ Cardinality(Counted') \in Nat
    BY <2>2 DEF S
  <2>8. shared'.done <= Cardinality(Counted')
    BY <1>3, <2>4, <2>5, <2>6, <2>7
  <2>9. CountRight'
    BY <2>8 DEF CountRight
  <2> QED
    BY <2>2, <2>9 DEF DoneInv
<1>8. EndInv'
  BY <1>0, <1>3, <1>4 DEF ServerInv, EndInv, HostNames
<1> QED
  BY <1>4, <1>6, <1>7, <1>8 DEF ServerInv

\* When as many have counted as there are workers, all are complete.
LEMMA AllCounted ==
  ASSUME ServerInv, AllDone(shared.done)
  PROVE  AllComplete /\ Mgr \in Over
<1>1. /\ NSWorkers \in Nat \ {0} /\ want.w \in SWorkers
      /\ NSWorkers <= Cardinality(Counted) /\ Counted \subseteq SWorkers
  BY Procs DEF ServerInv, ServerTypes, DoneInv, CountRight, AllDone, Counted
<1>2. IsFiniteSet(SWorkers) /\ Cardinality(SWorkers) = NSWorkers
  BY <1>1, FS_Interval DEF SWorkers
<1>3. IsFiniteSet(Counted) /\ Cardinality(Counted) <= NSWorkers
      /\ (Cardinality(Counted) = NSWorkers => Counted = SWorkers)
  BY <1>1, <1>2, FS_Subset
<1>4. Cardinality(Counted) \in Nat
  BY <1>3, FS_CardinalityType
<1>5. Counted = SWorkers
  BY <1>1, <1>3, <1>4
<1>6. AllComplete
  BY <1>5 DEF AllComplete, Counted
<1>7. NSWorkers - 1 \in SWorkers /\ ~(NSWorkers - 1 < want.w)
  BY <1>1 DEF SWorkers
<1>8. Passed(NSWorkers - 1)
  BY <1>5, <1>7 DEF Counted
<1> QED
  BY <1>6, <1>7, <1>8 DEF Passed

\* A worker finds that it was the last, or not.
LEMMA LastKeeps ==
  ASSUME ServerInv, NEW w \in SWorkers, ServerLast(w)
  PROVE  ServerInv'
<1> USE Procs
<1> DEFINE tell == AllDone(shared.done)
           able == srun[w] = "running" /\ srun[SManager] = "running"
<1>0. /\ ServerTypes /\ chan \in Chans /\ spc[w] = "counted"
      /\ shared \in [aborted : BOOLEAN, done : Nat]
      /\ UNCHANGED <<fdq, mfds, socks, want, hosts, listening, srun, starts>>
  BY DEF ServerInv, ServerTypes, ServerLast
<1>1. PICK pc \in {"done", "failed"} :
        /\ Goto(w, pc) /\ finished' = [finished EXCEPT ![w] = TRUE]
        /\ shared' = shared \/ shared' = [shared EXCEPT !.aborted = TRUE]
        /\ \/ chan' = chan
           \/ chan' = Sent(chan, w, SManager, <<"started", 0>>) /\ AllDone(shared.done)
  <2>1. CASE tell /\ ~able
    BY <2>1 DEF ServerLast, Aborts, Sent
  <2>2. CASE ~(tell /\ ~able)
    <3>1. Finishes(w) /\ UNCHANGED shared
          /\ chan' = IF tell THEN Sent(chan, w, SManager, <<"started", 0>>) ELSE chan
      BY <2>2 DEF ServerLast, Sent
    <3> QED
      BY <3>1 DEF Finishes
  <2> QED
    BY <2>1, <2>2
<1>2. /\ spc' \in [SProcs -> Pcs] /\ spc'[w] # "wait"
      /\ \A p \in SProcs : p # w => spc'[p] = spc[p]
      /\ finished' \in [SProcs -> BOOLEAN]
      /\ \A p \in SProcs : p # w => finished'[p] = finished[p]
      /\ shared' \in [aborted : BOOLEAN, done : Nat] /\ shared'.done = shared.done
      /\ shared.aborted => shared'.aborted
      /\ shared.done \in Nat
  BY <1>0, <1>1 DEF Goto, ServerTypes, Pcs
<1>3. /\ chan' \in Chans
      /\ \A r, s \in SProcs : (r # w \/ s # SManager) => Ch(chan', r, s) = Ch(chan, r, s)
      /\ \A r, s \in SProcs : \A T : "started" \notin T => Kept(chan, chan', r, s, T)
      /\ chan' = chan \/ AllDone(shared.done)
  <2>1. CASE chan' = chan
    BY <1>0, <2>1, NoMessage
  <2>2. CASE chan' # chan
    <3>1. chan' = Sent(chan, w, SManager, <<"started", 0>>) /\ AllDone(shared.done)
      BY <1>1, <2>2
    <3>2. "started" \in Tags /\ 0 \in Int \cup (Int \X Int)
      BY DEF Tags
    <3> QED
      BY <1>0, <3>1, <3>2, SendingNow
  <2> QED
    BY <2>1, <2>2
<1>4. /\ ServerTypes' /\ Mgr' = Mgr /\ \A v \in SWorkers : Pairs(v)' = Pairs(v)
      /\ Ch(chan', SMaster, SManager) = Ch(chan, SMaster, SManager)
  BY <1>0, <1>2, <1>3 DEF ServerTypes, Mgr, Pairs
<1>5. /\ "started" \notin Request /\ "started" \notin Socket /\ "started" \notin Answers
      /\ "started" \notin Done /\ "started" \notin Start /\ "started" \notin Other
  BY DEF Request, Socket, Answers, Done, Start, Other
<1>6. /\ Kept(chan, chan', SManager, SMaster, Request)
      /\ \A v \in SWorkers : Kept(chan, chan', SManager, v, Socket)
      /\ \A v \in SWorkers : Kept(chan, chan', v, SManager, Answers)
      /\ \A v \in SWorkers : Kept(chan, chan', v, SManager, Other)
      /\ \A v \in SWorkers : Kept(chan, chan', SManager, v, Done)
      /\ \A p \in SProcs : Kept(chan, chan', SManager, p, Start)
  BY <1>3, <1>5
<1>7. AtInv' /\ AskInv' /\ SockInv' /\ OwnInv' /\ GiveInv' /\ RouteInv'
  BY <1>0, <1>4, <1>6, Aside
<1>8. DoneInv'
  <2>1. /\ \A v \in SWorkers : Passed(v) => Passed(v)'
        /\ \A v \in SWorkers : spc[v] # "wait" => spc'[v] # "wait"
    BY <1>0, <1>2, <1>4 DEF Passed
  <2>2. /\ DoneSaid' /\ StartSaid' /\ StartHeard' /\ CountRight'
        /\ AllComplete => AllComplete'
    BY <1>0, <1>2, <1>4, <1>6, <2>1, DoneEach DEF ServerInv
  <2>3. StartedSaid'
    <3>1. CASE chan' = chan
      BY <1>4, <2>2, <3>1 DEF ServerInv, DoneInv, StartedSaid, Is
    <3>2. CASE AllDone(shared.done)
      BY <1>4, <2>2, <3>2, AllCounted DEF StartedSaid
    <3> QED
      BY <1>3, <3>1, <3>2
  <2> QED
    BY <2>2, <2>3 DEF DoneInv
<1>9. EndInv'
  BY <1>0, <1>2, <1>4 DEF ServerInv, EndInv, HostNames
<1> QED
  BY <1>4, <1>7, <1>8, <1>9 DEF ServerInv

-----------------------------------------------------------------------------
(* The master's steps.                                                     *)

\* Descriptors arrive at a receiver that had none.
LEMMA FdMore ==
  ASSUME fdq \in Seq(Int), NoFds, NEW n \in Nat, NEW fds \in Seq(Int), Len(fds) = n,
         \A i \in DOMAIN fds : fds[i] # 0, fdq' = fdq \o fds,
         \A i, j \in DOMAIN fdq : fdq[i] = 0 /\ fdq[j] = 0 => i = j
  PROVE  /\ fdq' \in Seq(Int) /\ (Zero' <=> Zero)
         /\ (\A i, j \in DOMAIN fdq : fdq[i] = 0 /\ fdq[j] = 0 => i = j)'
         /\ \A i \in DOMAIN fdq' : \/ fdq'[i] = 0
                                   \/ \E j \in DOMAIN fds : fdq'[i] = fds[j]
         /\ Queueing' = n
<1> DEFINE k == Len(fdq)
<1>1. /\ k \in Nat /\ DOMAIN fdq = 1..k /\ DOMAIN fds = 1..n
      /\ fdq' \in Seq(Int) /\ Len(fdq') = k + n /\ DOMAIN fdq' = 1..(k + n)
      /\ \A i \in 1..k : fdq'[i] = fdq[i]
      /\ \A i \in 1..(k + n) : i > k => fdq'[i] = fds[i - k]
  <2>1. k \in Nat /\ DOMAIN fdq = 1..k /\ DOMAIN fds = 1..n
    OBVIOUS
  <2>2. fdq' \in Seq(Int) /\ Len(fdq') = Len(fdq) + Len(fds)
    BY ConcatProperties
  <2>3. DOMAIN fdq' = 1..Len(fdq')
    BY <2>2
  <2>4. \A i \in 1..(Len(fdq) + Len(fds)) :
           (fdq \o fds)[i] = IF i <= Len(fdq) THEN fdq[i] ELSE fds[i - Len(fdq)]
    BY ConcatProperties
  <2>5. \A i \in 1..k : i \in 1..(k + n) /\ i <= k
    BY <2>1
  <2>6. \A i \in 1..(k + n) : i > k => ~(i <= k)
    BY <2>1
  <2> QED
    BY <2>1, <2>2, <2>3, <2>4, <2>5, <2>6
<1> HIDE DEF k
<1>2. \A i \in 1..(k + n) : i > k => i - k \in DOMAIN fds
  <2>1. k \in Nat /\ DOMAIN fds = 1..n
    BY <1>1
  <2>2. \A i \in 1..(k + n) : i > k => i - k \in 1..n
    BY <2>1
  <2> QED
    BY <2>1, <2>2
<1>3. \A i \in 1..k : i \in 1..(k + n) /\ fdq[i] = 0
  <2>1. \A i \in 1..k : fdq[i] = 0
    BY <1>1 DEF NoFds
  <2>2. k \in Nat => \A i \in 1..k : i \in 1..(k + n)
    OBVIOUS
  <2> QED
    BY <1>1, <2>1, <2>2
<1>4. \A i \in DOMAIN fdq' : fdq'[i] = 0 => i \in DOMAIN fdq
  BY <1>1, <1>2
<1>5. Zero' <=> Zero
  BY <1>1, <1>3, <1>4 DEF Zero
<1>6. (\A i, j \in DOMAIN fdq : fdq[i] = 0 /\ fdq[j] = 0 => i = j)'
  BY <1>1, <1>4
<1>7. \A i \in DOMAIN fdq' : \/ fdq'[i] = 0
                             \/ \E j \in DOMAIN fds : fdq'[i] = fds[j]
  <2> SUFFICES ASSUME NEW i \in DOMAIN fdq'
               PROVE  \/ fdq'[i] = 0
                      \/ \E j \in DOMAIN fds : fdq'[i] = fds[j]
    OBVIOUS
  <2>1. CASE i > k
    BY <1>1, <1>2, <2>1
  <2>2. CASE ~(i > k)
    BY <1>1, <1>3, <2>2
  <2> QED
    BY <2>1, <2>2
<1>8. IF Zero THEN k = 1 ELSE k = 0
  <2>1. k >= 1 => Zero
    <3>1. k >= 1 => 1 \in DOMAIN fdq /\ fdq[1] = 0
      BY <1>1, <1>3
    <3> QED
      BY <3>1 DEF Zero
  <2>2. k >= 2 => FALSE
    <3>1. k >= 2 => 1 \in 1..k /\ 2 \in 1..k
      BY <1>1
    <3> QED
      BY <1>1, <1>3, <3>1
  <2>3. Zero => k >= 1
    BY <1>1 DEF Zero
  <2> QED
    BY <1>1, <2>1, <2>2, <2>3
<1>9. Queueing' = n
  BY <1>1, <1>5, <1>8 DEF Queueing
<1> QED
  BY <1>1, <1>5, <1>6, <1>7, <1>9

\* The master opens the sockets, says how many, and sends them.
LEMMA OpenKeeps ==
  ASSUME ServerInv, ServerOpen
  PROVE  ServerInv'
<1> USE Procs
<1> DEFINE c == Took(SManager, SMaster)
<1>0. /\ ServerTypes /\ chan \in Chans /\ spc[SMaster] = "wait"
      /\ Has(SManager, SMaster) /\ First(SManager, SMaster)[1] = "sockets"
      /\ UNCHANGED <<socks, want, hosts, listening, srun, starts>>
      /\ fdq \in Seq(Int)
  BY DEF ServerInv, ServerTypes, ServerOpen
<1>1. /\ c \in Chans
      /\ \A r, s \in SProcs : (r # SManager \/ s # SMaster) => Ch(c, r, s) = Ch(chan, r, s)
      /\ \A r, s \in SProcs : \A T : Kept(chan, c, r, s, T)
      /\ \A i \in Nat : \A t :
           In(c, SManager, SMaster, i, t) => In(chan, SManager, SMaster, i + 1, t) /\ i > 0
      /\ \A t : First(SManager, SMaster)[1] = t => In(chan, SManager, SMaster, 1, t)
      /\ First(SManager, SMaster) = Ch(chan, SManager, SMaster)[1]
  BY <1>0, TakingNow
<1>2. /\ Is(SManager, SMaster, 1, "sockets") /\ Mgr = "response"
      /\ First(SManager, SMaster)[2] = want.b
      /\ Ch(chan, SMaster, SManager) = <<>> /\ NoFds /\ want.b \in Bindings
      /\ \A i \in Nat : Is(SManager, SMaster, i, "sockets") => i = 1
  <2>1. Is(SManager, SMaster, 1, "sockets")
    BY <1>0, <1>1 DEF Is
  <2>2. /\ Mgr = "response" /\ Ch(chan, SManager, SMaster)[1][2] = want.b
        /\ Ch(chan, SMaster, SManager) = <<>> /\ NoFds
        /\ \A i \in Nat : Is(SManager, SMaster, i, "sockets") => i = 1
    BY <2>1 DEF ServerInv, AskInv
  <2>3. want.b \in Bindings
    BY <2>2 DEF ServerInv, AtInv, Bound
  <2> QED
    BY <1>1, <2>1, <2>2, <2>3
<1>3. PICK n \in 0..NSWorkers :
         LET fds == [i \in 1..n |-> (want.b - 1) * NSWorkers + i]
         IN  /\ TrySend(SMaster, SManager, <<"count", n>>, c, "sent")
             /\ fdq' = IF spc'[SMaster] = "failed" THEN fdq ELSE fdq \o fds
  BY <1>2 DEF ServerOpen
<1> DEFINE fds == [i \in 1..n |-> (want.b - 1) * NSWorkers + i]
<1>4. \A i \in Nat : ~In(c, SManager, SMaster, i, "sockets")
  <2> SUFFICES ASSUME NEW i \in Nat, In(c, SManager, SMaster, i, "sockets")
               PROVE  FALSE
    OBVIOUS
  <2>1. i + 1 \in Nat /\ i + 1 = 1 /\ i > 0
    BY <1>1, <1>2 DEF Is
  <2> QED
    BY <2>1
<1>5. /\ n \in Nat /\ fds \in Seq(Int) /\ Len(fds) = n
      /\ \A i \in DOMAIN fds : fds[i] \in FdsOf(want.b) /\ fds[i] # 0
  <2>1. n \in Nat /\ \A i \in 1..n : i \in 1..NSWorkers
    OBVIOUS
  <2>2. \A i \in DOMAIN fds : i \in 1..NSWorkers /\ fds[i] = (want.b - 1) * NSWorkers + i
    BY <2>1
  <2>3. \A i \in DOMAIN fds : fds[i] \in FdsOf(want.b)
    BY <2>2 DEF FdsOf
  <2>4. FdsOf(want.b) \subseteq Nat \ {0}
    BY <1>2, CountFds
  <2>5. DOMAIN fds = 1..n /\ \A i \in 1..n : fds[i] \in Int /\ fds[i] # 0
    BY <2>3, <2>4
  <2>6. fds = [i \in 1..n |-> fds[i]]
    OBVIOUS
  <2> HIDE DEF fds
  <2>7. fds \in Seq(Int) /\ Len(fds) = n
    BY <2>1, <2>5, <2>6
  <2> QED
    BY <2>1, <2>3, <2>5, <2>7
<1> HIDE DEF fds, c
<1>6. \/ /\ chan' = c /\ Aborts(SMaster) /\ fdq' = fdq
      \/ /\ chan' = Sent(c, SMaster, SManager, <<"count", n>>) /\ Goto(SMaster, "sent")
         /\ UNCHANGED <<shared, finished>> /\ fdq' = fdq \o fds
  <2>1. spc \in [SProcs -> Pcs]
    BY <1>0 DEF ServerTypes
  <2>2. CASE srun[SMaster] = "running" /\ srun[SManager] = "running"
    <3>1. /\ chan' = Sent(c, SMaster, SManager, <<"count", n>>) /\ Goto(SMaster, "sent")
          /\ UNCHANGED <<shared, finished>>
      BY <1>3, <2>2 DEF TrySend, Sent
    <3>2. spc'[SMaster] = "sent"
      BY <2>1, <3>1 DEF Goto
    <3> QED
      BY <1>3, <3>1, <3>2 DEF fds
  <2>3. CASE ~(srun[SMaster] = "running" /\ srun[SManager] = "running")
    <3>1. chan' = c /\ Aborts(SMaster)
      BY <1>3, <2>3 DEF TrySend
    <3>2. spc'[SMaster] = "failed"
      BY <2>1, <3>1 DEF Goto, Aborts
    <3> QED
      BY <1>3, <3>1, <3>2
  <2> QED
    BY <2>2, <2>3
<1>7. /\ spc' \in [SProcs -> Pcs] /\ spc'[SMaster] \in {"sent", "failed"}
      /\ \A p \in SProcs : p # SMaster => spc'[p] = spc[p] /\ finished'[p] = finished[p]
      /\ finished' \in [SProcs -> BOOLEAN]
      /\ spc'[SMaster] = "sent" => finished'[SMaster] = finished[SMaster]
      /\ Mgr' = Mgr
  <2>1. spc \in [SProcs -> Pcs] /\ finished \in [SProcs -> BOOLEAN]
    BY <1>0 DEF ServerTypes
  <2>2. CASE Aborts(SMaster)
    BY <2>1, <2>2 DEF Aborts, Goto, Pcs, Mgr
  <2>3. CASE Goto(SMaster, "sent") /\ UNCHANGED <<shared, finished>>
    BY <2>1, <2>3 DEF Goto, Pcs, Mgr
  <2> QED
    BY <1>6, <2>2, <2>3
<1>8. /\ shared' \in [aborted : BOOLEAN, done : Nat] /\ shared'.done = shared.done
      /\ spc'[SMaster] = "failed" => shared'.aborted
      /\ shared.aborted => shared'.aborted
      /\ shared.done \in Nat
  <2>1. shared \in [aborted : BOOLEAN, done : Nat] /\ spc \in [SProcs -> Pcs]
    BY <1>0 DEF ServerTypes
  <2>2. CASE Aborts(SMaster)
    BY <2>1, <2>2 DEF Aborts
  <2>3. CASE Goto(SMaster, "sent") /\ UNCHANGED <<shared, finished>>
    BY <2>1, <2>3 DEF Goto
  <2> QED
    BY <1>6, <2>2, <2>3
<1>9. /\ fdq' \in Seq(Int) /\ (Zero' <=> Zero)
      /\ (\A i, j \in DOMAIN fdq : fdq[i] = 0 /\ fdq[j] = 0 => i = j)'
      /\ \A i \in DOMAIN fdq' : fdq'[i] \in FdsOf(want.b) \cup {0}
      /\ fdq' = fdq \o fds => Queueing' = n
  <2>1. \A i, j \in DOMAIN fdq : fdq[i] = 0 /\ fdq[j] = 0 => i = j
    BY DEF ServerInv, AskInv
  <2>2. \A i \in DOMAIN fdq : fdq[i] \in FdsOf(want.b) \cup {0}
    BY <1>2 DEF ServerInv, AskInv
  <2>3. CASE fdq' = fdq \o fds
    <3>1. /\ fdq' \in Seq(Int) /\ (Zero' <=> Zero)
          /\ (\A i, j \in DOMAIN fdq : fdq[i] = 0 /\ fdq[j] = 0 => i = j)'
          /\ \A i \in DOMAIN fdq' : \/ fdq'[i] = 0
                                    \/ \E j \in DOMAIN fds : fdq'[i] = fds[j]
          /\ Queueing' = n
      BY <1>0, <1>2, <1>5, <2>1, <2>3, FdMore
    <3>2. \A i \in DOMAIN fdq' : fdq'[i] \in FdsOf(want.b) \cup {0}
      BY <1>5, <3>1
    <3> QED
      BY <3>1, <3>2
  <2>4. CASE fdq' # fdq \o fds
    <3>1. fdq' = fdq
      BY <1>6, <2>4
    <3> QED
      BY <1>0, <2>1, <2>2, <2>4, <3>1 DEF Zero
  <2> QED
    BY <2>3, <2>4
<1>10. /\ chan' \in Chans
       /\ \A r, s \in SProcs : (r # SMaster \/ s # SManager) => Ch(chan', r, s) = Ch(c, r, s)
       /\ Ch(chan', SMaster, SManager) # <<>> =>
            /\ fdq' = fdq \o fds /\ Len(Ch(chan', SMaster, SManager)) = 1
            /\ Ch(chan', SMaster, SManager)[1][2] = n
  <2>1. Ch(c, SMaster, SManager) = <<>>
    BY <1>1, <1>2
  <2>2. CASE chan' = c
    BY <1>1, <2>1, <2>2
  <2>3. CASE chan' = Sent(c, SMaster, SManager, <<"count", n>>) /\ fdq' = fdq \o fds
    <3>1. "count" \in Tags /\ n \in Int \cup (Int \X Int)
      BY <1>5 DEF Tags
    <3>2. chan' \in Chans
      BY <1>1, <2>3, <3>1, Sending
    <3>3. \A r, s \in SProcs : (r # SMaster \/ s # SManager) => Ch(chan', r, s) = Ch(c, r, s)
      BY <1>1, <2>3, <3>1, Sending
    <3>4. /\ Len(Ch(chan', SMaster, SManager)) = 1
          /\ Ch(chan', SMaster, SManager)[1][2] = n
      BY <1>1, <2>1, <2>3, <3>1, Sending
    <3> QED
      BY <2>3, <3>2, <3>3, <3>4
  <2> QED
    BY <1>6, <2>2, <2>3
<1>11. /\ \A w \in SWorkers : \A T : Kept(chan, chan', SManager, w, T)
       /\ \A w \in SWorkers : \A T : Kept(chan, chan', w, SManager, T)
       /\ \A T : Kept(chan, chan', SManager, SMaster, T)
  <2>1. /\ \A w \in SWorkers : Ch(chan', SManager, w) = Ch(chan, SManager, w)
        /\ \A w \in SWorkers : Ch(chan', w, SManager) = Ch(chan, w, SManager)
        /\ Ch(chan', SManager, SMaster) = Ch(c, SManager, SMaster)
    BY <1>1, <1>10
  <2>2. \A T : Kept(chan, c, SManager, SMaster, T)
    BY <1>1
  <2>3. \A T : Kept(chan, chan', SManager, SMaster, T)
    BY <2>1, <2>2 DEF Kept, In
  <2> QED
    BY <1>0, <2>1, <2>3, KeptSame
<1>12. ServerTypes'
  BY <1>0, <1>7, <1>8, <1>9, <1>10 DEF ServerTypes
<1>13. \A w \in SWorkers : Pairs(w)' = Pairs(w)
  BY <1>0 DEF Pairs
<1>14. AtInv' /\ SockInv' /\ OwnInv' /\ GiveInv' /\ RouteInv'
  <2>1. AtInv'
    BY <1>0, <1>7 DEF ServerInv, AtInv
  <2>2. SockInv'
    BY <1>0, <1>7, SockSame DEF ServerInv
  <2>3. OwnInv'
    BY <1>0, <1>11, <1>13, OwnSame DEF ServerInv
  <2>4. GiveInv'
    BY <1>0, <1>7, <1>11, <1>13, GiveSame DEF ServerInv, ServerTypes
  <2>5. RouteInv'
    BY <1>11, RouteSame DEF ServerInv
  <2> QED
    BY <2>1, <2>2, <2>3, <2>4, <2>5
<1>15. AskInv'
  <2>1. \A i \in Nat : ~Is(SManager, SMaster, i, "sockets")'
    <3>1. Ch(chan', SManager, SMaster) = Ch(c, SManager, SMaster)
      BY <1>10
    <3> QED
      BY <1>4, <3>1 DEF Is, In
  <2>2. (Ch(chan, SMaster, SManager) # <<>> =>
           /\ Mgr = "response" /\ Len(Ch(chan, SMaster, SManager)) = 1
           /\ Ch(chan, SMaster, SManager)[1][2] = Queueing)'
    BY <1>2, <1>7, <1>9, <1>10
  <2>3. (\A i \in DOMAIN fdq : fdq[i] \in FdsOf(want.b) \cup {0})'
    <3>1. FdsOf(want'.b) = FdsOf(want.b)
      BY <1>0
    <3> QED
      BY <1>9, <3>1 DEF FdsOf
  <2>4. (Zero => ~want.timer)'
    BY <1>0, <1>9 DEF ServerInv, AskInv
  <2> QED
    BY <1>2, <1>7, <1>9, <2>1, <2>2, <2>3, <2>4 DEF AskInv
<1>16. DoneInv'
  <2>1. /\ \A w \in SWorkers : Passed(w) => Passed(w)'
        /\ \A w \in SWorkers : spc[w] # "wait" => spc'[w] # "wait"
    BY <1>0, <1>7 DEF Passed
  <2>2. \A p \in SProcs : Kept(chan, chan', SManager, p, Start)
    <3>1. \A p \in SProcs : p # SMaster => Ch(chan', SManager, p) = Ch(chan, SManager, p)
      BY <1>1, <1>10
    <3> QED
      BY <1>0, <1>11, <3>1, KeptSame
  <2> QED
    BY <1>0, <1>7, <1>8, <1>11, <1>13, <2>1, <2>2, DoneSame DEF ServerInv
<1>17. EndInv'
  BY <1>0, <1>7, <1>8 DEF ServerInv, EndInv, HostNames
<1> QED
  BY <1>12, <1>14, <1>15, <1>16, <1>17 DEF ServerInv

\* The master hears that the manager has them, or that the startup is over.
LEMMA CloseKeeps ==
  ASSUME ServerInv, ServerClose \/ ServerMasterDone
  PROVE  ServerInv'
<1> USE Procs
<1>0. /\ ServerTypes /\ chan \in Chans
      /\ Has(SManager, SMaster) /\ chan' = Took(SManager, SMaster)
      /\ UNCHANGED <<fdq, socks, want, hosts, listening, srun, starts>>
      /\ \/ Goto(SMaster, "wait") /\ mfds' = {} /\ UNCHANGED <<shared, finished>>
            /\ spc[SMaster] = "sent"
         \/ Aborts(SMaster)
         \/ Finishes(SMaster) /\ UNCHANGED <<shared, mfds>> /\ spc[SMaster] = "wait"
  BY DEF ServerInv, ServerTypes, ServerClose, ServerMasterDone, CloseSent
<1>1. /\ chan' \in Chans
      /\ \A r, s \in SProcs : (r # SManager \/ s # SMaster) => Ch(chan', r, s) = Ch(chan, r, s)
      /\ \A r, s \in SProcs : \A T : Kept(chan, chan', r, s, T)
  BY <1>0, TakingNow
<1>2. /\ spc \in [SProcs -> Pcs] /\ finished \in [SProcs -> BOOLEAN]
      /\ shared \in [aborted : BOOLEAN, done : Nat]
  BY <1>0 DEF ServerTypes
<1>3. /\ spc' \in [SProcs -> Pcs] /\ finished' \in [SProcs -> BOOLEAN]
      /\ shared' \in [aborted : BOOLEAN, done : Nat] /\ shared'.done = shared.done
      /\ shared.aborted => shared'.aborted
      /\ shared.done \in Nat
      /\ \A p \in SProcs : p # SMaster => spc'[p] = spc[p] /\ finished'[p] = finished[p]
      /\ Mgr' = Mgr
      /\ spc'[SMaster] = "failed" => shared'.aborted
      /\ spc'[SMaster] \in {"wait", "done"} => mfds' = {}
      /\ finished'[SMaster] => spc'[SMaster] \in {"done", "failed"}
  <2>1. CASE Goto(SMaster, "wait") /\ mfds' = {} /\ UNCHANGED <<shared, finished>>
             /\ spc[SMaster] = "sent"
    BY <1>2, <2>1 DEF Goto, Pcs, Mgr, ServerInv, EndInv, HostNames
  <2>2. CASE Aborts(SMaster)
    BY <1>2, <2>2 DEF Aborts, Goto, Pcs, Mgr
  <2>3. CASE Finishes(SMaster) /\ UNCHANGED <<shared, mfds>> /\ spc[SMaster] = "wait"
    BY <1>2, <2>3 DEF Finishes, Goto, Pcs, Mgr, ServerInv, EndInv, HostNames
  <2> QED
    BY <1>0, <2>1, <2>2, <2>3
<1>4. /\ ServerTypes' /\ \A w \in SWorkers : Pairs(w)' = Pairs(w)
      /\ Ch(chan', SMaster, SManager) = Ch(chan, SMaster, SManager)
  BY <1>0, <1>1, <1>3 DEF ServerTypes, Pairs
<1>5. AtInv' /\ AskInv' /\ SockInv' /\ OwnInv' /\ GiveInv' /\ RouteInv'
  BY <1>0, <1>1, <1>3, <1>4, Aside
<1>6. DoneInv'
  <2>1. /\ \A w \in SWorkers : Passed(w) => Passed(w)'
        /\ \A w \in SWorkers : spc[w] # "wait" => spc'[w] # "wait"
    BY <1>0, <1>3 DEF Passed
  <2> QED
    BY <1>0, <1>1, <1>3, <1>4, <2>1, DoneSame DEF ServerInv
<1>7. EndInv'
  BY <1>0, <1>3 DEF ServerInv, EndInv, HostNames
<1> QED
  BY <1>4, <1>5, <1>6, <1>7 DEF ServerInv
-----------------------------------------------------------------------------
(* A worker's step that remains.                                           *)

\* A worker takes its socket and listens on it, or fails to, and answers.
LEMMA ListenKeeps ==
  ASSUME ServerInv, NEW w \in SWorkers, ServerListen(w)
  PROVE  ServerInv'
<1> USE Procs
<1> DEFINE c == Took(SManager, w)
           s == First(SManager, w)[2]
           l == [b |-> s[1], fd |-> s[2], on |-> TRUE]
<1>0. /\ ServerTypes /\ chan \in Chans /\ spc[w] = "wait"
      /\ Has(SManager, w) /\ First(SManager, w)[1] = "socket"
      /\ UNCHANGED <<fdq, mfds, socks, want, hosts, srun, starts>>
  BY DEF ServerInv, ServerTypes, ServerListen
<1>1. /\ c \in Chans
      /\ \A r, q \in SProcs : (r # SManager \/ q # w) => Ch(c, r, q) = Ch(chan, r, q)
      /\ \A r, q \in SProcs : \A T : Kept(chan, c, r, q, T)
      /\ \A i \in Nat : \A t :
           In(c, SManager, w, i, t) => In(chan, SManager, w, i + 1, t) /\ i > 0
      /\ \A t : First(SManager, w)[1] = t => In(chan, SManager, w, 1, t)
      /\ First(SManager, w) = Ch(chan, SManager, w)[1]
  BY <1>0, TakingNow
<1>2. Is(SManager, w, 1, "socket") /\ s = Ch(chan, SManager, w)[1][2]
  BY <1>0, <1>1 DEF Is
<1>3. /\ Mgr = "answer" /\ w = want.w /\ s[1] = want.b
      /\ \A j \in Nat : ~Answer(w, j) /\ (Is(SManager, w, j, "socket") => 1 = j)
      /\ \A v \in SWorkers : v # w => \A j \in Nat :
           ~Is(SManager, v, j, "socket") /\ ~Answer(v, j)
  <2>1. /\ Mgr = "answer" /\ w = want.w /\ Ch(chan, SManager, w)[1][2][1] = want.b
        /\ \A j \in Nat : ~Answer(w, j) /\ (Is(SManager, w, j, "socket") => 1 = j)
    BY <1>2 DEF ServerInv, GiveInv
  <2>2. \A v \in SWorkers : v # w => \A j \in Nat :
           ~Is(SManager, v, j, "socket") /\ ~Answer(v, j)
    BY <2>1 DEF ServerInv, GiveInv
  <2> QED
    BY <1>2, <2>1, <2>2
<1>4. /\ s \in Bindings \X Int /\ s[2] \in FdsOf(s[1]) /\ s[2] \notin socks[s[1]]
      /\ \A v \in SWorkers : \A x \in Pairs(v) : x[2] # s[2]
  BY <1>2 DEF ServerInv, OwnInv
<1>5. l \in Listeners /\ <<l.b, l.fd>> = s
  <2>1. s[1] \in Bindings /\ s[2] \in Int /\ s = <<s[1], s[2]>>
    BY <1>4
  <2> HIDE DEF s
  <2> QED
    BY <2>1 DEF Listeners
<1>6. PICK t \in Answers :
        /\ TrySend(w, SManager, <<t, 0>>, c, "wait")
        /\ \/ listening' = [listening EXCEPT ![w] = @ \cup {l}]
           \/ t # "ok" /\ listening' = listening
  BY DEF ServerListen, Answers
<1> HIDE DEF l, s, c
<1>7. /\ listening' \in [SWorkers -> SUBSET Listeners]
      /\ \A v \in SWorkers : v # w => Pairs(v)' = Pairs(v)
      /\ Pairs(w)' = Pairs(w) \/ Pairs(w)' = Pairs(w) \cup {s}
      /\ t = "ok" => s \in Pairs(w)'
  <2>1. listening \in [SWorkers -> SUBSET Listeners]
    BY <1>0 DEF ServerTypes
  <2>2. CASE listening' = listening /\ t # "ok"
    BY <2>1, <2>2 DEF Pairs
  <2>3. CASE listening' = [listening EXCEPT ![w] = @ \cup {l}]
    <3>1. /\ listening' \in [SWorkers -> SUBSET Listeners]
          /\ \A v \in SWorkers : v # w => listening'[v] = listening[v]
          /\ listening'[w] = listening[w] \cup {l}
      BY <1>5, <2>1, <2>3
    <3>2. Pairs(w)' = Pairs(w) \cup {s}
      BY <1>5, <3>1 DEF Pairs
    <3> QED
      BY <3>1, <3>2 DEF Pairs
  <2> QED
    BY <1>6, <2>2, <2>3
<1>8. \/ chan' = c /\ Aborts(w)
      \/ /\ chan' = Sent(c, w, SManager, <<t, 0>>) /\ Goto(w, "wait")
         /\ UNCHANGED <<shared, finished>>
  BY <1>6 DEF TrySend, Sent
<1>9. /\ spc' \in [SProcs -> Pcs] /\ finished' \in [SProcs -> BOOLEAN]
      /\ shared' \in [aborted : BOOLEAN, done : Nat] /\ shared'.done = shared.done
      /\ shared.aborted => shared'.aborted
      /\ shared.done \in Nat
      /\ \A p \in SProcs : p # w => spc'[p] = spc[p] /\ finished'[p] = finished[p]
      /\ Mgr' = Mgr
  <2>1. /\ spc \in [SProcs -> Pcs] /\ finished \in [SProcs -> BOOLEAN]
        /\ shared \in [aborted : BOOLEAN, done : Nat]
    BY <1>0 DEF ServerTypes
  <2>2. CASE Aborts(w)
    BY <2>1, <2>2 DEF Aborts, Goto, Pcs, Mgr
  <2>3. CASE Goto(w, "wait") /\ UNCHANGED <<shared, finished>>
    BY <2>1, <2>3 DEF Goto, Pcs, Mgr
  <2> QED
    BY <1>8, <2>2, <2>3
<1>10. /\ chan' \in Chans
       /\ \A r, q \in SProcs : (r # w \/ q # SManager) => Ch(chan', r, q) = Ch(c, r, q)
       /\ \A r, q \in SProcs : \A T : t \notin T => Kept(c, chan', r, q, T)
       /\ \A i \in Nat : In(chan', w, SManager, i, t) =>
            \/ In(c, w, SManager, i, t)
            \/ i = Len(Ch(c, w, SManager)) + 1
  <2>1. CASE chan' = c
    <3>1. chan' \in Chans
      BY <1>1, <2>1
    <3>2. \A r, q \in SProcs : \A T : Kept(c, chan', r, q, T)
      BY <1>1, <2>1, KeptSame
    <3> QED
      BY <2>1, <3>1, <3>2
  <2>2. CASE chan' = Sent(c, w, SManager, <<t, 0>>)
    <3>1. t \in Tags /\ 0 \in Int \cup (Int \X Int)
      BY DEF Tags, Answers
    <3>2. chan' \in Chans
      BY <1>1, <2>2, <3>1, Sending
    <3>3. \A r, q \in SProcs : (r # w \/ q # SManager) => Ch(chan', r, q) = Ch(c, r, q)
      BY <1>1, <2>2, <3>1, Sending
    <3>4. \A r, q \in SProcs : \A T : t \notin T => Kept(c, chan', r, q, T)
      BY <1>1, <2>2, <3>1, Sending
    <3>5. \A i \in Nat : In(chan', w, SManager, i, t) =>
            \/ In(c, w, SManager, i, t)
            \/ i = Len(Ch(c, w, SManager)) + 1
      BY <1>1, <2>2, <3>1, Sending
    <3> QED
      BY <3>2, <3>3, <3>4, <3>5
  <2> QED
    BY <1>8, <2>1, <2>2
<1>11. /\ \A p, q \in SProcs : (p # w \/ q # SManager) /\ (p # SManager \/ q # w) =>
            Ch(chan', p, q) = Ch(chan, p, q)
       /\ \A p \in SProcs : Ch(chan', SManager, p) = Ch(c, SManager, p)
       /\ Ch(c, w, SManager) = Ch(chan, w, SManager)
  BY <1>1, <1>10
<1>12. \A p \in SProcs : \A T : Kept(chan, chan', SManager, p, T)
  <2> SUFFICES ASSUME NEW p \in SProcs, NEW T
               PROVE  Kept(chan, chan', SManager, p, T)
    OBVIOUS
  <2>1. Kept(chan, c, SManager, p, T) /\ Ch(chan', SManager, p) = Ch(c, SManager, p)
    BY <1>1, <1>11
  <2> QED
    BY <2>1 DEF Kept, In
<1>13. \A v \in SWorkers : \A T : t \notin T => Kept(chan, chan', v, SManager, T)
  <2> SUFFICES ASSUME NEW v \in SWorkers, NEW T, t \notin T
               PROVE  Kept(chan, chan', v, SManager, T)
    OBVIOUS
  <2>1. Kept(c, chan', v, SManager, T) /\ Ch(c, v, SManager) = Ch(chan, v, SManager)
    BY <1>1, <1>10
  <2> QED
    BY <2>1 DEF Kept, In
<1>14. \A v \in SWorkers : \A i \in Nat : ~Is(SManager, v, i, "socket")'
  <2> SUFFICES ASSUME NEW v \in SWorkers, NEW i \in Nat, In(chan', SManager, v, i, "socket")
               PROVE  FALSE
    BY DEF Is
  <2>1. CASE v = w
    <3>1. In(c, SManager, w, i, "socket")
      BY <1>11, <2>1 DEF In
    <3>2. i + 1 \in Nat /\ i + 1 = 1 /\ i > 0
      BY <1>1, <1>3, <3>1 DEF Is
    <3> QED
      BY <3>2
  <2>2. CASE v # w
    BY <1>3, <1>11, <2>2 DEF Is, In
  <2> QED
    BY <2>1, <2>2
<1>15. \A v \in SWorkers : \A i \in Nat : \A u \in Answers : In(chan', v, SManager, i, u) =>
          v = w /\ u = t /\ i = Len(Ch(chan, w, SManager)) + 1
  <2> SUFFICES ASSUME NEW v \in SWorkers, NEW i \in Nat, NEW u \in Answers,
                      In(chan', v, SManager, i, u)
               PROVE  v = w /\ u = t /\ i = Len(Ch(chan, w, SManager)) + 1
    OBVIOUS
  <2>0. \A x \in SWorkers : \A j \in Nat : \A a \in Answers : ~In(chan, x, SManager, j, a)
    BY <1>3 DEF Answer, Is, Answers
  <2>1. v = w
    BY <1>11, <2>0 DEF In
  <2>2. u = t
    <3> SUFFICES ASSUME u # t
                 PROVE  FALSE
      OBVIOUS
    <3> DEFINE T == {u}
    <3>1. t \notin T /\ u \in T
      OBVIOUS
    <3> HIDE DEF T
    <3>2. Kept(chan, chan', v, SManager, T)
      BY <1>13, <3>1
    <3>3. \E j \in Nat : In(chan, v, SManager, j, u)
      BY <3>1, <3>2, KeptHad
    <3> QED
      BY <2>0, <3>3
  <2>3. In(chan', w, SManager, i, t) /\ ~In(c, w, SManager, i, t)
    BY <1>11, <2>0, <2>1, <2>2 DEF In
  <2> QED
    BY <1>10, <1>11, <2>1, <2>2, <2>3
<1>16. ServerTypes'
  BY <1>0, <1>7, <1>9, <1>10 DEF ServerTypes
<1>17. AtInv'
  BY <1>0, <1>9 DEF ServerInv, AtInv
<1>18. AskInv'
  <2>1. Ch(chan', SMaster, SManager) = Ch(chan, SMaster, SManager)
    BY <1>11
  <2> QED
    BY <1>0, <1>9, <1>12, <2>1, AskSame DEF ServerInv
<1>19. SockInv'
  BY <1>0, <1>3, <1>9, SockSame DEF ServerInv, Asking
<1>20. OwnInv'
  <2>1. (\A v \in SWorkers : \A x \in Pairs(v) :
           x[1] \in Bindings /\ x[2] \in FdsOf(x[1]) /\ x[2] \notin socks[x[1]])'
    <3>1. \A v \in SWorkers : \A x \in Pairs(v) :
             x[1] \in Bindings /\ x[2] \in FdsOf(x[1]) /\ x[2] \notin socks[x[1]]
      BY DEF ServerInv, OwnInv
    <3>2. \A v \in SWorkers : \A x \in Pairs(v)' : x \in Pairs(v) \/ x = s
      BY <1>7
    <3>3. s[1] \in Bindings
      BY <1>4
    <3> QED
      BY <1>0, <1>4, <3>1, <3>2, <3>3 DEF FdsOf
  <2>2. (\A v, u \in SWorkers : \A x \in Pairs(v), y \in Pairs(u) :
           x[2] = y[2] => v = u)'
    <3>1. \A v, u \in SWorkers : \A x \in Pairs(v), y \in Pairs(u) : x[2] = y[2] => v = u
      BY DEF ServerInv, OwnInv
    <3>2. \A v \in SWorkers : \A x \in Pairs(v)' : x \in Pairs(v) \/ (v = w /\ x = s)
      BY <1>7
    <3> QED
      BY <1>4, <3>1, <3>2
  <2> QED
    BY <1>14, <2>1, <2>2 DEF OwnInv
<1>21. \A v \in SWorkers : Pairs(v) \subseteq Pairs(v)'
  BY <1>7
<1>22. GiveInv'
  <2>1. \A v \in SWorkers : \A b : Serves(v, b) => Serves(v, b)'
    BY <1>21 DEF Serves
  <2>2. \A v \in SWorkers : \A i \in Nat : Answer(v, i)' =>
           /\ v = w /\ i = Len(Ch(chan, w, SManager)) + 1
           /\ Is(v, SManager, i, "ok")' => t = "ok"
    BY <1>15 DEF Answer, Is, Answers
  <2>3. t = "ok" => Serves(w, want.b)'
    BY <1>0, <1>3, <1>7 DEF Serves
  <2>4. (\A v \in SWorkers : \A i \in Nat : Answer(v, i) =>
           /\ Mgr = "answer" /\ v = want.w
           /\ Is(v, SManager, i, "ok") => Serves(v, want.b)
           /\ \A j \in Nat : Answer(v, j) => i = j)'
    BY <1>0, <1>3, <1>9, <2>2, <2>3
  <2>5. (\A b \in 1..(want.b - 1) : Serves(want.w, b))'
    <3>1. \A b \in 1..(want.b - 1) : Serves(want.w, b)
      BY <1>3 DEF ServerInv, GiveInv
    <3>2. \A b \in 1..(want.b - 1) : Serves(w, b)'
      BY <1>3, <2>1, <3>1
    <3>3. want'.w = w /\ want'.b = want.b
      BY <1>0, <1>3
    <3> QED
      BY <3>2, <3>3 DEF Serves
  <2> QED
    BY <1>3, <1>9, <1>14, <2>4, <2>5 DEF GiveInv
<1>23. RouteInv'
  <2>1. t \notin Other
    BY DEF Answers, Other
  <2> QED
    BY <1>13, <2>1, RouteSame DEF ServerInv
<1>24. DoneInv'
  <2>1. /\ \A v \in SWorkers : Passed(v) => Passed(v)'
        /\ \A v \in SWorkers : spc[v] # "wait" => spc'[v] # "wait"
    BY <1>0, <1>9 DEF Passed
  <2>2. t \notin Started
    BY DEF Answers, Started
  <2>3. \A v \in SWorkers : Kept(chan, chan', v, SManager, Started)
    BY <1>13, <2>2
  <2> QED
    BY <1>0, <1>9, <1>12, <1>21, <2>1, <2>3, DoneSame DEF ServerInv
<1>25. EndInv'
  BY <1>0, <1>9 DEF ServerInv, EndInv, HostNames
<1> QED
  BY <1>16, <1>17, <1>18, <1>19, <1>20, <1>22, <1>23, <1>24, <1>25 DEF ServerInv

-----------------------------------------------------------------------------
(* The theorem.                                                            *)

\* The startup begins there.
LEMMA ServerStarts ==
  ASSUME ServerInit
  PROVE  ServerInv
<1> USE Procs
<1>1. /\ spc \in [SProcs -> Pcs] /\ Mgr = "off"
      /\ \A p \in SProcs : p # SManager => spc[p] = "wait"
  BY DEF ServerInit, Mgr, Pcs, Asking
<1>2. chan \in Chans /\ \A p, q \in SProcs : Ch(chan, p, q) = <<>>
  BY DEF ServerInit, Chans, Ch
<1>3. want \in [b : Int, w : SWorkers, n : Int, timer : BOOLEAN]
  BY DEF ServerInit
<1>4. fdq \in Seq(Int) /\ DOMAIN fdq = {} /\ Len(fdq) = 0
  BY DEF ServerInit
<1>5. /\ shared \in [aborted : BOOLEAN, done : Nat] /\ shared.done = 0
      /\ listening \in [SWorkers -> SUBSET Listeners]
      /\ \A w \in SWorkers : listening[w] = {}
      /\ socks \in [Bindings -> SUBSET Int] /\ \A b \in Bindings : socks[b] = {}
      /\ finished \in [SProcs -> BOOLEAN] /\ \A p \in SProcs : ~finished[p]
      /\ srun \in [SProcs -> {"running", "stopping", "closing", "stopped"}]
      /\ starts \in [SProcs -> Nat] /\ \A p \in SProcs : starts[p] = 0
  BY DEF ServerInit
<1>6. \A p, q \in SProcs : \A i, t : ~Is(p, q, i, t)
  <2>1. \A i : i \notin DOMAIN <<>>
    OBVIOUS
  <2> QED
    BY <1>2, <2>1 DEF Is, In
<1>7. ServerTypes
  BY <1>1, <1>2, <1>3, <1>4, <1>5 DEF ServerTypes
<1>8. AtInv
  BY <1>1 DEF ServerInit, AtInv, Asking, Giving, Bound
<1>9. AskInv
  BY <1>1, <1>2, <1>4, <1>6 DEF AskInv, NoFds, Zero
<1>10. SockInv
  BY <1>1, <1>5 DEF SockInv, Asking, Giving
<1>11. OwnInv
  BY <1>5, <1>6 DEF OwnInv, Pairs
<1>12. GiveInv
  BY <1>1, <1>6 DEF GiveInv, Answer
<1>13. RouteInv
  BY <1>6 DEF RouteInv
<1>14. DoneInv
  <2>1. Counted = {}
    BY <1>1 DEF Counted
  <2>2. CountRight
    BY <1>5, <2>1, FS_EmptySet DEF CountRight
  <2> QED
    BY <1>5, <1>6, <2>2 DEF DoneInv, DoneSaid, StartedSaid, StartSaid, StartHeard
<1>15. EndInv
  BY <1>1, <1>5 DEF ServerInit, EndInv, HostNames
<1> QED
  BY <1>7, <1>8, <1>9, <1>10, <1>11, <1>12, <1>13, <1>14, <1>15 DEF ServerInv

\* Every step keeps the invariant.
LEMMA ServerGoes ==
  ASSUME ServerInv, [ServerNext]_serverVars
  PROVE  ServerInv'
<1>1. CASE ServerResolve
  BY <1>1, ResolveKeeps
<1>2. CASE ServerRequest
  BY <1>2, RequestKeeps
<1>3. CASE ServerResponse
  BY <1>3, ResponseKeeps
<1>4. CASE ServerReceiveFd
  BY <1>4, ReceiveFdKeeps
<1>5. CASE ServerTimeout
  BY <1>5, TimeoutKeeps
<1>6. CASE ServerReceived
  BY <1>6, ReceivedKeeps
<1>7. CASE ServerGive
  BY <1>7, GiveKeeps
<1>8. CASE ServerAnswer
  BY <1>8, AnswerKeeps
<1>9. CASE ServerDoneWorker
  BY <1>9, DoneWorkerKeeps
<1>10. CASE ServerDoneMaster
  BY <1>10, DoneMasterKeeps
<1>11. CASE ServerStartAll
  BY <1>11, StartAllKeeps
<1>12. CASE ServerOpen
  BY <1>12, OpenKeeps
<1>13. CASE ServerClose \/ ServerMasterDone
  BY <1>13, CloseKeeps
<1>14. CASE \E w \in SWorkers : ServerListen(w) \/ ServerCount(w) \/ ServerLast(w)
  BY <1>14, ListenKeeps, CountKeeps, LastKeeps
<1>15. CASE \E p \in SProcs : ServerStart(p)
  BY <1>15, StartKeeps
<1>16. CASE \E p \in SProcs : ServerClosing(p)
  BY <1>16, ClosingKeeps
<1>17. srun \in [SProcs -> {"running", "stopping", "closing", "stopped"}]
  BY DEF ServerInv, ServerTypes
<1>18. CASE \E p \in SProcs : ServerStop(p) \/ ServerStopped(p)
  BY <1>17, <1>18, StoppedKeeps DEF ServerStop, ServerStopped
<1>19. CASE UNCHANGED serverVars
  BY <1>17, <1>19, StoppedKeeps DEF serverVars
<1>20. CASE ServerReport
  BY <1>20, ReportKeeps
<1> QED
  BY <1>1, <1>2, <1>3, <1>4, <1>5, <1>6, <1>7, <1>8, <1>9, <1>10, <1>11, <1>12,
     <1>13, <1>14, <1>15, <1>16, <1>18, <1>19, <1>20 DEF ServerNext, ServerStep

\* A worker whose startup is over no longer starts listeners.
ClosedInv ==
  /\ \A w \in SWorkers : finished[w] => spc[w] \in {"done", "failed"}
  /\ \A w \in SWorkers : srun[w] \in {"closing", "stopped"} /\ ~shared.aborted =>
       finished[w] /\ \A l \in listening[w] : ~l.on

\* What a step may change of a worker.
WorkerStep(w) ==
  /\ shared.aborted => shared'.aborted
  /\ finished[w] => finished'[w]
  /\ finished'[w] => finished[w] \/ spc'[w] \in {"done", "failed"}
  /\ spc'[w] # spc[w] => spc[w] \in {"wait", "counted"}
  /\ \/ srun'[w] = srun[w] \/ srun'[w] = "stopping" \/ srun[w] = "closing"
     \/ srun[w] = "stopping" /\ MayStop(w) /\ srun'[w] = "closing"
        /\ \A l \in listening'[w] : ~l.on
  /\ \/ listening'[w] = listening[w] \/ spc[w] = "wait"
     \/ \A l \in listening'[w] : ~l.on

\* Every step is such a step.
LEMMA WorkerChanges ==
  ASSUME ServerInv, ServerNext, NEW w \in SWorkers
  PROVE  WorkerStep(w)
<1> USE Procs
<1>1. /\ spc \in [SProcs -> Pcs] /\ finished \in [SProcs -> BOOLEAN]
      /\ shared \in [aborted : BOOLEAN, done : Nat] /\ w \in SProcs
      /\ srun \in [SProcs -> {"running", "stopping", "closing", "stopped"}]
      /\ w # SManager /\ w # SMaster
      /\ listening \in [SWorkers -> SUBSET Listeners]
  BY DEF ServerInv, ServerTypes
<1>3. CASE ServerReport \/ ServerResolve \/ ServerRequest \/ ServerResponse
  BY <1>1, <1>3 DEF WorkerStep, ServerReport, ServerResolve, ServerRequest, ServerResponse,
     TrySend, Goto, Aborts
<1>4. CASE ServerReceiveFd \/ ServerTimeout \/ ServerReceived
  BY <1>1, <1>4 DEF WorkerStep, ServerReceiveFd, ServerTimeout, ServerReceived, TrySend, Goto,
     Aborts
<1>5. CASE ServerGive
  BY <1>1, <1>5 DEF WorkerStep, ServerGive, TrySend, Goto, Aborts
<1>6. CASE ServerAnswer \/ ServerDoneWorker
  BY <1>1, <1>6 DEF WorkerStep, ServerAnswer, ServerDoneWorker, TrySend, Goto, Aborts
<1>7. CASE ServerDoneMaster \/ ServerStartAll
  BY <1>1, <1>7 DEF WorkerStep, ServerDoneMaster, ServerStartAll, Aborts, Finishes, Goto
<1>8. CASE ServerOpen
  BY <1>1, <1>8 DEF WorkerStep, ServerOpen, TrySend, Goto, Aborts
<1>9. CASE ServerClose \/ ServerMasterDone
  BY <1>1, <1>9 DEF WorkerStep, ServerClose, ServerMasterDone, Goto, Aborts, Finishes
<1>10. ASSUME NEW v \in SWorkers, ServerListen(v) \/ ServerCount(v) \/ ServerLast(v)
       PROVE  WorkerStep(w)
  <2>1. CASE ServerListen(v)
    BY <1>1, <2>1 DEF ServerListen, TrySend, Goto, Aborts, WorkerStep
  <2>2. CASE ServerCount(v)
    BY <1>1, <2>2 DEF ServerCount, Goto, WorkerStep
  <2>3. CASE ServerLast(v)
    BY <1>1, <2>3 DEF ServerLast, Aborts, Finishes, Goto, WorkerStep
  <2> QED
    BY <1>10, <2>1, <2>2, <2>3
<1>11. ASSUME NEW p \in SProcs,
              ServerStart(p) \/ ServerStop(p) \/ ServerClosing(p) \/ ServerStopped(p)
       PROVE  WorkerStep(w)
  <2>1. CASE ServerStart(p) \/ ServerStop(p) \/ ServerStopped(p)
    BY <1>1, <2>1 DEF ServerStart, ServerStop, ServerStopped, WorkerStep
  <2>2. CASE ServerClosing(p)
    <3>1. p = w => \A l \in listening'[w] : ~l.on
      BY <1>1, <2>2 DEF ServerClosing, Listeners
    <3>2. p # w => listening'[w] = listening[w]
      BY <1>1, <2>2 DEF ServerClosing
    <3> QED
      BY <1>1, <2>2, <3>1, <3>2 DEF ServerClosing, WorkerStep
  <2> QED
    BY <1>11, <2>1, <2>2
<1> QED
  BY <1>3, <1>4, <1>5, <1>6, <1>7, <1>8, <1>9, <1>10, <1>11 DEF ServerNext, ServerStep

\* No worker has stopped before it began.
LEMMA ClosedStarts ==
  ASSUME ServerInit
  PROVE  ClosedInv
  BY Procs DEF ServerInit, ClosedInv

\* A worker that stops has started its last listener.
LEMMA ClosedGoes ==
  ASSUME ServerInv, ClosedInv, [ServerNext]_serverVars
  PROVE  ClosedInv'
<1>1. CASE UNCHANGED serverVars
  BY <1>1 DEF ClosedInv, serverVars
<1>2. CASE ServerNext
  <2> SUFFICES ASSUME NEW w \in SWorkers
               PROVE  /\ finished'[w] => spc'[w] \in {"done", "failed"}
                      /\ srun'[w] \in {"closing", "stopped"} /\ ~shared'.aborted =>
                           finished'[w] /\ \A l \in listening'[w] : ~l.on
    BY DEF ClosedInv
  <2>1. WorkerStep(w)
    BY <1>2, WorkerChanges
  <2>2. finished'[w] => spc'[w] \in {"done", "failed"}
    BY <2>1 DEF ClosedInv, WorkerStep
  <2>3. ASSUME srun'[w] \in {"closing", "stopped"}, ~shared'.aborted
        PROVE  finished'[w] /\ \A l \in listening'[w] : ~l.on
    BY <2>1, <2>3 DEF ClosedInv, WorkerStep, MayStop
  <2> QED
    BY <2>2, <2>3
<1> QED
  BY <1>1, <1>2

\* What they say of the server.
LEMMA ServerMeans ==
  ASSUME ServerInv, ClosedInv
  PROVE  ServerSound
<1> USE Procs
<1>1. listening \in [SWorkers -> SUBSET Listeners]
  BY DEF ServerInv, ServerTypes
<1>2. \A w \in SWorkers : \A l \in listening[w] :
         l.b \in Bindings /\ <<l.b, l.fd>> \in Pairs(w)
  BY <1>1 DEF Listeners, Pairs
<1>3. ServerStartsComplete
  <2> SUFFICES ASSUME NEW p \in SProcs, starts[p] > 0, NEW w \in SWorkers
               PROVE  {l.b : l \in listening[w]} = Bindings
    BY DEF ServerStartsComplete
  <2>1. Complete(w)
    BY DEF ServerInv, DoneInv, StartHeard, AllComplete
  <2>2. ASSUME NEW b \in Bindings
        PROVE  \E l \in listening[w] : l.b = b
    <3>1. PICK x \in Pairs(w) : x[1] = b
      BY <2>1 DEF Complete, Serves
    <3>2. PICK l \in listening[w] : x = <<l.b, l.fd>>
      BY DEF Pairs
    <3> QED
      BY <3>1, <3>2
  <2> QED
    BY <1>2, <2>2
<1>4. ServerOwnSockets
  <2> SUFFICES ASSUME NEW v \in SWorkers, NEW w \in SWorkers,
                      NEW k \in listening[v], NEW l \in listening[w], k.fd = l.fd
               PROVE  v = w /\ k.b = l.b
    BY DEF ServerOwnSockets
  <2> DEFINE x == <<k.b, k.fd>>
             y == <<l.b, l.fd>>
  <2>1. x \in Pairs(v) /\ y \in Pairs(w) /\ x[2] = y[2]
    BY <1>2
  <2>2. v = w
    BY <2>1 DEF ServerInv, OwnInv
  <2>3. x[2] \in FdsOf(x[1]) /\ y[2] \in FdsOf(y[1])
    BY <2>1 DEF ServerInv, OwnInv
  <2>4. k.fd \in FdsOf(k.b) /\ k.fd \in FdsOf(l.b)
    BY <2>3
  <2>5. k.b = l.b
    BY <1>2, <2>4, OwnFds
  <2> QED
    BY <2>2, <2>5
<1>5. ServerKeepsNothing
  <2>0. \A w \in SWorkers : srun[w] = "stopped" /\ ~shared.aborted =>
          \A l \in listening[w] : ~l.on
    BY DEF ClosedInv
  <2> SUFFICES ASSUME finished[SManager], finished[SMaster], ~shared.aborted
               PROVE  /\ mfds = {} /\ \A b \in Bindings : socks[b] = {}
                      /\ \A h \in hosts : h[2] = "name"
    BY <2>0 DEF ServerKeepsNothing
  <2>1. Mgr = "done" /\ spc[SMaster] = "done"
    BY DEF ServerInv, EndInv, HostNames
  <2>2. mfds = {} /\ \A h \in hosts : h[2] = "name"
    BY <2>1 DEF ServerInv, EndInv, HostNames
  <2>3. \A b \in Bindings : socks[b] = {}
    BY <2>1 DEF ServerInv, SockInv
  <2> QED
    BY <2>2, <2>3
<1> QED
  BY <1>3, <1>4, <1>5 DEF ServerSound

\* However the conversation of manager, master and workers goes (server.lua),
\* whatever fails, times out or is stopped in it, and for every number of
\* bindings and of workers: server:start is published only when every worker
\* listens for every binding, each socket is listened on by one worker for one
\* binding, and a startup that was not aborted leaves no socket and of the host
\* data only the names behind, and no socket of a stopped worker listened on.
THEOREM ServerStartsSound == ServerSpec => []ServerSound
<1>1. ServerInit => ServerInv /\ ClosedInv
  BY ServerStarts, ClosedStarts
<1>2. ServerInv /\ ClosedInv /\ [ServerNext]_serverVars => (ServerInv /\ ClosedInv)'
  BY ServerGoes, ClosedGoes
<1>3. ServerInv /\ ClosedInv => ServerSound
  BY ServerMeans
<1> QED
  BY <1>1, <1>2, <1>3, PTL DEF ServerSpec

(******************************* the resolver ******************************)

\* The resolver without its liveness.
ResolverSpec == ResolverInit /\ [][ResolverNext]_resolverVars

\* List, watchers and sockets agree, and no socket is listed twice.
Agree(s) ==
  /\ s.list \in Seq(Fds)
  /\ \A i, j \in 1..Len(s.list) : s.list[i] = s.list[j] => i = j
  /\ s.open = {s.list[i] : i \in 1..Len(s.list)}
  /\ s.watch = s.open \X {"r", "w"}

ReqRec == [st : {"none", "pending", "done"}, mode : {"fn", "co"}, tries : Nat,
           ref : BOOLEAN, mem : BOOLEAN, finished : BOOLEAN, results : Nat]
\* A request has no result while it is pending, and one when it is done.
Asked(q) ==
  /\ q \in ReqRec
  /\ q.st = "pending" => q.results = 0 /\ ~q.finished
  /\ q.st = "done" => q.results = 1 /\ ~q.mem /\ ~q.ref
ResolverInv ==
  /\ Agree(SocketsNow)
  /\ req \in [Requests -> ReqRec] /\ \A r \in Requests : Asked(req[r])
  /\ rrun = "stopped" => Pending(req) = {}

\* A socket is opened in front of the others.
LEMMA SocketOpens ==
  ASSUME NEW s, Agree(s), NEW fd \in Fds, fd \notin s.open
  PROVE  Agree(ares_socket_open(s, fd)) /\ fd \in ares_socket_open(s, fd).open
         /\ s.open \subseteq ares_socket_open(s, fd).open
<1> DEFINE t == ares_socket_open(s, fd)
           n == Len(s.list)
<1>1. /\ t.list = <<fd>> \o s.list /\ t.open = s.open \cup {fd}
      /\ t.watch = s.watch \cup ({fd} \X {"r", "w"})
  BY DEF ares_socket_open, SocketEvents
<1> HIDE DEF t
<1> DEFINE a == <<fd>>
<1>2. /\ s.list \in Seq(Fds) /\ n \in Nat /\ a \in Seq(Fds) /\ Len(a) = 1 /\ a[1] = fd
  BY DEF Agree
<1> HIDE DEF n
<1>3. /\ t.list \in Seq(Fds) /\ Len(t.list) = 1 + n
      /\ \A i \in 1..(1 + n) : t.list[i] = IF i <= 1 THEN a[i] ELSE s.list[i - 1]
  <2>0. t.list = a \o s.list
    BY <1>1
  <2> HIDE DEF a
  <2>1. /\ t.list \in Seq(Fds) /\ Len(t.list) = Len(a) + Len(s.list)
        /\ \A i \in 1..(Len(a) + Len(s.list)) :
             t.list[i] = IF i <= Len(a) THEN a[i] ELSE s.list[i - Len(a)]
    <3> DEFINE c == a \o s.list
    <3>1. /\ c \in Seq(Fds) /\ Len(c) = Len(a) + Len(s.list)
          /\ \A i \in 1..(Len(a) + Len(s.list)) :
               c[i] = IF i <= Len(a) THEN a[i] ELSE s.list[i - Len(a)]
      BY <1>2, ConcatProperties, Zenon
    <3> HIDE DEF c
    <3> QED
      BY <2>0, <3>1 DEF c
  <2> QED
    BY <1>2, <2>1 DEF n
<1> HIDE DEF a
<1>4. /\ \A i \in 2..(1 + n) : i - 1 \in 1..n /\ t.list[i] = s.list[i - 1]
      /\ t.list[1] = fd /\ \A i \in 1..n : i + 1 \in 2..(1 + n) /\ t.list[i + 1] = s.list[i]
      /\ \A i \in 1..(1 + n) : i = 1 \/ i \in 2..(1 + n)
      /\ 1 \in 1..(1 + n)
  <2>1. /\ \A i \in 2..(1 + n) : i - 1 \in 1..n /\ i \in 1..(1 + n) /\ ~(i <= 1)
        /\ \A i \in 1..n : i + 1 \in 2..(1 + n) /\ (i + 1) - 1 = i
        /\ \A i \in 1..(1 + n) : i = 1 \/ i \in 2..(1 + n)
        /\ 1 \in 1..(1 + n) /\ 1 <= 1
    BY <1>2
  <2>2. \A i \in 2..(1 + n) : t.list[i] = s.list[i - 1]
    BY <1>3, <2>1
  <2>3. \A i \in 1..n : t.list[i + 1] = s.list[i]
    BY <2>1, <2>2
  <2>4. t.list[1] = fd
    BY <1>2, <1>3, <2>1
  <2> QED
    BY <2>1, <2>2, <2>3, <2>4
<1>5. \A i \in 1..n : s.list[i] # fd
  BY DEF Agree, n
<1>6. \A i, j \in 1..(1 + n) : t.list[i] = t.list[j] => i = j
  <2> SUFFICES ASSUME NEW i \in 1..(1 + n), NEW j \in 1..(1 + n), t.list[i] = t.list[j]
               PROVE  i = j
    OBVIOUS
  <2>1. CASE i = 1 \/ j = 1
    BY <1>4, <1>5, <2>1
  <2>2. CASE i \in 2..(1 + n) /\ j \in 2..(1 + n)
    <3>1. i - 1 = j - 1
      BY <1>4, <2>2 DEF Agree, n
    <3> QED
      BY <1>2, <3>1
  <2> QED
    BY <1>4, <2>1, <2>2
<1>7. t.open = {t.list[i] : i \in 1..(1 + n)}
  <2>1. s.open = {s.list[i] : i \in 1..n}
    BY DEF Agree, n
  <2>2. \A x \in t.open : \E i \in 1..(1 + n) : x = t.list[i]
    <3> SUFFICES ASSUME NEW x \in t.open
                 PROVE  \E i \in 1..(1 + n) : x = t.list[i]
      OBVIOUS
    <3>1. CASE x = fd
      BY <1>4, <3>1
    <3>2. CASE x \in s.open
      <4>1. PICK i \in 1..n : x = s.list[i]
        BY <2>1, <3>2
      <4>2. i + 1 \in 1..(1 + n) /\ t.list[i + 1] = x
        BY <1>2, <1>4, <4>1
      <4> QED
        BY <4>2
    <3> QED
      BY <1>1, <3>1, <3>2
  <2>3. \A i \in 1..(1 + n) : t.list[i] \in t.open
    <3> SUFFICES ASSUME NEW i \in 1..(1 + n)
                 PROVE  t.list[i] \in t.open
      OBVIOUS
    <3>1. CASE i = 1
      BY <1>1, <1>4, <3>1
    <3>2. CASE i \in 2..(1 + n)
      <4>1. i - 1 \in 1..n /\ t.list[i] = s.list[i - 1]
        BY <1>4, <3>2
      <4>2. s.list[i - 1] \in s.open
        BY <2>1, <4>1
      <4> QED
        BY <1>1, <4>1, <4>2
    <3> QED
      BY <1>4, <3>1, <3>2
  <2> QED
    BY <2>2, <2>3
<1>8. t.watch = t.open \X {"r", "w"}
  BY <1>1 DEF Agree
<1>9. Agree(t)
  BY <1>3, <1>6, <1>7, <1>8 DEF Agree
<1> QED
  BY <1>1, <1>9 DEF t

\* A socket is taken out of the list, wherever it is.
LEMMA SocketCloses ==
  ASSUME NEW s, Agree(s), NEW fd \in s.open
  PROVE  LET t == ares_socket_close(s, fd)
         IN  Agree(t) /\ t.open = s.open \ {fd}
<1> DEFINE t == ares_socket_close(s, fd)
           n == Len(s.list)
           k == CHOOSE j \in DOMAIN s.list : s.list[j] = fd
           a == SubSeq(s.list, 1, k - 1)
           b == SubSeq(s.list, k + 1, n)
<1>1. /\ t.list = RemoveAt(s.list, k) /\ t.open = s.open \ {fd}
      /\ t.watch = s.watch \ ({fd} \X {"r", "w"})
  BY DEF ares_socket_close
<1>2. t.list = a \o b
  BY <1>1 DEF RemoveAt
<1>3. s.list \in Seq(Fds) /\ n \in Nat /\ DOMAIN s.list = 1..n
  BY DEF Agree
<1>4. k \in 1..n /\ s.list[k] = fd
  <2>1. \E j \in DOMAIN s.list : s.list[j] = fd
    BY <1>3 DEF Agree
  <2> QED
    BY <1>3, <2>1
<1> HIDE DEF t, k
<1>5. /\ \A i \in 1..n : s.list[i] \in Fds
      /\ \A i, j \in 1..n : s.list[i] = s.list[j] => i = j
      /\ s.open = {s.list[i] : i \in 1..n}
  BY <1>3 DEF Agree
<1>6. /\ a \in Seq(Fds) /\ Len(a) = k - 1 /\ \A i \in 1..(k - 1) : a[i] = s.list[i]
  BY <1>3, <1>4, <1>5
<1>7. /\ b \in Seq(Fds) /\ Len(b) = n - k /\ \A i \in 1..(n - k) : b[i] = s.list[k + i]
  BY <1>3, <1>4, <1>5
<1> HIDE DEF a, b
<1>8. /\ t.list \in Seq(Fds) /\ Len(t.list) = Len(a) + Len(b)
      /\ \A i \in 1..(Len(a) + Len(b)) :
           t.list[i] = IF i <= Len(a) THEN a[i] ELSE b[i - Len(a)]
  <2> DEFINE c == a \o b
  <2>1. /\ c \in Seq(Fds) /\ Len(c) = Len(a) + Len(b)
        /\ \A i \in 1..(Len(a) + Len(b)) :
             c[i] = IF i <= Len(a) THEN a[i] ELSE b[i - Len(a)]
    BY <1>6, <1>7, ConcatProperties, Zenon
  <2> HIDE DEF c
  <2> QED
    BY <1>2, <2>1 DEF c
<1> HIDE DEF n
<1>9. /\ Len(t.list) = n - 1
      /\ \A i \in 1..(n - 1) : i < k => i \in 1..n /\ t.list[i] = s.list[i]
      /\ \A i \in 1..(n - 1) : i >= k => i + 1 \in 1..n /\ t.list[i] = s.list[i + 1]
  <2>1. Len(t.list) = n - 1
    BY <1>3, <1>4, <1>6, <1>7, <1>8
  <2>2. ASSUME NEW i \in 1..(n - 1), i < k
        PROVE  i \in 1..n /\ t.list[i] = s.list[i]
    <3>1. i \in 1..n /\ i \in 1..(k - 1) /\ i \in 1..(Len(a) + Len(b)) /\ i <= Len(a)
      BY <1>3, <1>4, <1>6, <1>7, <2>2
    <3> QED
      BY <1>6, <1>8, <3>1
  <2>3. ASSUME NEW i \in 1..(n - 1), i >= k
        PROVE  i + 1 \in 1..n /\ t.list[i] = s.list[i + 1]
    <3>1. /\ i + 1 \in 1..n /\ i - Len(a) \in 1..(n - k) /\ i \in 1..(Len(a) + Len(b))
          /\ ~(i <= Len(a)) /\ k + (i - Len(a)) = i + 1
      BY <1>3, <1>4, <1>6, <1>7, <2>3
    <3> QED
      BY <1>7, <1>8, <3>1
  <2> QED
    BY <2>1, <2>2, <2>3
<1>10. \A i, j \in 1..(n - 1) : t.list[i] = t.list[j] => i = j
  <2> SUFFICES ASSUME NEW i \in 1..(n - 1), NEW j \in 1..(n - 1), t.list[i] = t.list[j]
               PROVE  i = j
    OBVIOUS
  <2> DEFINE At(x) == IF x < k THEN x ELSE x + 1
  <2>1. At(i) \in 1..n /\ At(j) \in 1..n /\ t.list[i] = s.list[At(i)]
        /\ t.list[j] = s.list[At(j)]
    BY <1>3, <1>4, <1>9
  <2>2. At(i) = At(j)
    <3> HIDE DEF At
    <3> QED
      BY <1>5, <2>1
  <2> QED
    BY <1>3, <1>4, <2>2
<1>11. t.open = {t.list[i] : i \in 1..(n - 1)}
  <2>1. ASSUME NEW x \in t.open
        PROVE  \E i \in 1..(n - 1) : x = t.list[i]
    <3>1. PICK i \in 1..n : x = s.list[i] /\ i # k
      BY <1>1, <1>4, <1>5, <2>1
    <3>2. CASE i < k
      <4>1. i \in 1..(n - 1)
        BY <1>3, <1>4, <3>2
      <4> QED
        BY <1>9, <3>1, <3>2, <4>1
    <3>3. CASE i > k
      <4>1. i - 1 \in 1..(n - 1) /\ i - 1 >= k /\ (i - 1) + 1 = i
        BY <1>3, <1>4, <3>3
      <4> QED
        BY <1>9, <3>1, <4>1
    <3> QED
      BY <1>3, <1>4, <3>1, <3>2, <3>3
  <2>2. ASSUME NEW i \in 1..(n - 1)
        PROVE  t.list[i] \in t.open
    <3>1. CASE i < k
      <4>1. i \in 1..n /\ t.list[i] = s.list[i] /\ i # k
        BY <1>3, <1>4, <1>9, <3>1
      <4> QED
        BY <1>1, <1>4, <1>5, <4>1
    <3>2. CASE i >= k
      <4>1. i + 1 \in 1..n /\ t.list[i] = s.list[i + 1] /\ i + 1 # k
        BY <1>3, <1>4, <1>9, <3>2
      <4> QED
        BY <1>1, <1>4, <1>5, <4>1
    <3> QED
      BY <1>3, <1>4, <3>1, <3>2
  <2> QED
    BY <2>1, <2>2
<1>12. t.watch = t.open \X {"r", "w"}
  BY <1>1 DEF Agree
<1>13. Agree(t)
  BY <1>8, <1>9, <1>10, <1>11, <1>12 DEF Agree
<1> QED
  BY <1>1, <1>13 DEF t

\* The sockets that are left after each of the first m closings.
ClosedTo(s, f, m) ==
  /\ f = [i \in 0..m |-> f[i]] /\ f[0] = s
  /\ \A i \in 1..m : f[i] = ares_socket_close(f[i - 1], s.list[i])

LEMMA ClosingsExist ==
  ASSUME NEW s, Len(s.list) \in Nat, NEW m \in 0..Len(s.list)
  PROVE  \E f : ClosedTo(s, f, m)
<1> DEFINE Missing == {i \in 0..Len(s.list) : ~ \E f : ClosedTo(s, f, i)}
<1> SUFFICES ASSUME Missing # {}
             PROVE  FALSE
  OBVIOUS
<1>1. Missing \in SUBSET Nat
  OBVIOUS
<1>2. PICK l \in Missing : \A j \in Missing : l <= j
  <2> HIDE DEF Missing
  <2> QED
    BY <1>1, LeastOf
<1>3. l \in 0..Len(s.list)
  OBVIOUS
<1>4. l # 0
  <2>1. ClosedTo(s, [i \in 0..0 |-> s], 0)
    BY DEF ClosedTo
  <2> QED
    BY <2>1
<1>5. l - 1 \in 0..Len(s.list) /\ l - 1 \notin Missing
  BY <1>2, <1>3, <1>4
<1>6. PICK f : ClosedTo(s, f, l - 1)
  BY <1>5
<1> DEFINE g == [i \in 0..l |-> IF i = l THEN ares_socket_close(f[l - 1], s.list[l])
                                 ELSE f[i]]
<1>7. ClosedTo(s, g, l)
  <2>1. l \in Nat \ {0}
    BY <1>3, <1>4
  <2>2. /\ g = [i \in 0..l |-> g[i]] /\ g[0] = f[0] /\ g[l - 1] = f[l - 1]
        /\ g[l] = ares_socket_close(f[l - 1], s.list[l])
    BY <2>1
  <2>3. \A i \in 1..(l - 1) : g[i] = f[i] /\ g[i - 1] = f[i - 1]
    BY <2>1
  <2> HIDE DEF g
  <2>4. \A i \in 1..l : i = l \/ i \in 1..(l - 1)
    BY <2>1
  <2> QED
    BY <1>6, <2>2, <2>3, <2>4 DEF ClosedTo
<1> QED
  BY <1>7

\* No socket is left when c-ares has closed all.
LEMMA AllClose ==
  ASSUME NEW s, Agree(s)
  PROVE  Agree(CloseAll(s)) /\ CloseAll(s).open = {}
<1> DEFINE n == Len(s.list)
           Closes(f) == f = [i \in 0..n |-> IF i = 0 THEN s
                                        ELSE ares_socket_close(f[i - 1], s.list[i])]
           t == CHOOSE f : Closes(f)
<1>1. s.list \in Seq(Fds) /\ n \in Nat
  BY DEF Agree
<1>2. PICK f : ClosedTo(s, f, n)
  <2>1. n \in 0..n
    BY <1>1
  <2> QED
    BY <1>1, <2>1, ClosingsExist
<1>3. Closes(f)
  <2>1. ASSUME NEW i \in 0..n
        PROVE  f[i] = IF i = 0 THEN s ELSE ares_socket_close(f[i - 1], s.list[i])
    <3>1. CASE i = 0
      BY <1>2, <3>1 DEF ClosedTo
    <3>2. CASE i # 0
      <4>1. i \in 1..n
        BY <1>1, <3>2
      <4> QED
        BY <1>2, <3>2, <4>1 DEF ClosedTo
    <3> QED
      BY <3>1, <3>2
  <2> QED
    BY <1>2, <2>1 DEF ClosedTo
<1>4. Closes(t)
  BY <1>3
<1>5. CloseAll(s) = t[n]
  BY DEF CloseAll
<1> HIDE DEF t
<1>6. t[0] = s /\ \A i \in 1..n : t[i] = ares_socket_close(t[i - 1], s.list[i])
  BY <1>1, <1>4
<1> DEFINE Right(i) == Agree(t[i]) /\ t[i].open = {s.list[j] : j \in (i + 1)..n}
           Wrong == {i \in 0..n : ~Right(i)}
<1>7. Wrong = {}
  <2> SUFFICES ASSUME Wrong # {}
               PROVE  FALSE
    OBVIOUS
  <2>1. Wrong \in SUBSET Nat
    OBVIOUS
  <2>2. PICK l \in Wrong : \A j \in Wrong : l <= j
    <3> HIDE DEF Wrong
    <3> QED
      BY <2>1, LeastOf
  <2>3. l \in 0..n /\ ~Right(l)
    OBVIOUS
  <2>4. l # 0
    <3>1. t[0].open = {s.list[j] : j \in (0 + 1)..n}
      BY <1>6 DEF Agree
    <3> QED
      BY <1>6, <2>3, <3>1
  <2>5. l - 1 \in 0..n /\ l \in 1..n
    BY <1>1, <2>3, <2>4
  <2>6. Right(l - 1)
    BY <1>1, <2>2, <2>5
  <2>7. t[l - 1].open = {s.list[j] : j \in l..n} /\ Agree(t[l - 1])
    <3>1. (l - 1) + 1 = l
      BY <2>5
    <3> QED
      BY <2>6, <3>1
  <2>8. s.list[l] \in t[l - 1].open
    <3>1. l \in l..n
      BY <1>1, <2>5
    <3> QED
      BY <2>7, <3>1
  <2>9. Agree(t[l]) /\ t[l].open = t[l - 1].open \ {s.list[l]}
    <3>1. t[l] = ares_socket_close(t[l - 1], s.list[l])
      BY <1>6, <2>5
    <3> QED
      BY <2>7, <2>8, <3>1, SocketCloses
  <2>10. /\ \A j \in l..n : j = l \/ j \in (l + 1)..n
         /\ \A j \in (l + 1)..n : j \in l..n /\ j # l /\ j \in 1..n
    BY <1>1, <2>5
  <2>11. \A j \in (l + 1)..n : s.list[j] # s.list[l]
    BY <2>5, <2>10 DEF Agree
  <2>12. t[l].open = {s.list[j] : j \in (l + 1)..n}
    BY <2>7, <2>9, <2>10, <2>11
  <2> QED
    BY <2>3, <2>9, <2>12
<1>8. Right(n)
  BY <1>1, <1>7
<1>9. {s.list[j] : j \in (n + 1)..n} = {}
  BY <1>1
<1> QED
  BY <1>5, <1>8, <1>9

\* The sockets become s.
LEMMA SocketsBecome ==
  ASSUME NEW s, Agree(s), Sockets(s)
  PROVE  Agree(SocketsNow)'
<1>1. /\ SocketsNow'.list = s.list /\ SocketsNow'.watch = s.watch
      /\ SocketsNow'.open = s.open
  BY DEF Sockets, SocketsNow
<1> QED
  BY <1>1 DEF Agree

\* c-ares leaves its sockets in agreement, whatever it does with them.
LEMMA SocketsAgreeAfter ==
  ASSUME Agree(SocketsNow), NEW q, NEW s \in SocketsAfter(q), Sockets(s)
  PROVE  Agree(SocketsNow)'
<1> DEFINE now == SocketsNow
<1>1. now.open = cfds /\ Agree(now)
  BY DEF SocketsNow
<1>2. \/ s = CloseAll(now)
      \/ s = now
      \/ \E fd \in Fds \ cfds : s = ares_socket_open(now, fd)
      \/ \E fd \in Fds \ cfds : \E e \in cfds :
           s = ares_socket_close(ares_socket_open(now, fd), e)
  BY DEF SocketsAfter
<1> HIDE DEF now
<1>3. Agree(s)
  <2>1. CASE s = CloseAll(now)
    BY <1>1, <2>1, AllClose
  <2>2. CASE s = now
    BY <1>1, <2>2
  <2>3. CASE \E fd \in Fds \ cfds : s = ares_socket_open(now, fd)
    BY <1>1, <2>3, SocketOpens
  <2>4. ASSUME NEW fd \in Fds \ cfds, NEW e \in cfds,
               s = ares_socket_close(ares_socket_open(now, fd), e)
        PROVE  Agree(s)
    <3> DEFINE o == ares_socket_open(now, fd)
    <3>1. Agree(o) /\ e \in o.open
      BY <1>1, SocketOpens
    <3> HIDE DEF o
    <3>2. Agree(ares_socket_close(o, e))
      BY <3>1, SocketCloses
    <3> QED
      BY <2>4, <3>2 DEF o
  <2> QED
    BY <1>2, <2>1, <2>2, <2>3, <2>4
<1> QED
  BY <1>3, SocketsBecome

\* What becomes of a request that has a result.
LEMMA ResultIs ==
  ASSUME NEW q, Asked(q), q.st = "pending", NEW now \in BOOLEAN
  PROVE  /\ ~now => Asked(Result(q, now)) /\ Result(q, now).st = "done"
         /\ Asked(Returned(Result(q, now)))
         /\ Returned(q) = q
<1> DEFINE left == now /\ q.mode = "co"
           n == IF left THEN q.results ELSE q.results + 1
           t == [q EXCEPT !.st = "done", !.ref = FALSE, !.mem = left, !.finished = left,
                          !.results = n]
           u == [t EXCEPT !.finished = FALSE, !.mem = FALSE, !.results = t.results + 1]
<1>1. q \in ReqRec /\ q.results = 0 /\ ~q.finished
  BY DEF Asked
<1>2. Returned(q) = q
  BY <1>1 DEF Returned
<1>3. Result(q, now) = t
  BY DEF Result
<1>4. left \in BOOLEAN /\ q.mode \in {"fn", "co"}
  BY <1>1 DEF ReqRec
<1> HIDE DEF left
<1>5. /\ t \in ReqRec /\ t.st = "done" /\ ~t.ref /\ t.mem = left /\ t.finished = left
      /\ t.results = (IF left THEN 0 ELSE 1) /\ t.mode = q.mode
  <2>1. n \in Nat /\ n = IF left THEN 0 ELSE 1
    BY <1>1
  <2> HIDE DEF n
  <2>2. t \in ReqRec
    BY <1>1, <1>4, <2>1 DEF ReqRec
  <2>3. q \in [st : {"none", "pending", "done"}, mode : {"fn", "co"}, tries : Nat,
               ref : BOOLEAN, mem : BOOLEAN, finished : BOOLEAN, results : Nat]
    BY <1>1 DEF ReqRec
  <2>4. /\ t.st = "done" /\ t.ref = FALSE /\ t.mem = left /\ t.finished = left
        /\ t.results = n /\ t.mode = q.mode
    BY <2>3
  <2> QED
    BY <2>1, <2>2, <2>4
<1>6. Returned(t) = IF t.finished /\ t.mode = "co" THEN u ELSE t
  BY DEF Returned
<1> HIDE DEF t
<1>7. /\ u \in ReqRec /\ u.st = "done" /\ ~u.ref /\ ~u.mem /\ ~u.finished
      /\ u.results = t.results + 1
  <2>1. t \in [st : {"none", "pending", "done"}, mode : {"fn", "co"}, tries : Nat,
               ref : BOOLEAN, mem : BOOLEAN, finished : BOOLEAN, results : Nat]
    BY <1>5 DEF ReqRec
  <2>2. t.results + 1 \in Nat
    BY <2>1
  <2>3. u \in ReqRec
    BY <2>1, <2>2 DEF ReqRec
  <2>4. /\ u.st = t.st /\ u.ref = t.ref /\ u.mem = FALSE /\ u.finished = FALSE
        /\ u.results = t.results + 1
    BY <2>1
  <2> QED
    BY <1>5, <2>3, <2>4
<1> HIDE DEF u
<1>8. ~left => Asked(t)
  BY <1>5 DEF Asked
<1>9. left => Asked(u) /\ t.mode = "co"
  BY <1>5, <1>7 DEF Asked, left
<1>10. Asked(Returned(t))
  BY <1>5, <1>6, <1>8, <1>9
<1>11. ~now => ~left
  BY DEF left
<1> QED
  BY <1>2, <1>3, <1>5, <1>8, <1>10, <1>11

\* At the start there is neither a request nor a socket.
LEMMA ResolverStarts ==
  ASSUME ResolverInit
  PROVE  ResolverInv
<1>1. rsocks = <<>> /\ rwatch = {} /\ cfds = {} /\ rrun = "off"
      /\ req = [r \in Requests |-> NoRequest]
  BY DEF ResolverInit
<1>2. Agree(SocketsNow)
  <2>1. <<>> \in Seq(Fds) /\ Len(<<>>) = 0 /\ 1..0 = {}
    OBVIOUS
  <2>2. SocketsNow.list = <<>> /\ SocketsNow.watch = {} /\ SocketsNow.open = {}
    BY <1>1 DEF SocketsNow
  <2> QED
    BY <2>1, <2>2 DEF Agree
<1>3. NoRequest \in ReqRec /\ NoRequest.st = "none"
  BY DEF NoRequest, ReqRec
<1>4. Asked(NoRequest)
  BY <1>3 DEF Asked
<1> QED
  BY <1>1, <1>2, <1>3, <1>4 DEF ResolverInv

\* One request changes, and the sockets with it, while the resolver runs.
LEMMA RequestChanges ==
  ASSUME ResolverInv, rrun = "on", rrun' = "on", NEW r \in Requests, NEW q, Asked(q),
         req' = [req EXCEPT ![r] = q],
         \/ UNCHANGED <<rsocks, rwatch, cfds>>
         \/ \E p : \E s \in SocketsAfter(p) : Sockets(s)
  PROVE  ResolverInv'
<1>1. req' \in [Requests -> ReqRec] /\ \A x \in Requests : Asked(req'[x])
  BY DEF ResolverInv, Asked
<1>2. Agree(SocketsNow)'
  <2>1. CASE UNCHANGED <<rsocks, rwatch, cfds>>
    <3>1. SocketsNow' = SocketsNow
      BY <2>1 DEF SocketsNow
    <3> QED
      BY <3>1 DEF ResolverInv, Agree
  <2>2. CASE \E p : \E s \in SocketsAfter(p) : Sockets(s)
    BY <2>2, SocketsAgreeAfter DEF ResolverInv
  <2> QED
    BY <2>1, <2>2
<1> QED
  BY <1>1, <1>2 DEF ResolverInv

\* Every step of the resolver keeps the invariant.
LEMMA ResolverGoes ==
  ASSUME ResolverInv, [ResolverNext]_resolverVars
  PROVE  ResolverInv'
<1>1. CASE UNCHANGED resolverVars
  <2>1. UNCHANGED <<rrun, req>> /\ SocketsNow' = SocketsNow
    BY <1>1 DEF resolverVars, SocketsNow
  <2> QED
    BY <2>1 DEF ResolverInv, Agree, Pending
<1>2. CASE ResolverStart
  <2>1. rrun' # "stopped" /\ req' = req /\ SocketsNow' = SocketsNow
    BY <1>2 DEF ResolverStart, SocketsNow
  <2> QED
    BY <2>1 DEF ResolverInv, Agree
<1>3. CASE ResolverStop
  <2>1. CASE rproc = "worker" /\ Pending(req) # {}
    <3>1. rrun' = "crashed" /\ req' = req /\ SocketsNow' = SocketsNow
      BY <1>3, <2>1 DEF ResolverStop, SocketsNow
    <3> QED
      BY <3>1 DEF ResolverInv, Agree
  <2>2. CASE ~(rproc = "worker" /\ Pending(req) # {})
    <3>1. /\ rrun' = "stopped" /\ Sockets(CloseAll(SocketsNow))
          /\ req' = [r \in Requests |-> IF r \in Pending(req)
                                         THEN Result(req[r], FALSE) ELSE req[r]]
      BY <1>3, <2>2 DEF ResolverStop
    <3>2. Agree(SocketsNow)'
      BY <3>1, AllClose, SocketsBecome DEF ResolverInv
    <3>3. ASSUME NEW r \in Requests
          PROVE  Asked(req'[r]) /\ req'[r].st # "pending"
      <4>1. CASE r \in Pending(req)
        <5>1. Asked(req[r]) /\ req[r].st = "pending"
          BY <4>1 DEF ResolverInv, Pending
        <5>2. Asked(Result(req[r], FALSE)) /\ Result(req[r], FALSE).st = "done"
          BY <5>1, ResultIs
        <5> QED
          BY <3>1, <4>1, <5>2
      <4>2. CASE r \notin Pending(req)
        <5>1. req'[r] = req[r] /\ Asked(req[r])
          BY <3>1, <4>2 DEF ResolverInv
        <5> QED
          BY <4>2, <5>1 DEF Pending
      <4> QED
        BY <4>1, <4>2
    <3>4. req' \in [Requests -> ReqRec]
      <4>1. DOMAIN req' = Requests /\ \A r \in Requests : req'[r] \in ReqRec
        BY <3>1, <3>3 DEF Asked
      <4> QED
        BY <3>1, <4>1
    <3>5. Pending(req)' = {}
      BY <3>3 DEF Pending
    <3> QED
      BY <3>2, <3>3, <3>4, <3>5 DEF ResolverInv
  <2> QED
    BY <2>1, <2>2
<1>4. CASE ResolverAnswer
  <2>1. PICK r \in Pending(req) : /\ req' = [req EXCEPT ![r] = Result(req[r], FALSE)]
                                  /\ \E s \in SocketsAfter(req') : Sockets(s)
    BY <1>4 DEF ResolverAnswer
  <2>2. rrun = "on" /\ rrun' = "on"
    BY <1>4 DEF ResolverAnswer
  <2>3. r \in Requests /\ Asked(req[r]) /\ req[r].st = "pending"
    BY DEF ResolverInv, Pending
  <2>4. Asked(Result(req[r], FALSE))
    BY <2>3, ResultIs
  <2> QED
    BY <2>1, <2>2, <2>3, <2>4, RequestChanges
<1>5. CASE ResolverTimeout
  <2>1. PICK r \in Pending(req) : /\ req' = [req EXCEPT ![r] = Unanswered(req[r])]
                                  /\ \E s \in SocketsAfter(req') : Sockets(s)
    BY <1>5 DEF ResolverTimeout
  <2>2. rrun = "on" /\ rrun' = "on"
    BY <1>5 DEF ResolverTimeout
  <2>3. r \in Requests /\ Asked(req[r]) /\ req[r].st = "pending"
    BY DEF ResolverInv, Pending
  <2>4. Asked(Unanswered(req[r]))
    <3> DEFINE q == req[r]
               t == [q EXCEPT !.tries = q.tries - 1]
    <3>1. Asked(q) /\ q.st = "pending"
      BY <2>3
    <3> HIDE DEF q
    <3>2. CASE q.tries > 0
      <4>1. q \in ReqRec /\ q.tries - 1 \in Nat
        BY <3>1, <3>2 DEF Asked, ReqRec
      <4>2. /\ t \in ReqRec /\ t.st = q.st /\ t.results = q.results
            /\ t.finished = q.finished
        BY <4>1 DEF ReqRec
      <4>3. Asked(t)
        <5> HIDE DEF t
        <5> QED
          BY <3>1, <4>2 DEF Asked
      <4>4. Unanswered(q) = t
        BY <3>2 DEF Unanswered
      <4> QED
        BY <4>3, <4>4 DEF q
    <3>3. CASE ~(q.tries > 0)
      <4>1. Asked(Result(q, FALSE)) /\ Unanswered(q) = Result(q, FALSE)
        BY <3>1, <3>3, ResultIs DEF Unanswered
      <4> QED
        BY <4>1 DEF q
    <3> QED
      BY <3>2, <3>3
  <2> QED
    BY <2>1, <2>2, <2>3, <2>4, RequestChanges
<1>6. ASSUME NEW r \in Requests, Resolve(r)
      PROVE  ResolverInv'
  <2>1. rrun = "on" /\ rrun' = "on"
    BY <1>6 DEF Resolve
  <2>2. PICK mode \in {"fn", "co"} :
          LET q == [NoRequest EXCEPT !.st = "pending", !.mode = mode,
                      !.tries = MaxTries, !.ref = TRUE, !.mem = TRUE]
              sent == [req EXCEPT ![r] = Returned(q)]
          IN  \/ /\ req' = [req EXCEPT ![r] = Returned(Result(q, TRUE))]
                 /\ UNCHANGED <<rsocks, rwatch, cfds>>
              \/ /\ req' = sent
                 /\ \E s \in SocketsAfter(sent) : s.open # {} /\ Sockets(s)
    BY <1>6 DEF Resolve
  <2> DEFINE q == [NoRequest EXCEPT !.st = "pending", !.mode = mode,
                     !.tries = MaxTries, !.ref = TRUE, !.mem = TRUE]
  <2>3. q \in ReqRec /\ q.st = "pending" /\ q.results = 0 /\ ~q.finished
    BY ResolverAssumption DEF NoRequest, ReqRec
  <2>4. \/ /\ req' = [req EXCEPT ![r] = Returned(Result(q, TRUE))]
           /\ UNCHANGED <<rsocks, rwatch, cfds>>
        \/ /\ req' = [req EXCEPT ![r] = Returned(q)]
           /\ \E p : \E s \in SocketsAfter(p) : Sockets(s)
    BY <2>2
  <2> HIDE DEF q
  <2>5. Asked(q)
    BY <2>3 DEF Asked
  <2>6. Asked(Returned(Result(q, TRUE))) /\ Asked(Returned(q))
    BY <2>3, <2>5, ResultIs
  <2>7. CASE /\ req' = [req EXCEPT ![r] = Returned(Result(q, TRUE))]
             /\ UNCHANGED <<rsocks, rwatch, cfds>>
    BY <2>1, <2>6, <2>7, RequestChanges
  <2>8. CASE /\ req' = [req EXCEPT ![r] = Returned(q)]
             /\ \E p : \E s \in SocketsAfter(p) : Sockets(s)
    BY <2>1, <2>6, <2>8, RequestChanges
  <2> QED
    BY <2>4, <2>7, <2>8
<1> QED
  BY <1>1, <1>2, <1>3, <1>4, <1>5, <1>6 DEF ResolverNext

\* Sockets that agree are counted by their list.
LEMMA ResolverMeans ==
  ASSUME ResolverInv
  PROVE  ResolverSound
<1>1. ResolverAnswersOnce
  <2> SUFFICES ASSUME NEW r \in Requests
               PROVE  /\ req[r].st = "pending" => req[r].results = 0 /\ rrun # "stopped"
                      /\ req[r].st = "done" => /\ req[r].results = 1
                                               /\ ~req[r].mem /\ ~req[r].ref
    BY DEF ResolverAnswersOnce
  <2> QED
    BY DEF ResolverInv, Asked, Pending
<1>2. /\ rsocks \in Seq(Fds) /\ Len(rsocks) \in Nat /\ DOMAIN rsocks = 1..Len(rsocks)
      /\ \A i, j \in 1..Len(rsocks) : rsocks[i] = rsocks[j] => i = j
      /\ cfds = {rsocks[i] : i \in 1..Len(rsocks)}
      /\ rwatch = cfds \X {"r", "w"}
  BY DEF ResolverInv, Agree, SocketsNow
<1>3. ToSet(rsocks) = cfds
  BY <1>2 DEF ToSet
<1>4. Len(rsocks) = Cardinality(cfds)
  <2>1. rsocks \in Bijection(1..Len(rsocks), cfds)
    <3>1. rsocks \in [1..Len(rsocks) -> cfds]
      BY <1>2
    <3> QED
      BY <1>2, <3>1 DEF Bijection, Injection, Surjection, IsInjective
  <2> QED
    BY <1>2, <2>1, FS_CountingElements DEF ExistsBijection
<1>5. {w[1] : w \in rwatch} = cfds
  <2>1. \A x \in cfds : <<x, "r">> \in rwatch /\ <<x, "r">>[1] = x
    BY <1>2
  <2>2. \A w \in rwatch : w[1] \in cfds
    BY <1>2
  <2> QED
    BY <2>1, <2>2
<1> QED
  BY <1>1, <1>3, <1>4, <1>5 DEF ResolverSound, ResolverSocketsAgree

\* A request made to the resolver (resolver.c, core_lua_api.c) is answered at
\* most once, keeps neither memory nor a reference once it is, and none is
\* pending when the resolver has stopped; its list of sockets, its watchers and
\* the sockets of c-ares are always the same: for any number of requests, tries
\* and sockets.
THEOREM ResolverStaysSound == ResolverSpec => []ResolverSound
<1>1. ResolverInit => ResolverInv
  BY ResolverStarts
<1>2. ResolverInv /\ [ResolverNext]_resolverVars => ResolverInv'
  BY ResolverGoes
<1>3. ResolverInv => ResolverSound
  BY ResolverMeans
<1> QED
  BY <1>1, <1>2, <1>3, PTL DEF ResolverSpec
=============================================================================
