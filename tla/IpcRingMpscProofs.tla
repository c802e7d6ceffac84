------------------------- MODULE IpcRingMpscProofs --------------------------
(***************************************************************************)
(* Proofs about a ring with any number of writers whose clients keep at    *)
(* most Window messages unread each, and whose windows fit in the ring: it *)
(* is never marked full, the handler is given whole messages, and the ring *)
(* with its output buffers implements the abstract channel.                *)
(*                                                                         *)
(* The order in which several writers reserve their indices is not in the  *)
(* state.  The invariant says that there is one: a function g that gives   *)
(* for every index the message it was reserved for.                        *)
(***************************************************************************)
EXTENDS IpcRingProofs, FiniteSetTheorems

\* A writer between reserving an index and storing its code.
Filling == {"load", "full2", "ptr", "code"}

\* The first index whose message has not been handled.
Done == IF rpc = "handle" THEN next_read - 1 ELSE next_read

\* How many messages of each writer an index has been reserved for.
Reserved == [w \in Writers |->
  IF pc[w] = "idle" THEN submitted[w] - Len(outbuf[w])
  ELSE IF pc[w] \in {"full1", "inc"} THEN wmsg[w][2] - 1
  ELSE wmsg[w][2]]

\* Nobody has marked the ring full, so the reader never resets it.
NotFull ==
  /\ ~full
  /\ rpc \notin {"reset", "assert1", "assert2", "clearfull", "aborted"}
  /\ \A w \in Writers : pc[w] # "setfull"

Windowed(w) == submitted[w] <= received[w] + Window

\* The output buffer ends with the last submitted message, and the message
\* ipc_send_direct is given is its first one or, directly, the last one.
QueueInv(w) ==
  /\ Len(outbuf[w]) <= submitted[w]
  /\ Continues(w, submitted[w] - Len(outbuf[w]), outbuf[w])
  /\ pc[w] # "idle" /\ ~retrying[w] => /\ outbuf[w] = <<>>
                                       /\ wmsg[w] = <<w, submitted[w]>>
  /\ pc[w] # "idle" /\ retrying[w] => /\ outbuf[w] # <<>>
                                      /\ wmsg[w] = outbuf[w][1]

\* The indices d to n - 1 are reserved, each for one message that has not
\* been handled, all of them, and those of one writer in order.
LogInv(g, d, n, rec, res) ==
  /\ d <= n
  /\ \A w \in Writers : rec[w] <= res[w]
  /\ \A i \in d..(n - 1) : /\ g[i] \in Msgs
                           /\ rec[g[i][1]] < g[i][2]
                           /\ g[i][2] <= res[g[i][1]]
  /\ \A i, j \in d..(n - 1) :
       i < j /\ g[i][1] = g[j][1] => g[i][2] < g[j][2]
  /\ \A w \in Writers : \A k \in (rec[w] + 1)..res[w] :
       \E i \in d..(n - 1) : g[i] = <<w, k>>

\* Slots f to n - 1 hold the message they were reserved for, or nothing yet,
\* and the pointer belongs to the code; the other slots are empty.
HoldsInv(g, f, n, c, p) ==
  /\ f <= n
  /\ \A i \in f..(n - 1) : /\ c[Slot(i)] = NIL \/ c[Slot(i)] = g[i]
                           /\ c[Slot(i)] # NIL => p[Slot(i)] = g[i]
  /\ \A i \in n..(f + RingSize - 1) : c[Slot(i)] = NIL

\* The slot a writer has reserved is its own and still empty, and the ring
\* had room for it when next_read was loaded.
FillInv(g, w) ==
  /\ pc[w] \in Filling => /\ FirstUnread <= windex[w]
                          /\ windex[w] < next_write_reserve
                          /\ g[windex[w]] = wmsg[w]
                          /\ code[Slot(windex[w])] = NIL
  /\ pc[w] = "code" => ptr[Slot(windex[w])] = wmsg[w]
  /\ pc[w] = "full2" => windex[w] - wread[w] <= RingSize - 1

\* What the reading thread holds is what its index was reserved for.
HandInv(g) ==
  /\ rpc \in {"check", "readcode", "readptr", "clear", "handle"} =>
       read_index = next_read
  /\ rpc = "advance" => read_index = next_read + 1
  /\ (rpc = "readptr" /\ rcode # NIL) \/ rpc = "clear" =>
       /\ next_read < next_write_reserve
       /\ rcode = g[next_read] /\ code[Slot(next_read)] = rcode
       /\ rcode # NIL
  /\ rpc = "advance" => next_read < next_write_reserve /\ rcode = g[next_read]
  /\ rpc \in {"clear", "advance", "handle"} => rptr = rcode
  /\ rpc = "handle" => /\ 0 < next_read /\ next_read <= next_write_reserve
                       /\ rcode = g[next_read - 1]

OrderInv(g) ==
  /\ LogInv(g, Done, next_write_reserve, received, Reserved)
  /\ HoldsInv(g, FirstUnread, next_write_reserve, code, ptr)
  /\ \A w \in Writers : FillInv(g, w)
  /\ HandInv(g)

Logs == [Nat -> Msgs \cup {NIL}]

\* The inductive invariant of a ring whose writers keep to their windows.
MultiInv == /\ StoredInv
            /\ NotFull
            /\ \A w \in Writers : Windowed(w) /\ QueueInv(w)
            /\ \E g \in Logs : OrderInv(g)

-----------------------------------------------------------------------------
(******************* the order in which indices are reserved ***************)

(* A message is its writer and its number. *)
LEMMA MsgParts ==
  ASSUME NEW m \in Msgs
  PROVE  m = <<m[1], m[2]>> /\ m[1] \in Writers /\ m[2] \in Nat /\ m[2] > 0
  BY RingAssumption DEF Msgs

(* The unhandled messages of all writers fit in their windows, and the     *)
(* windows in the ring: no more than RingSize indices are in use.          *)
LEMMA LogRoom ==
  ASSUME IsFiniteSet(Writers), Cardinality(Writers) * Window <= RingSize,
         NEW g, NEW d \in Nat, NEW n \in Nat,
         NEW rec \in [Writers -> Nat], NEW res \in [Writers -> Nat],
         LogInv(g, d, n, rec, res),
         \A w \in Writers : res[w] <= rec[w] + Window
  PROVE  n <= d + RingSize
  <1> DEFINE I == d..(n - 1)
             T == Writers \X (1..Window)
             f == [i \in I |-> <<g[i][1], g[i][2] - rec[g[i][1]]>>]
  <1>1. ASSUME NEW i \in I
        PROVE  /\ g[i] \in Msgs /\ g[i][1] \in Writers /\ g[i][2] \in Nat
               /\ rec[g[i][1]] \in Nat
               /\ g[i][2] - rec[g[i][1]] \in 1..Window
    <2>1. g[i] \in Msgs /\ rec[g[i][1]] < g[i][2] /\ g[i][2] <= res[g[i][1]]
      BY DEF LogInv
    <2>2. g[i][1] \in Writers /\ g[i][2] \in Nat
      BY <2>1, MsgParts
    <2>3. /\ rec[g[i][1]] \in Nat /\ res[g[i][1]] \in Nat
          /\ res[g[i][1]] <= rec[g[i][1]] + Window
      BY <2>2
    <2> QED
      BY <2>1, <2>2, <2>3, RingAssumption
  <1>2. f \in [I -> T]
    BY <1>1
  <1>3. ASSUME NEW i \in I, NEW j \in I, f[i] = f[j], i < j PROVE FALSE
    <2>1. g[i][1] = g[j][1]
      BY <1>3
    <2>2. g[i][2] - rec[g[i][1]] = g[j][2] - rec[g[j][1]]
      BY <1>3
    <2>3. g[i][2] = g[j][2]
      BY <2>1, <2>2, <1>1
    <2>4. g[i][2] < g[j][2]
      BY <1>3, <2>1 DEF LogInv
    <2> QED
      BY <2>3, <2>4, <1>1
  <1>4. ASSUME NEW i \in I, NEW j \in I, f[i] = f[j] PROVE i = j
    <2>1. i \in Int /\ j \in Int
      OBVIOUS
    <2> HIDE DEF f, I
    <2>2. ~(i < j)
      BY <1>4, <1>3
    <2>3. ~(j < i)
      BY <1>4, <1>3
    <2> QED
      BY <2>1, <2>2, <2>3
  <1>5. f \in Injection(I, T)
    <2> HIDE DEF f, I, T
    <2> QED
      BY <1>2, <1>4 DEF Injection, IsInjective
  <1>6. IsFiniteSet(1..Window) /\ Cardinality(1..Window) = Window
    BY FS_Interval, RingAssumption
  <1>7. IsFiniteSet(T) /\ Cardinality(T) = Cardinality(Writers) * Window
    BY <1>6, FS_Product
  <1>8. Cardinality(I) <= Cardinality(T)
    <2> HIDE DEF f, I, T
    <2> QED
      BY <1>5, <1>7, FS_Injection
  <1>9. Cardinality(I) = n - d
    <2>1. d <= n /\ d \in Int /\ n - 1 \in Int
      BY DEF LogInv
    <2> QED
      BY <2>1, FS_Interval
  <1>10. Cardinality(Writers) \in Nat
    BY FS_CardinalityType
  <1>11. n - d <= Cardinality(Writers) * Window
    <2> HIDE DEF I, T
    <2> QED
      BY <1>7, <1>8, <1>9
  <1> DEFINE cw == Cardinality(Writers) * Window
  <1>12. cw \in Int /\ cw <= RingSize /\ n - d <= cw
    BY <1>10, <1>11, RingAssumption
  <1> HIDE DEF cw
  <1> QED
    BY <1>12, RingAssumption

(* next_write_reserve++ gives the next index to the next message of w. *)
LEMMA LogReserve ==
  ASSUME NEW g \in Logs, NEW d \in Nat, NEW n \in Nat,
         NEW rec \in [Writers -> Nat], NEW res \in [Writers -> Nat],
         LogInv(g, d, n, rec, res), NEW m \in Msgs, NEW w \in Writers,
         m = <<w, res[w] + 1>>
  PROVE  LogInv([g EXCEPT ![n] = m], d, n + 1, rec,
                [res EXCEPT ![w] = res[w] + 1])
  <1> DEFINE h == [g EXCEPT ![n] = m]
             r == [res EXCEPT ![w] = res[w] + 1]
  <1>1. h[n] = m /\ \A i \in d..(n - 1) : h[i] = g[i]
    BY DEF Logs
  <1>2. /\ r \in [Writers -> Nat] /\ r[w] = res[w] + 1
        /\ \A v \in Writers : v # w => r[v] = res[v]
    OBVIOUS
  <1>3. m[1] = w /\ m[2] = res[w] + 1
    OBVIOUS
  <1>4. \A i \in d..n : i \in d..(n - 1) \/ i = n
    OBVIOUS
  <1>5. n + 1 - 1 = n /\ d <= n /\ n \in d..n /\ d..(n - 1) \subseteq d..n
    BY DEF LogInv
  <1>6. \A v \in Writers : rec[v] \in Nat /\ res[v] \in Nat /\ rec[v] <= res[v]
    BY DEF LogInv
  <1> HIDE DEF h, r
  <1>7. \A v \in Writers : rec[v] <= r[v] /\ res[v] <= r[v]
    BY <1>2, <1>6
  <1>8. ASSUME NEW i \in d..n
        PROVE  h[i] \in Msgs /\ rec[h[i][1]] < h[i][2] /\ h[i][2] <= r[h[i][1]]
    <2>1. CASE i \in d..(n - 1)
      <3>1. /\ h[i] = g[i] /\ g[i] \in Msgs /\ rec[g[i][1]] < g[i][2]
            /\ g[i][2] <= res[g[i][1]]
        BY <2>1, <1>1 DEF LogInv
      <3>2. g[i][1] \in Writers /\ g[i][2] \in Nat
        BY <3>1, MsgParts
      <3> QED
        BY <3>1, <3>2, <1>2, <1>6, <1>7
    <2>2. CASE i = n
      BY <2>2, <1>1, <1>2, <1>3, <1>6
    <2> QED
      BY <2>1, <2>2, <1>4
  <1>9. ASSUME NEW i \in d..n, NEW j \in d..n, i < j, h[i][1] = h[j][1]
        PROVE  h[i][2] < h[j][2]
    <2>1. i \in d..(n - 1)
      BY <1>9
    <2>2. CASE j = n
      <3>1. h[i][1] = w /\ h[j][2] = res[w] + 1
        BY <2>2, <1>9, <1>1, <1>3
      <3>2. h[i] = g[i] /\ g[i][2] <= res[g[i][1]] /\ g[i] \in Msgs
        BY <2>1, <1>1 DEF LogInv
      <3>3. g[i][2] \in Nat
        BY <3>2, MsgParts
      <3> QED
        BY <3>1, <3>2, <3>3, <1>6
    <2>3. CASE j \in d..(n - 1)
      BY <2>1, <2>3, <1>9, <1>1 DEF LogInv
    <2> QED
      BY <2>2, <2>3, <1>4
  <1>10. ASSUME NEW v \in Writers, NEW k \in (rec[v] + 1)..r[v]
         PROVE  \E i \in d..n : h[i] = <<v, k>>
    <2>1. CASE v = w /\ k = res[w] + 1
      BY <2>1, <1>1, <1>5
    <2>2. CASE ~(v = w /\ k = res[w] + 1)
      <3>1. k \in (rec[v] + 1)..res[v]
        BY <2>2, <1>2, <1>6
      <3>2. PICK i \in d..(n - 1) : g[i] = <<v, k>>
        BY <3>1 DEF LogInv
      <3> QED
        BY <3>2, <1>1, <1>5
    <2> QED
      BY <2>1, <2>2
  <1>11. LogInv(h, d, n + 1, rec, r)
    <2> DEFINE q == n + 1
    <2>1. d..(q - 1) = d..n /\ d <= q
      BY <1>5
    <2> HIDE DEF q
    <2>2. LogInv(h, d, q, rec, r)
      BY <2>1, <1>7, <1>8, <1>9, <1>10 DEF LogInv
    <2> QED
      BY <2>2 DEF q
  <1> QED
    BY <1>11 DEF h, r

(* The first unhandled message is its writer's next one, and handling it   *)
(* leaves the others in order.                                             *)
LEMMA LogHandle ==
  ASSUME NEW g \in Logs, NEW d \in Nat, NEW n \in Nat,
         NEW rec \in [Writers -> Nat], NEW res \in [Writers -> Nat],
         LogInv(g, d, n, rec, res), d < n
  PROVE  /\ g[d] \in Msgs
         /\ g[d][2] = rec[g[d][1]] + 1
         /\ g[d][2] <= res[g[d][1]]
         /\ LogInv(g, d + 1, n, [rec EXCEPT ![g[d][1]] = g[d][2]], res)
  <1> DEFINE w == g[d][1]
             k == g[d][2]
             r == [rec EXCEPT ![w] = k]
  <1>a. d \in d..(n - 1)
    OBVIOUS
  <1>1. g[d] \in Msgs /\ rec[w] < k /\ k <= res[w]
    BY <1>a DEF LogInv
  <1>2. w \in Writers /\ k \in Nat /\ g[d] = <<w, k>>
    BY <1>1, MsgParts
  <1>3. \A v \in Writers : rec[v] \in Nat /\ res[v] \in Nat /\ rec[v] <= res[v]
    BY DEF LogInv
  <1>4. r[w] = k /\ \A v \in Writers : v # w => r[v] = rec[v]
    BY <1>2
  <1>b. \A i \in (d + 1)..(n - 1) : i \in d..(n - 1) /\ d < i
    OBVIOUS
  <1>c. \A i \in d..(n - 1) : i = d \/ i \in (d + 1)..(n - 1)
    OBVIOUS
  <1> HIDE DEF w, k, r
  <1>5. k = rec[w] + 1
    <2> SUFFICES ASSUME k # rec[w] + 1 PROVE FALSE
      OBVIOUS
    <2>1. rec[w] + 1 \in (rec[w] + 1)..res[w] /\ rec[w] + 1 < k
      BY <1>1, <1>2, <1>3
    <2>2. PICK i \in d..(n - 1) : g[i] = <<w, rec[w] + 1>>
      BY <2>1, <1>2 DEF LogInv
    <2>3. i # d
      BY <2>1, <2>2, <1>2
    <2>4. d < i
      BY <2>3
    <2>5. g[d][1] = w /\ g[d][2] = k /\ g[i][1] = w /\ g[i][2] = rec[w] + 1
      BY <2>2, <1>2
    <2>6. g[d][2] < g[i][2]
      BY <2>4, <2>5, <1>a DEF LogInv
    <2> QED
      BY <2>1, <2>5, <2>6, <1>2, <1>3
  <1>6. \A v \in Writers : r[v] <= res[v]
    BY <1>1, <1>3, <1>4
  <1>7. ASSUME NEW i \in (d + 1)..(n - 1)
        PROVE  g[i] \in Msgs /\ r[g[i][1]] < g[i][2] /\ g[i][2] <= res[g[i][1]]
    <2>1. /\ g[i] \in Msgs /\ rec[g[i][1]] < g[i][2]
          /\ g[i][2] <= res[g[i][1]]
      BY <1>b DEF LogInv
    <2>2. g[i][1] \in Writers
      BY <2>1, MsgParts
    <2>3. CASE g[i][1] = w
      <3>1. g[d][2] < g[i][2]
        BY <2>3, <1>a, <1>b DEF LogInv, w
      <3> QED
        BY <2>1, <2>3, <3>1, <1>4 DEF k
    <2>4. CASE g[i][1] # w
      BY <2>1, <2>2, <2>4, <1>4
    <2> QED
      BY <2>3, <2>4
  <1>8. ASSUME NEW v \in Writers, NEW l \in (r[v] + 1)..res[v]
        PROVE  \E i \in (d + 1)..(n - 1) : g[i] = <<v, l>>
    <2>1. l \in (rec[v] + 1)..res[v] /\ (v = w => l # k)
      BY <1>1, <1>2, <1>3, <1>4, <1>5
    <2>2. PICK i \in d..(n - 1) : g[i] = <<v, l>>
      BY <2>1 DEF LogInv
    <2>3. i # d
      BY <2>1, <2>2, <1>2
    <2> QED
      BY <2>2, <2>3, <1>c
  <1>9. \A i, j \in (d + 1)..(n - 1) :
          i < j /\ g[i][1] = g[j][1] => g[i][2] < g[j][2]
    BY <1>b DEF LogInv
  <1>10. LogInv(g, d + 1, n, r, res)
    <2>1. d + 1 <= n
      OBVIOUS
    <2> QED
      BY <2>1, <1>6, <1>7, <1>8, <1>9 DEF LogInv
  <1> QED
    BY <1>1, <1>5, <1>10 DEF w, k, r

-----------------------------------------------------------------------------
(************************** the slots of the ring **************************)

Contents == [Slots -> Msgs \cup {NIL}]

(* Two indices in use at the same time are different slots. *)
LEMMA SlotsApart ==
  ASSUME NEW f \in Nat, NEW i \in f..(f + RingSize - 1),
         NEW j \in f..(f + RingSize - 1), i # j
  PROVE  Slot(i) # Slot(j)
  <1>1. i \in Nat /\ j \in Nat
    OBVIOUS
  <1>2. CASE i < j
    <2>1. j < i + RingSize
      BY <1>1, RingAssumption
    <2> QED
      BY <1>1, <1>2, <2>1, SlotInjective
  <1>3. CASE j < i
    <2>1. i < j + RingSize
      BY <1>1, RingAssumption
    <2> QED
      BY <1>1, <1>3, <2>1, SlotInjective
  <1> QED
    BY <1>1, <1>2, <1>3

(* An index that is reserved while there is room has an empty slot. *)
LEMMA HoldsReserve ==
  ASSUME NEW g \in Logs, NEW f \in Nat, NEW n \in Nat, NEW c, NEW p,
         HoldsInv(g, f, n, c, p), n < f + RingSize, NEW m \in Msgs
  PROVE  /\ HoldsInv([g EXCEPT ![n] = m], f, n + 1, c, p)
         /\ c[Slot(n)] = NIL
  <1> DEFINE h == [g EXCEPT ![n] = m]
             q == n + 1
  <1>1. \A i \in f..(n - 1) : h[i] = g[i]
    BY DEF Logs
  <1>2. c[Slot(n)] = NIL
    <2>1. n \in n..(f + RingSize - 1)
      BY RingAssumption
    <2> QED
      BY <2>1 DEF HoldsInv
  <1>3. \A i \in f..(q - 1) : i \in f..(n - 1) \/ i = n
    OBVIOUS
  <1>4. \A i \in q..(f + RingSize - 1) : i \in n..(f + RingSize - 1)
    BY RingAssumption
  <1>5. f <= q
    BY DEF HoldsInv
  <1> HIDE DEF h, q
  <1>6. HoldsInv(h, f, q, c, p)
    <2>1. ASSUME NEW i \in f..(q - 1)
          PROVE  /\ c[Slot(i)] = NIL \/ c[Slot(i)] = h[i]
                 /\ c[Slot(i)] # NIL => p[Slot(i)] = h[i]
      <3>1. CASE i \in f..(n - 1)
        BY <3>1, <1>1 DEF HoldsInv
      <3>2. CASE i = n
        BY <3>2, <1>2
      <3> QED
        BY <3>1, <3>2, <1>3
    <2>2. \A i \in q..(f + RingSize - 1) : c[Slot(i)] = NIL
      BY <1>4 DEF HoldsInv
    <2> QED
      BY <2>1, <2>2, <1>5 DEF HoldsInv
  <1> QED
    BY <1>2, <1>6 DEF h, q

(* Storing the pointer of an empty slot disturbs no message. *)
LEMMA HoldsPtr ==
  ASSUME NEW g, NEW f \in Nat, NEW n \in Nat, NEW c, NEW p \in Contents,
         HoldsInv(g, f, n, c, p), NEW s \in Slots, c[s] = NIL, NEW m
  PROVE  HoldsInv(g, f, n, c, [p EXCEPT ![s] = m])
  <1> DEFINE q == [p EXCEPT ![s] = m]
  <1>1. \A i \in Nat : Slot(i) # s => q[Slot(i)] = p[Slot(i)]
    BY SlotInRange DEF Contents
  <1>2. \A i \in f..(n - 1) : i \in Nat
    OBVIOUS
  <1> HIDE DEF q
  <1>3. ASSUME NEW i \in f..(n - 1), c[Slot(i)] # NIL PROVE q[Slot(i)] = g[i]
    BY <1>1, <1>2, <1>3 DEF HoldsInv
  <1>4. HoldsInv(g, f, n, c, q)
    BY <1>3 DEF HoldsInv
  <1> QED
    BY <1>4 DEF q

(* Storing the code completes the message of its index and no other one. *)
LEMMA HoldsCode ==
  ASSUME NEW g, NEW f \in Nat, NEW n \in Nat, NEW c \in Contents, NEW p,
         HoldsInv(g, f, n, c, p), n <= f + RingSize,
         NEW i \in f..(n - 1), p[Slot(i)] = g[i]
  PROVE  HoldsInv(g, f, n, [c EXCEPT ![Slot(i)] = g[i]], p)
  <1> DEFINE e == [c EXCEPT ![Slot(i)] = g[i]]
  <1>1. i \in Nat /\ Slot(i) \in Slots
    BY SlotInRange
  <1>2. e[Slot(i)] = g[i]
    BY <1>1 DEF Contents
  <1>3. /\ \A j \in f..(n - 1) : j \in f..(f + RingSize - 1)
        /\ \A j \in n..(f + RingSize - 1) : j \in f..(f + RingSize - 1) /\ j # i
    BY RingAssumption DEF HoldsInv
  <1>4. ASSUME NEW j \in f..(f + RingSize - 1), j # i
        PROVE  e[Slot(j)] = c[Slot(j)]
    <2>1. Slot(i) # Slot(j)
      BY <1>3, <1>4, SlotsApart
    <2>2. Slot(j) \in Slots
      <3>1. j \in Nat
        BY RingAssumption
      <3> QED
        BY <3>1, SlotInRange
    <2> QED
      BY <1>1, <2>1, <2>2 DEF Contents
  <1> HIDE DEF e
  <1>5. ASSUME NEW j \in f..(n - 1)
        PROVE  /\ e[Slot(j)] = NIL \/ e[Slot(j)] = g[j]
               /\ e[Slot(j)] # NIL => p[Slot(j)] = g[j]
    <2>1. CASE j = i
      BY <2>1, <1>2
    <2>2. CASE j # i
      BY <2>2, <1>3, <1>4 DEF HoldsInv
    <2> QED
      BY <2>1, <2>2
  <1>6. ASSUME NEW j \in n..(f + RingSize - 1) PROVE e[Slot(j)] = NIL
    BY <1>3, <1>4 DEF HoldsInv
  <1>7. HoldsInv(g, f, n, e, p)
    BY <1>5, <1>6 DEF HoldsInv
  <1> QED
    BY <1>7 DEF e

(* Clearing the first slot makes room for one more index. *)
LEMMA HoldsClear ==
  ASSUME NEW g, NEW f \in Nat, NEW n \in Nat, NEW c \in Contents, NEW p,
         HoldsInv(g, f, n, c, p), f < n
  PROVE  HoldsInv(g, f + 1, n, [c EXCEPT ![Slot(f)] = NIL], p)
  <1> DEFINE e == [c EXCEPT ![Slot(f)] = NIL]
             q == f + 1
  <1>1. \A j \in Nat : e[Slot(j)] = NIL \/ e[Slot(j)] = c[Slot(j)]
    BY SlotInRange DEF Contents
  <1>2. e[Slot(f + RingSize)] = NIL
    BY SlotPeriod, SlotInRange DEF Contents
  <1>3. q <= n /\ \A j \in q..(n - 1) : j \in f..(n - 1) /\ j \in Nat
    OBVIOUS
  <1>4. \A j \in n..(q + RingSize - 1) :
          /\ j \in Nat
          /\ j \in n..(f + RingSize - 1) \/ j = f + RingSize
    BY RingAssumption
  <1> HIDE DEF e, q
  <1>5. ASSUME NEW j \in q..(n - 1)
        PROVE  /\ e[Slot(j)] = NIL \/ e[Slot(j)] = g[j]
               /\ e[Slot(j)] # NIL => p[Slot(j)] = g[j]
    BY <1>1, <1>3 DEF HoldsInv
  <1>6. ASSUME NEW j \in n..(q + RingSize - 1) PROVE e[Slot(j)] = NIL
    BY <1>1, <1>2, <1>4 DEF HoldsInv
  <1>7. HoldsInv(g, q, n, e, p)
    BY <1>3, <1>5, <1>6 DEF HoldsInv
  <1> QED
    BY <1>7 DEF e, q

-----------------------------------------------------------------------------
(********************* the output buffer of each writer ********************)

(* What ipc_send_direct is working on is a submitted message of w, and     *)
(* those that follow it are in the output buffer.                          *)
LEMMA CurrentMsg ==
  ASSUME NEW w \in Writers, StoredInv, QueueInv(w), pc[w] # "idle"
  PROVE  /\ wmsg[w] \in Msgs /\ wmsg[w][2] \in Nat /\ wmsg[w][2] > 0
         /\ wmsg[w] = <<w, wmsg[w][2]>> /\ wmsg[w][2] <= submitted[w]
         /\ ~retrying[w] => /\ wmsg[w][2] = submitted[w]
                            /\ Len(outbuf[w]) = 0 /\ outbuf[w] = <<>>
         /\ retrying[w] => /\ wmsg[w][2] = submitted[w] - Len(outbuf[w]) + 1
                           /\ Len(outbuf[w]) > 0
  <1> DEFINE q == outbuf[w]
             a == submitted[w] - Len(outbuf[w])
  <1>1. wmsg[w] \in Msgs
    BY DEF StoredInv, TypeOK, WriterType, PointerStored
  <1>2. wmsg[w][1] \in Writers /\ wmsg[w][2] \in Nat /\ wmsg[w][2] > 0
    BY <1>1, MsgParts
  <1>3. submitted[w] \in Nat /\ q \in Seq(Msgs)
    BY RingAssumption DEF StoredInv, TypeOK, WriterType, HistoryType
  <1>4. CASE ~retrying[w]
    <2>1. wmsg[w] = <<w, submitted[w]>> /\ outbuf[w] = <<>>
      BY <1>4 DEF QueueInv
    <2>2. wmsg[w][2] = submitted[w]
      BY <2>1
    <2>3. Len(outbuf[w]) = 0
      BY <2>1
    <2> QED
      BY <1>1, <1>2, <1>3, <1>4, <2>1, <2>2, <2>3
  <1>5. CASE retrying[w]
    <2>1. /\ q # <<>> /\ wmsg[w] = q[1] /\ Continues(w, a, q)
          /\ Len(q) <= submitted[w]
      BY <1>5 DEF QueueInv
    <2>2. Len(q) \in Nat /\ Len(q) > 0
      BY <1>3, <2>1
    <2>3. 1 \in 1..Len(q)
      BY <2>2
    <2>4. q[1] = <<w, a + 1>>
      BY <2>1, <2>3 DEF Continues
    <2>5. wmsg[w] = <<w, a + 1>> /\ wmsg[w][2] = a + 1
      BY <2>1, <2>4
    <2> QED
      BY <1>1, <1>2, <1>3, <1>5, <2>1, <2>2, <2>5
  <1> QED
    BY <1>4, <1>5

(* No more messages are reserved than were submitted. *)
LEMMA ReservedType ==
  ASSUME StoredInv, \A w \in Writers : QueueInv(w)
  PROVE  /\ Reserved \in [Writers -> Nat]
         /\ \A w \in Writers : Reserved[w] <= submitted[w]
  <1> SUFFICES ASSUME NEW w \in Writers
               PROVE  Reserved[w] \in Nat /\ Reserved[w] <= submitted[w]
    BY DEF Reserved
  <1>1. /\ submitted[w] \in Nat /\ Len(outbuf[w]) \in Nat
        /\ Len(outbuf[w]) <= submitted[w]
    BY RingAssumption
    DEF StoredInv, TypeOK, WriterType, HistoryType, QueueInv
  <1>2. CASE pc[w] = "idle"
    BY <1>1, <1>2 DEF Reserved
  <1>3. CASE pc[w] # "idle"
    <2>1. wmsg[w][2] \in Nat /\ wmsg[w][2] > 0 /\ wmsg[w][2] <= submitted[w]
      BY <1>3, CurrentMsg
    <2> QED
      BY <1>1, <1>3, <2>1 DEF Reserved
  <1> QED
    BY <1>2, <1>3

WriterStep(w) == Submit(w) \/ Retry(w) \/ SendStep(w)

(* A writer's step is its own: the others' variables stay. *)
LEMMA OthersKept ==
  ASSUME StoredInv, NEW w \in Writers, WriterStep(w), NEW v \in Writers, v # w
  PROVE  /\ pc'[v] = pc[v] /\ wmsg'[v] = wmsg[v] /\ windex'[v] = windex[v]
         /\ wread'[v] = wread[v] /\ retrying'[v] = retrying[v]
         /\ outbuf'[v] = outbuf[v] /\ submitted'[v] = submitted[v]
  <1> USE DEF StoredInv, TypeOK, WriterType, HistoryType, Goto
  <1>1. CASE Submit(w)
    BY <1>1 DEF Submit, OutbufAppend
  <1>2. CASE Retry(w)
    BY <1>2 DEF Retry
  <1>3. CASE CheckFull(w) \/ CheckRoom(w) \/ SetFull(w)
    BY <1>3 DEF CheckFull, CheckRoom, SetFull, SendFailed, OutbufAppend
  <1>4. CASE ReserveIndex(w) \/ LoadNextRead(w)
    BY <1>4 DEF ReserveIndex, LoadNextRead
  <1>5. CASE WritePtr(w) \/ WriteCode(w) \/ ReleaseIndex(w)
    BY <1>5 DEF WritePtr, WriteCode, ReleaseIndex
  <1>6. CASE SendNotice(w)
    BY <1>6 DEF SendNotice, SendSucceeded
  <1> QED
    BY <1>1, <1>2, <1>3, <1>4, <1>5, <1>6 DEF WriterStep, SendStep

(* The steps inside ipc_send_direct leave the output buffer alone. *)
LEMMA InsideKeeps ==
  ASSUME StoredInv, NEW w \in Writers, QueueInv(w),
         pc[w] # "idle", pc'[w] # "idle",
         UNCHANGED <<wmsg, retrying, outbuf, submitted>>
  PROVE  QueueInv(w)'
  BY DEF QueueInv, Continues

(* shuso_ipc_send: the message is queued or given to ipc_send_direct. *)
LEMMA SubmitQueue ==
  ASSUME StoredInv, NEW w \in Writers, QueueInv(w), Submit(w)
  PROVE  QueueInv(w)' /\ Reserved'[w] = Reserved[w]
  <1> DEFINE q == outbuf[w]
             n == submitted[w]
             a == n - Len(q)
             m == <<w, n + 1>>
  <1>1. /\ n \in Nat /\ q \in Seq(Msgs) /\ Len(q) \in Nat /\ Len(q) <= n
        /\ a \in Nat /\ Continues(w, a, q) /\ pc[w] = "idle"
    BY RingAssumption
    DEF StoredInv, TypeOK, WriterType, HistoryType, QueueInv, Submit
  <1>2. m \in Msgs /\ m = <<w, a + Len(q) + 1>>
    <2>1. n < MaxSend
      BY DEF Submit
    <2>2. n + 1 = a + Len(q) + 1 /\ n + 1 \in 1..MaxSend
      BY <1>1, <2>1, RingAssumption
    <2> HIDE DEF n, a, q
    <2> QED
      BY <2>2 DEF Msgs
  <1>3. submitted'[w] = n + 1
    BY DEF Submit, StoredInv, TypeOK, HistoryType
  <1>4. Reserved[w] = a
    BY <1>1 DEF Reserved
  <1>5. CASE OutbufAppend(w, m) /\ UNCHANGED <<pc, wmsg, retrying>>
    <2>1. outbuf'[w] = Append(q, m) /\ pc'[w] = "idle"
      BY <1>1, <1>5 DEF OutbufAppend, StoredInv, TypeOK, WriterType
    <2>2. Continues(w, a, Append(q, m)) /\ Len(Append(q, m)) = Len(q) + 1
      <3> HIDE DEF q, a, m
      <3> QED
        BY <1>1, <1>2, AppendContinues
    <2>3. Continues(w, a, outbuf'[w]) /\ Len(outbuf'[w]) = Len(q) + 1
      BY <2>1, <2>2
    <2>4. submitted'[w] - Len(outbuf'[w]) = a
      BY <1>1, <1>3, <2>3
    <2>5. Continues(w, submitted'[w] - Len(outbuf'[w]), outbuf'[w])
      BY <2>3, <2>4
    <2>6. QueueInv(w)'
      <3>1. Len(outbuf'[w]) <= submitted'[w]
        <4> HIDE DEF n, a, q, m
        <4> QED
          BY <1>1, <1>3, <2>3
      <3>2. pc'[w] = "idle"
        BY <2>1
      <3> HIDE DEF n, a, q, m
      <3> QED
        BY <2>5, <3>1, <3>2 DEF QueueInv
    <2>7. Reserved'[w] = a
      BY <2>1, <2>4 DEF Reserved
    <2> QED
      BY <1>4, <2>6, <2>7
  <1>6. CASE /\ outbuf[w] = <<>> /\ Goto(w, "full1")
             /\ wmsg' = [wmsg EXCEPT ![w] = m]
             /\ retrying' = [retrying EXCEPT ![w] = FALSE]
             /\ UNCHANGED <<outbuf, send_retry>>
    <2>1. /\ pc'[w] = "full1" /\ wmsg'[w] = m /\ ~retrying'[w]
          /\ outbuf'[w] = <<>>
      BY <1>6 DEF Goto, StoredInv, TypeOK, WriterType
    <2>2. Len(outbuf'[w]) = 0 /\ a = n
      BY <1>1, <1>6, <2>1
    <2>3. QueueInv(w)'
      BY <1>1, <1>3, <2>1, <2>2 DEF QueueInv, Continues
    <2>4. wmsg'[w][2] = n + 1
      BY <2>1
    <2>5. Reserved'[w] = n
      BY <1>1, <2>1, <2>4 DEF Reserved
    <2> QED
      BY <1>4, <2>2, <2>3, <2>5
  <1> QED
    BY <1>5, <1>6 DEF Submit

(* The retry timer takes the first buffered message. *)
LEMMA RetryQueue ==
  ASSUME StoredInv, NEW w \in Writers, QueueInv(w), Retry(w)
  PROVE  QueueInv(w)' /\ Reserved'[w] = Reserved[w]
  <1> DEFINE q == outbuf[w]
             a == submitted[w] - Len(q)
  <1>1. /\ submitted[w] \in Nat /\ q \in Seq(Msgs) /\ Len(q) \in Nat
        /\ Len(q) <= submitted[w] /\ Continues(w, a, q)
        /\ pc[w] = "idle" /\ q # <<>>
    BY RingAssumption
    DEF StoredInv, TypeOK, WriterType, HistoryType, QueueInv, Retry
  <1>2. Len(q) > 0 /\ Head(q) = q[1]
    BY <1>1
  <1>3. q[1] = <<w, a + 1>>
    BY <1>1, <1>2 DEF Continues
  <1>4. /\ pc'[w] = "full1" /\ wmsg'[w] = q[1] /\ retrying'[w]
        /\ outbuf' = outbuf /\ submitted' = submitted
    BY <1>2 DEF Retry, Goto, StoredInv, TypeOK, WriterType
  <1>5. QueueInv(w)'
    BY <1>1, <1>4 DEF QueueInv, Continues
  <1>6. wmsg'[w][2] = a + 1
    BY <1>3, <1>4
  <1>7. Reserved'[w] = wmsg'[w][2] - 1 /\ Reserved[w] = a
    BY <1>1, <1>4 DEF Reserved
  <1>8. a \in Int
    BY <1>1
  <1> HIDE DEF a
  <1>9. Reserved'[w] = a
    BY <1>6, <1>7, <1>8
  <1> QED
    BY <1>5, <1>7, <1>9

(* ipc_send_direct returned true: the message leaves the output buffer and *)
(* the retry loop goes on with the next one.                               *)
LEMMA NoticeQueue ==
  ASSUME StoredInv, NEW w \in Writers, QueueInv(w), SendNotice(w)
  PROVE  QueueInv(w)' /\ Reserved'[w] = Reserved[w]
  <1> DEFINE q == outbuf[w]
             n == submitted[w]
             a == n - Len(q)
  <1>1. /\ n \in Nat /\ q \in Seq(Msgs) /\ Len(q) \in Nat /\ Len(q) <= n
        /\ a \in Nat /\ Continues(w, a, q) /\ pc[w] = "notice"
        /\ submitted'[w] = n
    BY RingAssumption
    DEF StoredInv, TypeOK, WriterType, HistoryType, QueueInv, SendNotice
  <1>2. Reserved[w] = wmsg[w][2]
    BY <1>1 DEF Reserved
  <1>3. CASE ~retrying[w]
    <2>1. wmsg[w][2] = n /\ Len(q) = 0
      BY <1>1, <1>3, CurrentMsg
    <2>2. pc'[w] = "idle" /\ outbuf' = outbuf
      BY <1>3 DEF SendNotice, SendSucceeded, Goto, StoredInv, TypeOK, WriterType
    <2>3. QueueInv(w)'
      BY <1>1, <2>2 DEF QueueInv, Continues
    <2>4. Reserved'[w] = n
      BY <1>1, <2>1, <2>2 DEF Reserved
    <2> QED
      BY <1>2, <2>1, <2>3, <2>4
  <1>4. CASE retrying[w]
    <2>1. wmsg[w][2] = a + 1 /\ Len(q) > 0
      BY <1>1, <1>4, CurrentMsg
    <2>2. q # <<>>
      BY <2>1
    <2>3. /\ Continues(w, a + 1, Tail(q)) /\ a + Len(q) = a + 1 + Len(Tail(q))
          /\ Len(q) > 1 => q[2] = <<w, a + 2>> /\ Tail(q) # <<>>
      <3> HIDE DEF q, a
      <3> QED
        BY <1>1, <2>2, TailContinues
    <2>4. Len(Tail(q)) = Len(q) - 1
      BY <1>1, <2>2
    <2>5. outbuf'[w] = Tail(q) /\ retrying' = retrying
      BY <1>4 DEF SendNotice, SendSucceeded, StoredInv, TypeOK, WriterType
    <2>6. /\ Len(outbuf'[w]) = Len(q) - 1
          /\ submitted'[w] - Len(outbuf'[w]) = a + 1
      BY <1>1, <2>4, <2>5
    <2>7. Continues(w, submitted'[w] - Len(outbuf'[w]), outbuf'[w])
      BY <2>3, <2>5, <2>6
    <2>8. Len(outbuf'[w]) <= submitted'[w]
      BY <1>1, <2>6
    <2>9. CASE Len(q) = 1
      <3>1. pc'[w] = "idle"
        BY <1>4, <2>9 DEF SendNotice, SendSucceeded, Goto, StoredInv, TypeOK,
           WriterType
      <3>2. QueueInv(w)'
        BY <2>7, <2>8, <3>1 DEF QueueInv, Continues
      <3>3. Reserved'[w] = a + 1
        BY <2>6, <3>1 DEF Reserved
      <3> QED
        BY <1>2, <2>1, <3>2, <3>3
    <2>10. CASE Len(q) > 1
      <3>1. pc'[w] = "full1" /\ wmsg'[w] = q[2]
        BY <1>4, <2>10 DEF SendNotice, SendSucceeded, Goto, StoredInv, TypeOK,
           WriterType
      <3>2. Tail(q)[1] = q[2]
        BY <1>1, <2>10
      <3>3. wmsg'[w] = outbuf'[w][1] /\ outbuf'[w] # <<>> /\ retrying'[w]
        BY <1>4, <2>3, <2>5, <2>10, <3>1, <3>2
      <3>4. QueueInv(w)'
        BY <2>7, <2>8, <3>1, <3>3 DEF QueueInv, Continues
      <3>5. wmsg'[w][2] = a + 2
        BY <2>3, <2>10, <3>1
      <3>6. Reserved'[w] = a + 1
        BY <1>1, <3>1, <3>5 DEF Reserved
      <3> QED
        BY <1>2, <2>1, <3>4, <3>6
    <2>11. Len(q) = 1 \/ Len(q) > 1
      <3> DEFINE l == Len(q)
      <3>1. l \in Nat /\ l > 0
        BY <1>1, <2>1
      <3> HIDE DEF l
      <3>2. l = 1 \/ l > 1
        BY <3>1
      <3> QED
        BY <3>2 DEF l
    <2> QED
      BY <2>9, <2>10, <2>11
  <1> QED
    BY <1>3, <1>4

(* Every step of a writer that finds the ring not full keeps the output    *)
(* buffers in order, and reserving is the only one that counts.            *)
LEMMA WriterQueues ==
  ASSUME StoredInv, NotFull, \A v \in Writers : QueueInv(v),
         NEW w \in Writers, WriterStep(w),
         pc[w] = "full2" => windex[w] - wread[w] <= RingSize - 1
  PROVE  /\ NotFull'
         /\ \A v \in Writers : QueueInv(v)'
         /\ pc[w] # "inc" => Reserved' = Reserved
         /\ pc[w] = "inc" =>
              Reserved' = [Reserved EXCEPT ![w] = Reserved[w] + 1]
  <1>1. /\ NotFull' /\ QueueInv(w)'
        /\ pc[w] # "inc" => Reserved'[w] = Reserved[w]
        /\ pc[w] = "inc" => Reserved'[w] = Reserved[w] + 1
    <2>0. ASSUME full' = full, rpc' = rpc, pc'[w] # "setfull" PROVE NotFull'
      BY <2>0, OthersKept DEF NotFull
    <2> USE DEF StoredInv, TypeOK, WriterType, Goto
    <2>a. ASSUME pc[w] # "idle", pc'[w] # "idle", pc[w] # "inc",
                 UNCHANGED <<wmsg, retrying, outbuf, submitted>>,
                 pc[w] = "full1" <=> pc'[w] = "inc", pc'[w] # "full1"
          PROVE  QueueInv(w)' /\ Reserved'[w] = Reserved[w]
      BY <2>a, InsideKeeps DEF Reserved
    <2>1. CASE Submit(w)
      <3>1. pc[w] = "idle" /\ full' = full /\ rpc' = rpc /\ pc'[w] # "setfull"
        BY <2>1 DEF Submit, ring, reader
      <3> QED
        BY <2>1, <2>0, <3>1, SubmitQueue
    <2>2. CASE Retry(w)
      <3>1. pc[w] = "idle" /\ full' = full /\ rpc' = rpc /\ pc'[w] # "setfull"
        BY <2>2 DEF Retry, ring, reader
      <3> QED
        BY <2>2, <2>0, <3>1, RetryQueue
    <2>3. CASE CheckFull(w)
      <3>1. /\ pc[w] = "full1" /\ pc'[w] = "inc" /\ full' = full /\ rpc' = rpc
            /\ UNCHANGED <<wmsg, retrying, outbuf, submitted>>
        BY <2>3 DEF CheckFull, ring, reader, NotFull
      <3> QED
        BY <2>0, <2>a, <3>1
    <2>4. CASE ReserveIndex(w)
      <3>1. /\ pc[w] = "inc" /\ pc'[w] = "load" /\ full' = full /\ rpc' = rpc
            /\ UNCHANGED <<wmsg, retrying, outbuf, submitted>>
        BY <2>4 DEF ReserveIndex, ring, reader
      <3>2. QueueInv(w)'
        BY <3>1, InsideKeeps
      <3>3. wmsg[w][2] \in Nat /\ wmsg'[w] = wmsg[w]
        BY <3>1, CurrentMsg
      <3>4. Reserved[w] = wmsg[w][2] - 1 /\ Reserved'[w] = wmsg[w][2]
        BY <3>1, <3>3 DEF Reserved
      <3> QED
        BY <2>0, <3>1, <3>2, <3>3, <3>4
    <2>5. CASE LoadNextRead(w)
      <3>1. /\ pc[w] = "load" /\ pc'[w] = "full2" /\ full' = full /\ rpc' = rpc
            /\ UNCHANGED <<wmsg, retrying, outbuf, submitted>>
        BY <2>5 DEF LoadNextRead, ring, reader
      <3> QED
        BY <2>0, <2>a, <3>1
    <2>6. CASE CheckRoom(w)
      <3>1. ~NoRoom(w)
        BY <2>6, RingAssumption DEF CheckRoom, NoRoom
      <3>2. /\ pc[w] = "full2" /\ pc'[w] = "ptr" /\ full' = full /\ rpc' = rpc
            /\ UNCHANGED <<wmsg, retrying, outbuf, submitted>>
        BY <2>6, <3>1 DEF CheckRoom, ring, reader, NotFull
      <3> QED
        BY <2>0, <2>a, <3>2
    <2>7. CASE SetFull(w)
      BY <2>7 DEF SetFull, NotFull
    <2>8. CASE WritePtr(w)
      <3>1. /\ pc[w] = "ptr" /\ pc'[w] = "code" /\ full' = full /\ rpc' = rpc
            /\ UNCHANGED <<wmsg, retrying, outbuf, submitted>>
        BY <2>8 DEF WritePtr, ring, reader
      <3> QED
        BY <2>0, <2>a, <3>1
    <2>9. CASE WriteCode(w)
      <3>1. /\ pc[w] = "code" /\ pc'[w] = "release" /\ full' = full
            /\ rpc' = rpc
            /\ UNCHANGED <<wmsg, retrying, outbuf, submitted>>
        BY <2>9 DEF WriteCode, ring, reader
      <3> QED
        BY <2>0, <2>a, <3>1
    <2>10. CASE ReleaseIndex(w)
      <3>1. /\ pc[w] = "release" /\ pc'[w] = "notice" /\ full' = full
            /\ rpc' = rpc
            /\ UNCHANGED <<wmsg, retrying, outbuf, submitted>>
        BY <2>10 DEF ReleaseIndex, ring, reader
      <3> QED
        BY <2>0, <2>a, <3>1
    <2>11. CASE SendNotice(w)
      <3>1. pc[w] = "notice" /\ full' = full /\ rpc' = rpc /\ pc'[w] # "setfull"
        BY <2>11 DEF SendNotice, SendSucceeded, ring, reader
      <3> QED
        BY <2>11, <2>0, <3>1, NoticeQueue
    <2> QED
      BY <2>1, <2>2, <2>3, <2>4, <2>5, <2>6, <2>7, <2>8, <2>9, <2>10, <2>11
      DEF WriterStep, SendStep
  <1>2. ASSUME NEW v \in Writers, v # w
        PROVE  QueueInv(v)' /\ Reserved'[v] = Reserved[v]
    BY <1>2, OthersKept DEF QueueInv, Continues, Reserved
  <1>3. \A v \in Writers : QueueInv(v)'
    BY <1>1, <1>2
  <1>4. Reserved \in [Writers -> Nat]
    BY ReservedType
  <1>5. Reserved' = [v \in Writers |-> Reserved'[v]]
    BY DEF Reserved
  <1>6. CASE pc[w] # "inc"
    <2>1. \A v \in Writers : Reserved'[v] = Reserved[v]
      BY <1>1, <1>2, <1>6
    <2>2. Reserved' = Reserved
      BY <1>4, <1>5, <2>1
    <2> QED
      BY <1>1, <1>3, <1>6, <2>2
  <1>7. CASE pc[w] = "inc"
    <2> DEFINE r == [Reserved EXCEPT ![w] = Reserved[w] + 1]
    <2>1. r = [v \in Writers |-> r[v]]
      BY <1>4
    <2>2. \A v \in Writers : Reserved'[v] = r[v]
      BY <1>1, <1>2, <1>4, <1>7
    <2>3. Reserved' = r
      <3> HIDE DEF r
      <3> QED
        BY <1>5, <2>1, <2>2
    <2> QED
      BY <1>1, <1>3, <1>7, <2>3
  <1> QED
    BY <1>6, <1>7

-----------------------------------------------------------------------------
(************************** the steps of a writer **************************)

(* The indices in use fit in the ring. *)
LEMMA Room ==
  ASSUME IsFiniteSet(Writers), Cardinality(Writers) * Window <= RingSize,
         StoredInv, NEW g \in Logs, OrderInv(g),
         \A w \in Writers : Windowed(w) /\ QueueInv(w)
  PROVE  /\ next_read \in Nat /\ next_write_reserve \in Nat
         /\ Done \in Nat /\ FirstUnread \in Nat
         /\ Done <= next_read /\ Done <= FirstUnread
         /\ next_read <= FirstUnread /\ FirstUnread <= next_write_reserve
         /\ next_write_reserve <= Done + RingSize
  <1>1. /\ next_read \in Nat /\ next_write_reserve \in Nat
        /\ received \in [Writers -> Nat] /\ submitted \in [Writers -> Nat]
    BY RingAssumption DEF StoredInv, TypeOK, RingType, HistoryType
  <1>2. rpc = "handle" => 0 < next_read
    BY DEF OrderInv, HandInv
  <1>3. Done \in Nat /\ Done <= next_read
    BY <1>1, <1>2 DEF Done
  <1>4. FirstUnread \in Nat /\ next_read <= FirstUnread
    BY <1>1 DEF FirstUnread
  <1>5. LogInv(g, Done, next_write_reserve, received, Reserved)
    BY DEF OrderInv
  <1>6. FirstUnread <= next_write_reserve
    BY DEF OrderInv, HoldsInv
  <1>7. /\ Reserved \in [Writers -> Nat]
        /\ \A w \in Writers : Reserved[w] <= submitted[w]
    BY ReservedType
  <1>8. \A w \in Writers : Reserved[w] <= received[w] + Window
    BY <1>1, <1>7, RingAssumption DEF Windowed
  <1>9. next_write_reserve <= Done + RingSize
    BY <1>1, <1>3, <1>5, <1>7, <1>8, LogRoom
  <1> QED
    BY <1>1, <1>3, <1>4, <1>6, <1>9

(* A step that touches neither the ring nor the reader concerns only the   *)
(* slot of the writer that makes it.                                       *)
LEMMA RingKept ==
  ASSUME StoredInv, NEW g \in Logs, OrderInv(g), NEW w \in Writers,
         WriterStep(w), Reserved' = Reserved,
         UNCHANGED <<next_read, next_write_reserve, code, ptr, reader,
                     received>>,
         FillInv(g, w)'
  PROVE  OrderInv(g)'
  <1>1. Done' = Done /\ FirstUnread' = FirstUnread
    BY DEF Done, FirstUnread, reader
  <1>2. LogInv(g, Done', next_write_reserve', received', Reserved')
    BY <1>1 DEF OrderInv
  <1>3. HoldsInv(g, FirstUnread', next_write_reserve', code', ptr')
    BY <1>1 DEF OrderInv
  <1>4. ASSUME NEW v \in Writers PROVE FillInv(g, v)'
    <2>1. CASE v # w
      <3>1. FillInv(g, v)
        BY DEF OrderInv
      <3> QED
        BY <2>1, <3>1, <1>1, OthersKept DEF FillInv
    <2> QED
      BY <2>1
  <1>5. HandInv(g)'
    BY DEF OrderInv, HandInv, reader
  <1> QED
    BY <1>2, <1>3, <1>4, <1>5 DEF OrderInv

(* ipc_reserve_write_index: the index that is taken has an empty slot. *)
LEMMA ReserveOrder ==
  ASSUME IsFiniteSet(Writers), Cardinality(Writers) * Window <= RingSize,
         StoredInv, NEW g \in Logs, OrderInv(g),
         \A v \in Writers : Windowed(v) /\ QueueInv(v),
         NEW w \in Writers, ReserveIndex(w),
         Reserved' = [Reserved EXCEPT ![w] = Reserved[w] + 1],
         Reserved' \in [Writers -> Nat],
         \A v \in Writers : Reserved'[v] <= received[v] + Window
  PROVE  \E h \in Logs : OrderInv(h)'
  <1>1. PICK h \in Logs : h = [g EXCEPT ![next_write_reserve] = wmsg[w]]
    BY DEF Logs, StoredInv, TypeOK, WriterType
  <1>2. /\ next_read \in Nat /\ next_write_reserve \in Nat
        /\ Done \in Nat /\ FirstUnread \in Nat
        /\ Done <= next_read /\ Done <= FirstUnread
        /\ next_read <= FirstUnread /\ FirstUnread <= next_write_reserve
    BY Room
  <1>3. /\ pc[w] = "inc" /\ pc'[w] = "load" /\ windex'[w] = next_write_reserve
        /\ next_write_reserve' = next_write_reserve + 1
        /\ UNCHANGED <<next_read, code, ptr, reader, received, wmsg>>
    BY DEF ReserveIndex, Goto, StoredInv, TypeOK, WriterType
  <1>4. Done' = Done /\ FirstUnread' = FirstUnread
    BY <1>3 DEF Done, FirstUnread, reader
  <1>5. wmsg[w] \in Msgs /\ wmsg[w] = <<w, wmsg[w][2]>> /\ wmsg[w][2] \in Nat
    BY <1>3, CurrentMsg
  <1>6. Reserved \in [Writers -> Nat] /\ received \in [Writers -> Nat]
    BY ReservedType, RingAssumption DEF StoredInv, TypeOK, HistoryType
  <1>7. wmsg[w] = <<w, Reserved[w] + 1>>
    <2>1. Reserved[w] = wmsg[w][2] - 1
      BY <1>3 DEF Reserved
    <2>2. Reserved[w] + 1 = wmsg[w][2]
      BY <2>1, <1>5
    <2> QED
      BY <2>2, <1>5
  <1>8. LogInv(g, Done, next_write_reserve, received, Reserved)
    BY DEF OrderInv
  <1>9. LogInv(h, Done', next_write_reserve', received', Reserved')
    BY <1>1, <1>2, <1>3, <1>4, <1>5, <1>6, <1>7, <1>8, LogReserve
  <1>10. next_write_reserve + 1 <= Done + RingSize
    <2>1. LogInv(h, Done, next_write_reserve + 1, received, Reserved')
      BY <1>9, <1>3, <1>4
    <2>2. next_write_reserve + 1 \in Nat
      BY <1>2
    <2> QED
      BY <2>1, <2>2, <1>2, <1>6, LogRoom
  <1>11. /\ HoldsInv(h, FirstUnread', next_write_reserve', code', ptr')
         /\ code[Slot(next_write_reserve)] = NIL
    <2>1. next_write_reserve < FirstUnread + RingSize
      BY <1>2, <1>10, RingAssumption
    <2>2. HoldsInv(g, FirstUnread, next_write_reserve, code, ptr)
      BY DEF OrderInv
    <2>3. /\ HoldsInv([g EXCEPT ![next_write_reserve] = wmsg[w]],
                      FirstUnread, next_write_reserve + 1, code, ptr)
          /\ code[Slot(next_write_reserve)] = NIL
      BY <2>1, <2>2, <1>2, <1>5, HoldsReserve
    <2> QED
      BY <2>3, <1>1, <1>3, <1>4
  <1>12. /\ h[next_write_reserve] = wmsg[w]
         /\ \A i \in Nat : i < next_write_reserve => h[i] = g[i]
    BY <1>1, <1>2 DEF Logs
  <1>13. ASSUME NEW v \in Writers PROVE FillInv(h, v)'
    <2>1. CASE v = w
      BY <2>1, <1>2, <1>3, <1>4, <1>11, <1>12 DEF FillInv
    <2>2. CASE v # w
      <3>1. /\ pc'[v] = pc[v] /\ wmsg'[v] = wmsg[v] /\ windex'[v] = windex[v]
            /\ wread'[v] = wread[v]
        BY <2>2, OthersKept DEF WriterStep, SendStep
      <3>2. FillInv(g, v) /\ windex[v] \in Nat
        BY DEF OrderInv, StoredInv, TypeOK, WriterType
      <3> QED
        BY <3>1, <3>2, <1>2, <1>3, <1>4, <1>12 DEF FillInv
    <2> QED
      BY <2>1, <2>2
  <1>14. HandInv(h)'
    <2>1. HandInv(g)
      BY DEF OrderInv
    <2>2. /\ next_read < next_write_reserve => h[next_read] = g[next_read]
          /\ 0 < next_read /\ next_read <= next_write_reserve =>
               h[next_read - 1] = g[next_read - 1]
      BY <1>2, <1>12
    <2> QED
      BY <2>1, <2>2, <1>2, <1>3 DEF HandInv, reader
  <1> QED
    BY <1>9, <1>11, <1>13, <1>14 DEF OrderInv

(* buf->ptr[next] = ptr: the slot is empty and nobody else's. *)
LEMMA WritePtrOrder ==
  ASSUME IsFiniteSet(Writers), Cardinality(Writers) * Window <= RingSize,
         StoredInv, NEW g \in Logs, OrderInv(g),
         \A v \in Writers : Windowed(v) /\ QueueInv(v),
         NEW w \in Writers, WritePtr(w), Reserved' = Reserved
  PROVE  OrderInv(g)'
  <1> DEFINE s == Slot(windex[w])
  <1>1. /\ next_read \in Nat /\ next_write_reserve \in Nat
        /\ Done \in Nat /\ FirstUnread \in Nat
        /\ Done <= FirstUnread /\ next_write_reserve <= Done + RingSize
    BY Room
  <1>2. /\ pc[w] = "ptr" /\ pc'[w] = "code"
        /\ ptr' = [ptr EXCEPT ![s] = wmsg[w]]
        /\ UNCHANGED <<next_read, next_write_reserve, code, reader, received,
                       wmsg, windex>>
    BY DEF WritePtr, Goto, StoredInv, TypeOK, WriterType
  <1>3. Done' = Done /\ FirstUnread' = FirstUnread
    BY <1>2 DEF Done, FirstUnread, reader
  <1>4. /\ FirstUnread <= windex[w] /\ windex[w] < next_write_reserve
        /\ g[windex[w]] = wmsg[w] /\ code[s] = NIL
    BY <1>2 DEF OrderInv, FillInv, Filling
  <1>5. windex \in [Writers -> Nat] /\ s \in Slots /\ ptr \in Contents
    BY SlotInRange DEF StoredInv, TypeOK, WriterType, RingType, Contents
  <1>6. LogInv(g, Done', next_write_reserve', received', Reserved')
    BY <1>2, <1>3 DEF OrderInv
  <1>7. HoldsInv(g, FirstUnread', next_write_reserve', code', ptr')
    <2>1. HoldsInv(g, FirstUnread, next_write_reserve, code, ptr)
      BY DEF OrderInv
    <2> HIDE DEF s
    <2> QED
      BY <2>1, <1>1, <1>2, <1>3, <1>4, <1>5, HoldsPtr
  <1>8. ASSUME NEW v \in Writers PROVE FillInv(g, v)'
    <2>1. CASE v = w
      BY <2>1, <1>2, <1>3, <1>4, <1>5 DEF FillInv, Contents, Filling
    <2>2. CASE v # w
      <3>1. /\ pc'[v] = pc[v] /\ wmsg'[v] = wmsg[v] /\ windex'[v] = windex[v]
            /\ wread'[v] = wread[v]
        BY <2>2, OthersKept DEF WriterStep, SendStep
      <3>2. FillInv(g, v)
        BY DEF OrderInv
      <3>3. ASSUME pc[v] = "code" PROVE ptr'[Slot(windex[v])] = wmsg[v]
        <4>1. /\ FirstUnread <= windex[v] /\ windex[v] < next_write_reserve
              /\ g[windex[v]] = wmsg[v] /\ ptr[Slot(windex[v])] = wmsg[v]
          BY <3>2, <3>3 DEF FillInv, Filling
        <4>2. wmsg[v] = <<v, wmsg[v][2]>> /\ wmsg[w] = <<w, wmsg[w][2]>>
          BY <3>3, <1>2, CurrentMsg
        <4>3. windex[v] # windex[w]
          BY <2>2, <4>1, <4>2, <1>4
        <4>4. /\ windex[v] \in FirstUnread..(FirstUnread + RingSize - 1)
              /\ windex[w] \in FirstUnread..(FirstUnread + RingSize - 1)
          BY <4>1, <1>1, <1>4, <1>5, RingAssumption
        <4>5. Slot(windex[v]) # s
          BY <4>3, <4>4, <1>1, SlotsApart
        <4>6. Slot(windex[v]) \in Slots
          BY <1>5, SlotInRange
        <4> HIDE DEF s
        <4> QED
          BY <4>1, <4>5, <4>6, <1>2, <1>5 DEF Contents
      <3> QED
        BY <3>1, <3>2, <3>3, <1>2, <1>3 DEF FillInv
    <2> QED
      BY <2>1, <2>2
  <1>9. HandInv(g)'
    BY <1>2 DEF OrderInv, HandInv, reader
  <1> QED
    BY <1>6, <1>7, <1>8, <1>9 DEF OrderInv

(* buf->code[next] = code: the message is complete. *)
LEMMA WriteCodeOrder ==
  ASSUME IsFiniteSet(Writers), Cardinality(Writers) * Window <= RingSize,
         StoredInv, NEW g \in Logs, OrderInv(g),
         \A v \in Writers : Windowed(v) /\ QueueInv(v),
         NEW w \in Writers, WriteCode(w), Reserved' = Reserved
  PROVE  OrderInv(g)'
  <1> DEFINE s == Slot(windex[w])
  <1>1. /\ next_read \in Nat /\ next_write_reserve \in Nat
        /\ Done \in Nat /\ FirstUnread \in Nat
        /\ Done <= FirstUnread /\ next_read <= FirstUnread
        /\ next_write_reserve <= Done + RingSize
    BY Room
  <1>2. /\ pc[w] = "code" /\ pc'[w] = "release"
        /\ code' = [code EXCEPT ![s] = wmsg[w]]
        /\ UNCHANGED <<next_read, next_write_reserve, ptr, reader, received,
                       wmsg, windex>>
    BY DEF WriteCode, Goto, StoredInv, TypeOK, WriterType
  <1>3. Done' = Done /\ FirstUnread' = FirstUnread
    BY <1>2 DEF Done, FirstUnread, reader
  <1>4. /\ FirstUnread <= windex[w] /\ windex[w] < next_write_reserve
        /\ g[windex[w]] = wmsg[w] /\ code[s] = NIL /\ ptr[s] = wmsg[w]
    BY <1>2 DEF OrderInv, FillInv, Filling
  <1>5. windex \in [Writers -> Nat] /\ s \in Slots /\ code \in Contents
    BY SlotInRange DEF StoredInv, TypeOK, WriterType, RingType, Contents
  <1>6. LogInv(g, Done', next_write_reserve', received', Reserved')
    BY <1>2, <1>3 DEF OrderInv
  <1>a. windex[w] \in FirstUnread..(next_write_reserve - 1)
    BY <1>1, <1>4, <1>5
  <1>b. next_write_reserve <= FirstUnread + RingSize
    BY <1>1, RingAssumption
  <1>7. HoldsInv(g, FirstUnread', next_write_reserve', code', ptr')
    <2>1. HoldsInv(g, FirstUnread, next_write_reserve, code, ptr)
      BY DEF OrderInv
    <2>2. HoldsInv(g, FirstUnread, next_write_reserve,
                   [code EXCEPT ![Slot(windex[w])] = g[windex[w]]], ptr)
      BY <2>1, <1>1, <1>4, <1>5, <1>a, <1>b, HoldsCode
    <2> QED
      BY <2>2, <1>2, <1>3, <1>4
  <1>8. ASSUME NEW v \in Writers PROVE FillInv(g, v)'
    <2>1. CASE v = w
      BY <2>1, <1>2 DEF FillInv, Filling
    <2>2. CASE v # w
      <3>1. /\ pc'[v] = pc[v] /\ wmsg'[v] = wmsg[v] /\ windex'[v] = windex[v]
            /\ wread'[v] = wread[v]
        BY <2>2, OthersKept DEF WriterStep, SendStep
      <3>2. FillInv(g, v)
        BY DEF OrderInv
      <3>3. ASSUME pc[v] \in Filling PROVE code'[Slot(windex[v])] = NIL
        <4>1. /\ FirstUnread <= windex[v] /\ windex[v] < next_write_reserve
              /\ g[windex[v]] = wmsg[v] /\ code[Slot(windex[v])] = NIL
          BY <3>2, <3>3 DEF FillInv
        <4>2. wmsg[v] = <<v, wmsg[v][2]>> /\ wmsg[w] = <<w, wmsg[w][2]>>
          BY <3>3, <1>2, CurrentMsg DEF Filling
        <4>3. windex[v] # windex[w]
          BY <2>2, <4>1, <4>2, <1>4
        <4>4. /\ windex[v] \in FirstUnread..(FirstUnread + RingSize - 1)
              /\ windex[w] \in FirstUnread..(FirstUnread + RingSize - 1)
          BY <4>1, <1>1, <1>4, <1>5, RingAssumption
        <4>5. Slot(windex[v]) # s
          BY <4>3, <4>4, <1>1, SlotsApart
        <4>6. Slot(windex[v]) \in Slots
          BY <1>5, SlotInRange
        <4> HIDE DEF s
        <4> QED
          BY <4>1, <4>5, <4>6, <1>2, <1>5 DEF Contents
      <3> QED
        BY <3>1, <3>2, <3>3, <1>2, <1>3 DEF FillInv
    <2> QED
      BY <2>1, <2>2
  <1>9. HandInv(g)'
    <2>1. HandInv(g)
      BY DEF OrderInv
    <2>2. ASSUME (rpc = "readptr" /\ rcode # NIL) \/ rpc = "clear"
          PROVE  code'[Slot(next_read)] = rcode
      <3>1. code[Slot(next_read)] = rcode /\ rcode # NIL
        BY <2>1, <2>2 DEF HandInv
      <3>2. Slot(next_read) # s /\ Slot(next_read) \in Slots
        BY <3>1, <1>1, <1>4, SlotInRange
      <3> HIDE DEF s
      <3> QED
        BY <3>1, <3>2, <1>2, <1>5 DEF Contents
    <2> QED
      BY <2>1, <2>2, <1>2 DEF HandInv, reader
  <1> QED
    BY <1>6, <1>7, <1>8, <1>9 DEF OrderInv

(* Every step of a writer keeps its window, the output buffers and the     *)
(* order in the ring, and none finds the ring full.                        *)
LEMMA WriterNext ==
  ASSUME IsFiniteSet(Writers), Cardinality(Writers) * Window <= RingSize,
         StoredInv, NotFull, NEW g \in Logs, OrderInv(g),
         \A v \in Writers : Windowed(v) /\ QueueInv(v),
         NEW w \in Writers, WriterStep(w)
  PROVE  /\ NotFull'
         /\ \A v \in Writers : Windowed(v)' /\ QueueInv(v)'
         /\ \E h \in Logs : OrderInv(h)'
  <1>1. FillInv(g, w)
    BY DEF OrderInv
  <1>2. /\ NotFull'
        /\ \A v \in Writers : QueueInv(v)'
        /\ pc[w] # "inc" => Reserved' = Reserved
        /\ pc[w] = "inc" => Reserved' = [Reserved EXCEPT ![w] = Reserved[w] + 1]
    BY <1>1, WriterQueues DEF FillInv
  <1>a. received \in [Writers -> Nat] /\ submitted \in [Writers -> Nat]
    BY RingAssumption DEF StoredInv, TypeOK, HistoryType
  <1>b. received' = received
    BY DEF WriterStep, SendStep, Submit, Retry, CheckFull, ReserveIndex,
       LoadNextRead, CheckRoom, SetFull, WritePtr, WriteCode, ReleaseIndex,
       SendNotice
  <1>3. ASSUME NEW v \in Writers PROVE Windowed(v)'
    <2>1. CASE Submit(w)
      BY <2>1, <1>a, <1>b, RingAssumption DEF Submit, Windowed
    <2>2. CASE Retry(w) \/ SendStep(w)
      <3>1. submitted' = submitted
        BY <2>2 DEF SendStep, Retry, CheckFull, ReserveIndex, LoadNextRead,
           CheckRoom, SetFull, WritePtr, WriteCode, ReleaseIndex, SendNotice
      <3> QED
        BY <3>1, <1>b DEF Windowed
    <2> QED
      BY <2>1, <2>2 DEF WriterStep
  <1>4. \E h \in Logs : OrderInv(h)'
    <2>0. ASSUME UNCHANGED <<next_read, next_write_reserve, code, ptr, reader>>,
                 pc[w] # "inc", FillInv(g, w)'
          PROVE  OrderInv(g)'
      BY <2>0, <1>2, <1>b, RingKept
    <2>1. CASE Submit(w) \/ Retry(w) \/ CheckFull(w) \/ ReleaseIndex(w)
               \/ SendNotice(w)
      <3>1. /\ UNCHANGED <<next_read, next_write_reserve, code, ptr, reader>>
            /\ pc[w] # "inc" /\ pc'[w] \notin Filling
        BY <2>1 DEF Submit, Retry, CheckFull, ReleaseIndex, SendNotice,
           SendFailed, SendSucceeded, Goto, ring, Filling, StoredInv, TypeOK,
           WriterType
      <3>2. FillInv(g, w)'
        BY <3>1 DEF FillInv, Filling
      <3> QED
        BY <2>0, <3>1, <3>2
    <2>2. CASE ReserveIndex(w)
      <3>1. pc[w] = "inc"
        BY <2>2 DEF ReserveIndex
      <3>2. /\ Reserved \in [Writers -> Nat]
            /\ \A v \in Writers : Reserved[v] <= submitted[v]
        BY ReservedType
      <3>3. /\ Reserved' \in [Writers -> Nat]
            /\ \A v \in Writers : Reserved'[v] <= submitted[v]
        <4>1. wmsg[w][2] \in Nat /\ wmsg[w][2] <= submitted[w]
          BY <3>1, CurrentMsg
        <4>2. Reserved[w] = wmsg[w][2] - 1
          BY <3>1 DEF Reserved
        <4>3. Reserved[w] + 1 <= submitted[w]
          BY <4>1, <4>2
        <4> QED
          BY <1>2, <3>1, <3>2, <4>3
      <3>4. \A v \in Writers : Reserved'[v] <= received[v] + Window
        BY <1>a, <3>3, RingAssumption DEF Windowed
      <3> QED
        BY <2>2, <1>2, <3>1, <3>3, <3>4, ReserveOrder
    <2>3. CASE LoadNextRead(w)
      <3>1. /\ next_read \in Nat /\ next_write_reserve \in Nat /\ Done \in Nat
            /\ Done <= next_read /\ next_write_reserve <= Done + RingSize
        BY Room
      <3>2. /\ pc[w] = "load" /\ pc'[w] = "full2" /\ wread'[w] = next_read
            /\ UNCHANGED <<next_read, next_write_reserve, code, ptr, reader,
                           wmsg, windex>>
        BY <2>3 DEF LoadNextRead, Goto, ring, StoredInv, TypeOK, WriterType
      <3>3. windex[w] \in Nat /\ windex[w] < next_write_reserve
        BY <3>2, <1>1 DEF FillInv, Filling, StoredInv, TypeOK, WriterType
      <3>4. windex[w] - next_read <= RingSize - 1
        BY <3>1, <3>3, RingAssumption
      <3>5. FillInv(g, w)'
        BY <3>2, <3>4, <1>1 DEF FillInv, Filling, FirstUnread, reader
      <3> QED
        BY <2>0, <3>2, <3>5
    <2>4. CASE CheckRoom(w)
      <3>1. ~NoRoom(w)
        <4>1. /\ windex[w] - wread[w] <= RingSize - 1
              /\ windex[w] - wread[w] \in Int
          BY <2>4, <1>1 DEF CheckRoom, FillInv, StoredInv, TypeOK, WriterType
        <4> QED
          BY <4>1, RingAssumption DEF NoRoom
      <3>2. /\ pc[w] = "full2" /\ pc'[w] = "ptr"
            /\ UNCHANGED <<next_read, next_write_reserve, code, ptr, reader,
                           wmsg, windex>>
        BY <2>4, <3>1 DEF CheckRoom, Goto, ring, NotFull, StoredInv, TypeOK,
           WriterType
      <3>3. FillInv(g, w)'
        BY <3>2, <1>1 DEF FillInv, Filling, FirstUnread, reader
      <3> QED
        BY <2>0, <3>2, <3>3
    <2>5. CASE SetFull(w)
      BY <2>5 DEF SetFull, NotFull
    <2>6. CASE WritePtr(w)
      <3>1. pc[w] # "inc"
        BY <2>6 DEF WritePtr
      <3> QED
        BY <2>6, <3>1, <1>2, WritePtrOrder
    <2>7. CASE WriteCode(w)
      <3>1. pc[w] # "inc"
        BY <2>7 DEF WriteCode
      <3> QED
        BY <2>7, <3>1, <1>2, WriteCodeOrder
    <2> QED
      BY <2>1, <2>2, <2>3, <2>4, <2>5, <2>6, <2>7 DEF WriterStep, SendStep
  <1> QED
    BY <1>2, <1>3, <1>4

-----------------------------------------------------------------------------
(************************** the steps of the reader ************************)

(* A step of the reader leaves the output buffers alone. *)
LEMMA QueuesKept ==
  ASSUME UNCHANGED <<writer, submitted>>, \A v \in Writers : QueueInv(v)
  PROVE  (\A v \in Writers : QueueInv(v)') /\ Reserved' = Reserved
  BY DEF QueueInv, Continues, Reserved, writer

(* The steps that only load: what the reader has loaded is what the index  *)
(* was reserved for, because the pointer was stored before the code.       *)
LEMMA LoadOrder ==
  ASSUME StoredInv, NotFull, NEW g \in Logs, OrderInv(g),
         \A v \in Writers : Windowed(v) /\ QueueInv(v),
         \/ StartReader \/ TakeNotice \/ CheckReleased \/ ReadCode \/ ReadPtr
         \/ IfFull \/ BecomeRunning
  PROVE  /\ NotFull'
         /\ \A v \in Writers : Windowed(v)' /\ QueueInv(v)'
         /\ OrderInv(g)'
  <1> USE DEF StoredInv, TypeOK, RingType, ReaderType
  <1>1. UNCHANGED <<ring, writer, submitted, received>>
    BY DEF StartReader, TakeNotice, CheckReleased, ReadCode, ReadPtr, IfFull,
       BecomeRunning, reader
  <1>2. NotFull'
    BY <1>1 DEF StartReader, TakeNotice, CheckReleased, ReadCode, ReadPtr,
       IfFull, BecomeRunning, reader, ring, writer, NotFull
  <1>3. Done' = Done /\ FirstUnread' = FirstUnread
    BY <1>1 DEF StartReader, TakeNotice, CheckReleased, ReadCode, ReadPtr,
       IfFull, BecomeRunning, reader, ring, Done, FirstUnread
  <1>4. (\A v \in Writers : QueueInv(v)') /\ Reserved' = Reserved
    BY <1>1, QueuesKept
  <1>5. \A v \in Writers : Windowed(v)'
    BY <1>1 DEF Windowed
  <1>6. LogInv(g, Done', next_write_reserve', received', Reserved')
    BY <1>1, <1>3, <1>4 DEF OrderInv, ring
  <1>7. HoldsInv(g, FirstUnread', next_write_reserve', code', ptr')
    BY <1>1, <1>3 DEF OrderInv, ring
  <1>8. ASSUME NEW v \in Writers PROVE FillInv(g, v)'
    BY <1>1, <1>3 DEF OrderInv, FillInv, ring, writer
  <1>9. HandInv(g)'
    <2>1. HandInv(g) /\ HoldsInv(g, FirstUnread, next_write_reserve, code, ptr)
      BY DEF OrderInv
    <2>2. CASE StartReader \/ TakeNotice \/ CheckReleased \/ IfFull
      BY <2>1, <2>2, <1>1 DEF StartReader, TakeNotice, CheckReleased, IfFull,
         HandInv, NotFull, ring
    <2>3. CASE BecomeRunning
      BY <2>1, <2>3, <1>1 DEF BecomeRunning, HandInv, ring, reader
    <2>4. CASE ReadCode
      <3>1. /\ rpc = "readcode" /\ rpc' = "readptr" /\ read_index = next_read
            /\ rcode' = code[Slot(next_read)] /\ FirstUnread = next_read
            /\ read_index' = read_index
        BY <2>1, <2>4 DEF ReadCode, HandInv, FirstUnread
      <3>2. ASSUME rcode' # NIL
            PROVE  next_read < next_write_reserve /\ rcode' = g[next_read]
        <4>1. next_read < next_write_reserve
          <5> SUFFICES ASSUME ~(next_read < next_write_reserve) PROVE FALSE
            OBVIOUS
          <5>1. next_read \in next_write_reserve..(next_read + RingSize - 1)
            BY RingAssumption
          <5> QED
            BY <2>1, <3>1, <3>2, <5>1 DEF HoldsInv
        <4>2. next_read \in next_read..(next_write_reserve - 1)
          BY <4>1
        <4> QED
          BY <2>1, <3>1, <3>2, <4>1, <4>2 DEF HoldsInv
      <3> QED
        BY <1>1, <3>1, <3>2 DEF HandInv, ring
    <2>5. CASE ReadPtr
      <3>1. /\ rpc = "readptr" /\ read_index = next_read
            /\ rptr' = ptr[Slot(next_read)] /\ FirstUnread = next_read
            /\ read_index' = read_index /\ rcode' = rcode
            /\ rpc' = IF rcode = NIL THEN "check" ELSE "clear"
        BY <2>1, <2>5 DEF ReadPtr, HandInv, FirstUnread
      <3>2. ASSUME rcode # NIL
            PROVE  /\ next_read < next_write_reserve /\ rcode = g[next_read]
                   /\ code[Slot(next_read)] = rcode /\ rptr' = rcode
        <4>1. /\ next_read < next_write_reserve /\ rcode = g[next_read]
              /\ code[Slot(next_read)] = rcode
          BY <2>1, <3>1, <3>2 DEF HandInv
        <4>2. next_read \in next_read..(next_write_reserve - 1)
          BY <4>1
        <4> QED
          BY <2>1, <3>1, <3>2, <4>1, <4>2 DEF HoldsInv
      <3>3. CASE rcode = NIL
        BY <1>1, <3>1, <3>3 DEF HandInv, ring
      <3>4. CASE rcode # NIL
        BY <1>1, <3>1, <3>2, <3>4 DEF HandInv, ring
      <3> QED
        BY <3>3, <3>4
    <2> QED
      BY <2>2, <2>3, <2>4, <2>5
  <1> QED
    BY <1>2, <1>4, <1>5, <1>6, <1>7, <1>8, <1>9 DEF OrderInv

(* in->code[i] = NIL: the slot that is given back is the reader's own. *)
LEMMA ClearOrder ==
  ASSUME StoredInv, NotFull, NEW g \in Logs, OrderInv(g),
         \A v \in Writers : Windowed(v) /\ QueueInv(v), ClearSlot
  PROVE  /\ NotFull'
         /\ \A v \in Writers : Windowed(v)' /\ QueueInv(v)'
         /\ OrderInv(g)'
  <1> DEFINE s == Slot(next_read)
  <1>1. HandInv(g) /\ HoldsInv(g, FirstUnread, next_write_reserve, code, ptr)
    BY DEF OrderInv
  <1>2. /\ rpc = "clear" /\ rpc' = "advance" /\ read_index = next_read
        /\ read_index' = next_read + 1
        /\ code' = [code EXCEPT ![s] = NIL]
        /\ UNCHANGED <<next_read, next_write_reserve, full, ptr, rcode, rptr,
                       writer, submitted, received>>
        /\ FirstUnread = next_read /\ FirstUnread' = next_read + 1
        /\ Done' = Done
    BY <1>1 DEF ClearSlot, HandInv, FirstUnread, Done
  <1>3. /\ next_read < next_write_reserve /\ rcode = g[next_read]
        /\ code[s] = rcode /\ rcode # NIL /\ rptr = rcode
    BY <1>1, <1>2 DEF HandInv
  <1>4. /\ next_read \in Nat /\ next_write_reserve \in Nat
        /\ code \in Contents /\ windex \in [Writers -> Nat] /\ s \in Slots
    BY SlotInRange DEF StoredInv, TypeOK, RingType, WriterType, Contents
  <1>5. NotFull'
    BY <1>2 DEF NotFull, writer
  <1>6. (\A v \in Writers : QueueInv(v)') /\ Reserved' = Reserved
    BY <1>2, QueuesKept
  <1>7. \A v \in Writers : Windowed(v)'
    BY <1>2 DEF Windowed
  <1>8. LogInv(g, Done', next_write_reserve', received', Reserved')
    BY <1>2, <1>6 DEF OrderInv
  <1>9. HoldsInv(g, FirstUnread', next_write_reserve', code', ptr')
    <2>1. HoldsInv(g, next_read + 1, next_write_reserve,
                   [code EXCEPT ![Slot(next_read)] = NIL], ptr)
      BY <1>1, <1>2, <1>3, <1>4, HoldsClear
    <2> QED
      BY <2>1, <1>2
  <1>10. ASSUME NEW v \in Writers PROVE FillInv(g, v)'
    <2>1. FillInv(g, v)
      BY DEF OrderInv
    <2>2. ASSUME pc[v] \in Filling
          PROVE  next_read + 1 <= windex[v] /\ code'[Slot(windex[v])] = NIL
      <3>1. FirstUnread <= windex[v] /\ code[Slot(windex[v])] = NIL
        BY <2>1, <2>2 DEF FillInv
      <3>2. windex[v] # next_read
        BY <3>1, <1>3
      <3>3. Slot(windex[v]) \in Slots
        BY <1>4, SlotInRange
      <3> HIDE DEF s
      <3> QED
        BY <3>1, <3>2, <3>3, <1>2, <1>4 DEF Contents
    <2> QED
      BY <2>1, <2>2, <1>2 DEF FillInv, writer
  <1>11. HandInv(g)'
    BY <1>2, <1>3 DEF HandInv
  <1> QED
    BY <1>5, <1>6, <1>7, <1>8, <1>9, <1>10, <1>11 DEF OrderInv

(* atomic_fetch_add(&in->index.next_read, 1) *)
LEMMA AdvanceOrder ==
  ASSUME StoredInv, NotFull, NEW g \in Logs, OrderInv(g),
         \A v \in Writers : Windowed(v) /\ QueueInv(v), AdvanceRead
  PROVE  /\ NotFull'
         /\ \A v \in Writers : Windowed(v)' /\ QueueInv(v)'
         /\ OrderInv(g)'
  <1>1. HandInv(g)
    BY DEF OrderInv
  <1>0. next_read \in Nat /\ next_write_reserve \in Nat
    BY DEF StoredInv, TypeOK, RingType
  <1>2. /\ rpc = "advance" /\ rpc' = "handle" /\ read_index = next_read + 1
        /\ next_read' = next_read + 1
        /\ UNCHANGED <<next_write_reserve, full, code, ptr, read_index, rcode,
                       rptr, writer, submitted, received>>
        /\ FirstUnread' = FirstUnread /\ Done' = Done
    BY <1>0, <1>1 DEF AdvanceRead, HandInv, FirstUnread, Done
  <1>3. /\ next_read < next_write_reserve /\ rcode = g[next_read]
        /\ rptr = rcode
    BY <1>1, <1>2 DEF HandInv
  <1>5. NotFull'
    BY <1>2 DEF NotFull, writer
  <1>6. (\A v \in Writers : QueueInv(v)') /\ Reserved' = Reserved
    BY <1>2, QueuesKept
  <1>7. \A v \in Writers : Windowed(v)'
    BY <1>2 DEF Windowed
  <1>8. LogInv(g, Done', next_write_reserve', received', Reserved')
    BY <1>2, <1>6 DEF OrderInv
  <1>9. HoldsInv(g, FirstUnread', next_write_reserve', code', ptr')
    BY <1>2 DEF OrderInv
  <1>10. ASSUME NEW v \in Writers PROVE FillInv(g, v)'
    BY <1>2 DEF OrderInv, FillInv, writer
  <1>11. HandInv(g)'
    <2>1. next_read + 1 - 1 = next_read
      BY <1>0
    <2> QED
      BY <1>0, <1>2, <1>3, <2>1 DEF HandInv
  <1> QED
    BY <1>5, <1>6, <1>7, <1>8, <1>9, <1>10, <1>11 DEF OrderInv

(* What the handler is given is its writer's next message. *)
LEMMA HandledIsNext ==
  ASSUME StoredInv, NEW g \in Logs, OrderInv(g),
         \A v \in Writers : QueueInv(v), rpc = "handle"
  PROVE  /\ rptr = rcode /\ rptr \in Msgs
         /\ rptr[2] = received[rptr[1]] + 1 /\ rptr[2] <= Reserved[rptr[1]]
         /\ LogInv(g, next_read, next_write_reserve,
                   [received EXCEPT ![rptr[1]] = rptr[2]], Reserved)
  <1>1. /\ 0 < next_read /\ next_read <= next_write_reserve /\ rptr = rcode
        /\ rcode = g[next_read - 1]
    BY DEF OrderInv, HandInv
  <1>2. /\ next_read \in Nat /\ next_write_reserve \in Nat
        /\ received \in [Writers -> Nat]
    BY RingAssumption DEF StoredInv, TypeOK, RingType, HistoryType
  <1>3. Reserved \in [Writers -> Nat]
    BY ReservedType
  <1> DEFINE d == next_read - 1
  <1>4. d \in Nat /\ d < next_write_reserve /\ d + 1 = next_read
    BY <1>1, <1>2
  <1>5. LogInv(g, d, next_write_reserve, received, Reserved)
    BY DEF OrderInv, Done
  <1>6. rptr = g[d]
    BY <1>1
  <1> HIDE DEF d
  <1>7. /\ g[d] \in Msgs
        /\ g[d][2] = received[g[d][1]] + 1
        /\ g[d][2] <= Reserved[g[d][1]]
        /\ LogInv(g, d + 1, next_write_reserve,
                  [received EXCEPT ![g[d][1]] = g[d][2]], Reserved)
    BY <1>2, <1>3, <1>4, <1>5, LogHandle
  <1> QED
    BY <1>1, <1>4, <1>6, <1>7

(* The handler has run: its writer's window moves on by one message. *)
LEMMA HandleOrder ==
  ASSUME StoredInv, NotFull, NEW g \in Logs, OrderInv(g),
         \A v \in Writers : Windowed(v) /\ QueueInv(v), Handle
  PROVE  /\ NotFull'
         /\ \A v \in Writers : Windowed(v)' /\ QueueInv(v)'
         /\ OrderInv(g)'
  <1>1. /\ rpc = "handle" /\ rpc' = "check"
        /\ received' = [received EXCEPT ![rptr[1]] = rptr[2]]
        /\ UNCHANGED <<ring, read_index, rcode, rptr, writer, submitted>>
    BY DEF Handle
  <1>2. /\ rptr = rcode /\ rptr \in Msgs
        /\ rptr[2] = received[rptr[1]] + 1 /\ rptr[2] <= Reserved[rptr[1]]
        /\ LogInv(g, next_read, next_write_reserve,
                  [received EXCEPT ![rptr[1]] = rptr[2]], Reserved)
    BY <1>1, HandledIsNext
  <1>3. /\ Done' = next_read /\ FirstUnread' = FirstUnread
        /\ next_write_reserve' = next_write_reserve
    BY <1>1 DEF Done, FirstUnread, ring
  <1>5. NotFull'
    BY <1>1 DEF NotFull, writer, ring
  <1>6. (\A v \in Writers : QueueInv(v)') /\ Reserved' = Reserved
    BY <1>1, QueuesKept
  <1>7. ASSUME NEW v \in Writers PROVE Windowed(v)'
    <2>1. received \in [Writers -> Nat] /\ submitted \in [Writers -> Nat]
      BY RingAssumption DEF StoredInv, TypeOK, HistoryType
    <2>2. rptr[1] \in Writers /\ rptr[2] = received[rptr[1]] + 1
      BY <1>2, MsgParts
    <2>3. received'[v] \in Nat /\ received[v] <= received'[v]
      BY <2>1, <2>2, <1>1
    <2>4. submitted[v] <= received[v] + Window /\ submitted'[v] = submitted[v]
      BY <1>1 DEF Windowed
    <2> QED
      BY <2>1, <2>3, <2>4, RingAssumption DEF Windowed
  <1>8. LogInv(g, Done', next_write_reserve', received', Reserved')
    BY <1>1, <1>2, <1>3, <1>6
  <1>9. HoldsInv(g, FirstUnread', next_write_reserve', code', ptr')
    BY <1>1, <1>3 DEF OrderInv, ring
  <1>10. ASSUME NEW v \in Writers PROVE FillInv(g, v)'
    BY <1>1, <1>3 DEF OrderInv, FillInv, writer, ring
  <1>11. HandInv(g)'
    BY <1>1 DEF OrderInv, HandInv, ring
  <1> QED
    BY <1>5, <1>6, <1>7, <1>8, <1>9, <1>10, <1>11 DEF OrderInv

-----------------------------------------------------------------------------
(******************************* the theorems ******************************)

(* The zeroed ring: nothing is reserved, any g will do. *)
LEMMA MultiInit == Init => MultiInv
  <1> SUFFICES ASSUME Init PROVE MultiInv
    OBVIOUS
  <1>1. StoredInv
    BY StoredInit
  <1>2. NotFull
    BY DEF Init, NotFull
  <1>3. ASSUME NEW w \in Writers PROVE Windowed(w) /\ QueueInv(w)
    <2>1. /\ outbuf[w] = <<>> /\ submitted[w] = 0 /\ received[w] = 0
          /\ pc[w] = "idle"
      BY DEF Init
    <2>2. Len(outbuf[w]) = 0
      BY <2>1
    <2> QED
      BY <2>1, <2>2, RingAssumption DEF Windowed, QueueInv, Continues
  <1>4. PICK g \in Logs : g = [i \in Nat |-> NIL]
    BY DEF Logs
  <1>5. /\ next_write_reserve = 0 /\ Done = 0 /\ FirstUnread = 0
        /\ rpc = "off" /\ code = [i \in Slots |-> NIL]
        /\ received = [w \in Writers |-> 0]
    BY DEF Init, Done, FirstUnread
  <1>6. \A w \in Writers : Reserved[w] = 0 /\ received[w] = 0
    <2> SUFFICES ASSUME NEW w \in Writers
                 PROVE  Reserved[w] = 0 /\ received[w] = 0
      OBVIOUS
    <2>1. outbuf[w] = <<>> /\ submitted[w] = 0 /\ pc[w] = "idle"
      BY DEF Init
    <2>2. Len(outbuf[w]) = 0
      BY <2>1
    <2> QED
      BY <2>1, <2>2, <1>5 DEF Reserved
  <1>7. LogInv(g, Done, next_write_reserve, received, Reserved)
    BY <1>5, <1>6 DEF LogInv
  <1>8. HoldsInv(g, FirstUnread, next_write_reserve, code, ptr)
    <2>1. \A i \in 0..(0 + RingSize - 1) : code[Slot(i)] = NIL
      BY <1>5, SlotInRange, RingAssumption
    <2> QED
      BY <1>5, <2>1 DEF HoldsInv
  <1>9. \A w \in Writers : FillInv(g, w)
    BY DEF Init, FillInv, Filling
  <1>10. HandInv(g)
    BY <1>5 DEF HandInv
  <1> QED
    BY <1>1, <1>2, <1>3, <1>7, <1>8, <1>9, <1>10 DEF MultiInv, OrderInv

(* Every step keeps the invariant: the same g serves for all of them but   *)
(* the one that reserves an index.                                         *)
LEMMA MultiNext ==
  ASSUME IsFiniteSet(Writers), Cardinality(Writers) * Window <= RingSize
  PROVE  MultiInv /\ [Next]_vars => MultiInv'
  <1> SUFFICES ASSUME MultiInv, [Next]_vars PROVE MultiInv'
    OBVIOUS
  <1>1. StoredInv /\ NotFull /\ \A w \in Writers : Windowed(w) /\ QueueInv(w)
    BY DEF MultiInv
  <1>2. PICK g \in Logs : OrderInv(g)
    BY DEF MultiInv
  <1>3. StoredInv'
    BY <1>1, StoredNext
  <1>4. /\ NotFull'
        /\ \A w \in Writers : Windowed(w)' /\ QueueInv(w)'
        /\ \E h \in Logs : OrderInv(h)'
    <2>1. ASSUME NEW w \in Writers, WriterStep(w)
          PROVE  /\ NotFull'
                 /\ \A v \in Writers : Windowed(v)' /\ QueueInv(v)'
                 /\ \E h \in Logs : OrderInv(h)'
      BY <1>1, <1>2, <2>1, WriterNext
    <2>2. CASE \/ StartReader \/ TakeNotice \/ CheckReleased \/ ReadCode
               \/ ReadPtr \/ IfFull \/ BecomeRunning
      BY <1>1, <1>2, <2>2, LoadOrder
    <2>3. CASE ClearSlot
      BY <1>1, <1>2, <2>3, ClearOrder
    <2>4. CASE AdvanceRead
      BY <1>1, <1>2, <2>4, AdvanceOrder
    <2>5. CASE Handle
      BY <1>1, <1>2, <2>5, HandleOrder
    <2>6. CASE ResetReserve \/ AssertLoad \/ AssertCompare \/ ClearFull
      BY <1>1, <2>6 DEF ResetReserve, AssertLoad, AssertCompare, ClearFull,
         NotFull
    <2>7. CASE UNCHANGED vars
      <3>1. NotFull' /\ \A w \in Writers : Windowed(w)'
        BY <1>1, <2>7 DEF vars, ring, reader, writer, NotFull, Windowed
      <3>2. (\A v \in Writers : QueueInv(v)') /\ Reserved' = Reserved
        BY <1>1, <2>7, QueuesKept DEF vars
      <3>3. Done' = Done /\ FirstUnread' = FirstUnread
        BY <2>7 DEF vars, ring, reader, Done, FirstUnread
      <3>4. /\ LogInv(g, Done', next_write_reserve', received', Reserved')
            /\ HoldsInv(g, FirstUnread', next_write_reserve', code', ptr')
        BY <1>2, <2>7, <3>2, <3>3 DEF OrderInv, vars, ring
      <3>5. \A w \in Writers : FillInv(g, w)'
        BY <1>2, <2>7, <3>3 DEF OrderInv, FillInv, vars, ring, writer
      <3>6. HandInv(g)'
        BY <1>2, <2>7 DEF OrderInv, HandInv, vars, ring, reader
      <3>7. OrderInv(g)'
        BY <3>4, <3>5, <3>6 DEF OrderInv
      <3> QED
        BY <3>1, <3>2, <3>7
    <2> QED
      BY <2>1, <2>2, <2>3, <2>4, <2>5, <2>6, <2>7
      DEF Next, ReadStep, WriterStep
  <1> QED
    BY <1>3, <1>4 DEF MultiInv

(* The invariant of a ring with any number of writers. *)
THEOREM ManyWriters ==
  ASSUME IsFiniteSet(Writers), Cardinality(Writers) * Window <= RingSize
  PROVE  Spec => []MultiInv
  BY MultiInit, MultiNext, PTL DEF Spec

(* As long as the clients of all writers together keep no more messages    *)
(* unread than the ring has slots, no sender ever finds the ring full, in  *)
(* whatever order ipc_reserve_write_index is entered and left: the full    *)
(* flag, the output buffer it leads to and the reset stay out of use.      *)
THEOREM ManyWritersNeverFull ==
  ASSUME IsFiniteSet(Writers), Cardinality(Writers) * Window <= RingSize
  PROVE  Spec => []NeverFull
  <1>1. MultiInv => NeverFull
    BY DEF MultiInv, NotFull, NeverFull
  <1> QED
    BY <1>1, ManyWriters, PTL

(* ... and ipc_receive hands every handler the code and the pointer of one *)
(* message, its sender's next one, while no two senders share a slot.      *)
THEOREM ManyWritersSafe ==
  ASSUME IsFiniteSet(Writers), Cardinality(Writers) * Window <= RingSize
  PROVE  Spec => [](SlotIsFree /\ NotTorn /\ InOrder)
  <1> SUFFICES ASSUME MultiInv PROVE SlotIsFree /\ NotTorn /\ InOrder
    BY ManyWriters, PTL
  <1>1. StoredInv /\ \A w \in Writers : Windowed(w) /\ QueueInv(w)
    BY DEF MultiInv
  <1>2. PICK g \in Logs : OrderInv(g)
    BY DEF MultiInv
  <1>3. SlotIsFree
    <2> SUFFICES ASSUME NEW w \in Writers, pc[w] \in {"ptr", "code"}
                 PROVE  /\ code[Slot(windex[w])] = NIL
                        /\ \A v \in Writers \ {w} :
                             pc[v] \in {"ptr", "code"} =>
                               Slot(windex[v]) # Slot(windex[w])
      BY DEF SlotIsFree
    <2>1. ASSUME NEW v \in Writers, pc[v] \in {"ptr", "code"}
          PROVE  /\ FirstUnread <= windex[v] /\ windex[v] < next_write_reserve
                 /\ g[windex[v]] = wmsg[v] /\ code[Slot(windex[v])] = NIL
                 /\ windex[v] \in Nat /\ wmsg[v] = <<v, wmsg[v][2]>>
      <3>1. FillInv(g, v) /\ pc[v] \in Filling /\ windex[v] \in Nat
        BY <1>1, <1>2, <2>1 DEF OrderInv, Filling, StoredInv, TypeOK, WriterType
      <3>2. wmsg[v] = <<v, wmsg[v][2]>>
        BY <1>1, <2>1, CurrentMsg
      <3> QED
        BY <3>1, <3>2 DEF FillInv
    <2>2. ASSUME NEW v \in Writers \ {w}, pc[v] \in {"ptr", "code"}
          PROVE  Slot(windex[v]) # Slot(windex[w])
      <3>1. windex[v] # windex[w]
        BY <2>1, <2>2
      <3>2. /\ next_write_reserve \in Nat /\ FirstUnread \in Nat
            /\ Done \in Nat /\ Done <= FirstUnread
            /\ next_write_reserve <= Done + RingSize
        BY <1>1, <1>2, Room
      <3>3. /\ FirstUnread <= windex[v] /\ windex[v] < next_write_reserve
            /\ FirstUnread <= windex[w] /\ windex[w] < next_write_reserve
            /\ windex[v] \in Nat /\ windex[w] \in Nat
        BY <2>1, <2>2
      <3>4. /\ windex[v] \in FirstUnread..(FirstUnread + RingSize - 1)
            /\ windex[w] \in FirstUnread..(FirstUnread + RingSize - 1)
        BY <3>2, <3>3, RingAssumption
      <3> QED
        BY <3>1, <3>2, <3>4, SlotsApart
    <2> QED
      BY <2>1, <2>2
  <1>4. rpc = "handle" => /\ rptr = rcode /\ rptr \in Msgs
                          /\ rptr[2] = received[rptr[1]] + 1
    BY <1>1, <1>2, HandledIsNext
  <1>5. NotTorn
    BY <1>4, MsgNotNil DEF NotTorn
  <1>6. InOrder
    BY <1>4 DEF InOrder
  <1> QED
    BY <1>3, <1>5, <1>6

(* Submit is the channel's Send, Handle its Deliver, and no other step of  *)
(* any thread is seen in the channel.                                      *)
LEMMA ManyStepRefines ==
  ASSUME MultiInv, [Next]_vars
  PROVE  [Channel!Next]_(Channel!vars)
  <1>1. StoredInv /\ \A w \in Writers : QueueInv(w)
    BY DEF MultiInv
  <1>2. PICK g \in Logs : OrderInv(g)
    BY DEF MultiInv
  <1>3. ASSUME NEW w \in Writers, Submit(w) PROVE Channel!Next
    BY <1>3 DEF Submit, Channel!Next, Channel!Send
  <1>4. CASE Handle
    <2>1. /\ rptr \in Msgs /\ rptr[2] = received[rptr[1]] + 1
          /\ rptr[2] <= Reserved[rptr[1]]
      BY <1>1, <1>2, <1>4, HandledIsNext DEF Handle
    <2>2. PICK w \in Writers : w = rptr[1]
      BY <2>1, MsgParts
    <2>3. /\ Reserved[w] \in Nat /\ Reserved[w] <= submitted[w]
          /\ submitted[w] \in Nat /\ received[w] \in Nat
      BY <1>1, ReservedType, RingAssumption DEF StoredInv, TypeOK, HistoryType
    <2>4. received[w] < submitted[w]
      BY <2>1, <2>2, <2>3
    <2>5. received' = [received EXCEPT ![w] = received[w] + 1]
      BY <1>4, <2>1, <2>2 DEF Handle
    <2> QED
      BY <1>4, <2>4, <2>5 DEF Handle, Channel!Next, Channel!Deliver
  <1>5. CASE UNCHANGED <<submitted, received>>
    BY <1>5 DEF Channel!vars
  <1>6. ASSUME NEW w \in Writers, Retry(w) \/ SendStep(w)
        PROVE  UNCHANGED <<submitted, received>>
    BY <1>6 DEF Retry, SendStep, CheckFull, ReserveIndex, LoadNextRead,
       CheckRoom, SetFull, WritePtr, WriteCode, ReleaseIndex, SendNotice
  <1>7. CASE ReadStep \/ BecomeRunning
    BY <1>4, <1>5, <1>7 DEF ReadStep, StartReader, TakeNotice, CheckReleased,
       ReadCode, ReadPtr, ClearSlot, AdvanceRead, IfFull, ResetReserve,
       AssertLoad, AssertCompare, ClearFull, BecomeRunning
  <1>8. CASE UNCHANGED vars
    BY <1>5, <1>8 DEF vars
  <1> QED
    BY <1>3, <1>5, <1>6, <1>7, <1>8 DEF Next

(* A ring that any number of writers share implements the channel, exactly *)
(* once and in order per sender, in every interleaving of their stores.    *)
THEOREM ManyWritersRefine ==
  ASSUME IsFiniteSet(Writers), Cardinality(Writers) * Window <= RingSize
  PROVE  Spec => ImplementsChannel
  <1>1. Init => Channel!Init
    BY DEF Init, Channel!Init
  <1>2. MultiInv /\ [Next]_vars => [Channel!Next]_(Channel!vars)
    BY ManyStepRefines
  <1> QED
    BY <1>1, <1>2, ManyWriters, PTL DEF Spec, ImplementsChannel, Channel!Spec
=============================================================================
