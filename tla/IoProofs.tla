------------------------------ MODULE IoProofs ------------------------------
(***************************************************************************)
(* Proofs about the IO coroutines, for every vector asked for, any number  *)
(* of operations and each of the coroutines the program runs on them.      *)
(***************************************************************************)
EXTENDS MCIo, SequenceTheorems, WellFoundedInduction, TLAPS

(***************************** sums of lengths *****************************)

\* A set of numbers has a least one.
LEMMA LeastNumber ==
  ASSUME NEW S \in SUBSET Nat, S # {}
  PROVE  \E i \in S : \A j \in S : i <= j
  <1>1. PICK i \in S : \A j \in S : ~(<<j, i>> \in OpToRel(<, Nat))
    BY WFMin, NatLessThanWellFounded
  <1>2. \A j \in S : ~(j < i)
    BY <1>1 DEF OpToRel
  <1> QED
    BY <1>2

\* f[i] is the sum of the first i lengths of v.
PartialSums(v, f, k) ==
  /\ f \in [0..k -> Nat] /\ f[0] = 0
  /\ \A i \in 1..k : f[i] = f[i - 1] + v[i]

\* The sums of the first lengths exist, however many there are.
LEMMA PartialSumsExist ==
  ASSUME NEW v \in Seq(Nat), NEW k \in 0..Len(v)
  PROVE  \E f : PartialSums(v, f, k)
  <1> DEFINE Missing == {i \in 0..Len(v) : ~ \E f : PartialSums(v, f, i)}
  <1> SUFFICES ASSUME Missing # {}
               PROVE  FALSE
    OBVIOUS
  <1>1. Missing \subseteq Nat
    OBVIOUS
  <1>2. PICK m \in Missing : \A j \in Missing : m <= j
    <2> HIDE DEF Missing
    <2> QED
      BY <1>1, LeastNumber
  <1>3. m \in 0..Len(v)
    OBVIOUS
  <1>4. m # 0
    <2>1. PartialSums(v, [i \in 0..0 |-> 0], 0)
      BY DEF PartialSums
    <2> QED
      BY <2>1
  <1>5. m - 1 \in 0..Len(v) /\ m - 1 \notin Missing
    BY <1>2, <1>3, <1>4
  <1>6. PICK f : PartialSums(v, f, m - 1)
    BY <1>5
  <1>7. v[m] \in Nat
    BY <1>3, <1>4
  <1> DEFINE g == [i \in 0..m |-> IF i = m THEN f[m - 1] + v[m] ELSE f[i]]
  <1>8. PartialSums(v, g, m)
    <2>1. m \in Nat \ {0}
      BY <1>3, <1>4
    <2>2. /\ f \in [0..(m - 1) -> Nat] /\ f[0] = 0
          /\ \A i \in 1..(m - 1) : f[i] = f[i - 1] + v[i]
      BY <1>6 DEF PartialSums
    <2>3. \A i \in 0..m : i # m => i \in 0..(m - 1)
      BY <2>1
    <2>4. f[m - 1] \in Nat
      BY <2>1, <2>2
    <2>5. g \in [0..m -> Nat]
      BY <1>7, <2>2, <2>3, <2>4
    <2>6. g[0] = 0 /\ g[m] = f[m - 1] + v[m] /\ g[m - 1] = f[m - 1]
      BY <2>1, <2>2
    <2>7. \A i \in 1..(m - 1) : g[i] = f[i] /\ g[i - 1] = f[i - 1]
      BY <2>1
    <2> HIDE DEF g
    <2>8. \A i \in 1..m : i = m \/ i \in 1..(m - 1)
      BY <2>1
    <2>9. \A i \in 1..m : g[i] = g[i - 1] + v[i]
      BY <2>2, <2>6, <2>7, <2>8
    <2> QED
      BY <2>5, <2>6, <2>9 DEF PartialSums
  <1> QED
    BY <1>8

\* What the recursive function of Sum computes.
LEMMA SumIs ==
  ASSUME NEW v \in Seq(Nat)
  PROVE  \E f : PartialSums(v, f, Len(v)) /\ Sum(v) = f[Len(v)]
  <1> DEFINE Is(s) == s = [i \in 0..Len(v) |->
                             IF i = 0 THEN 0 ELSE s[i - 1] + v[i]]
             t == CHOOSE s : Is(s)
  <1>1. PICK f : PartialSums(v, f, Len(v))
    <2>1. Len(v) \in 0..Len(v)
      OBVIOUS
    <2> QED
      BY <2>1, PartialSumsExist
  <1>2. Is(f)
    BY <1>1 DEF PartialSums
  <1>3. Is(t)
    BY <1>2
  <1>4. Sum(v) = t[Len(v)]
    BY DEF Sum
  <1> HIDE DEF t
  <1>5. DOMAIN t = 0..Len(v) /\ t[0] = 0
    BY <1>3
  <1>6. \A i \in 1..Len(v) : t[i] = t[i - 1] + v[i]
    BY <1>3
  <1>7. \A i \in 0..Len(v) : t[i] = f[i]
    <2> DEFINE Differ == {i \in 0..Len(v) : t[i] # f[i]}
    <2> SUFFICES ASSUME Differ # {}
                 PROVE  FALSE
      OBVIOUS
    <2>1. Differ \subseteq Nat
      OBVIOUS
    <2>2. PICK m \in Differ : \A j \in Differ : m <= j
      <3> HIDE DEF Differ
      <3> QED
        BY <2>1, LeastNumber
    <2>3. m # 0
      BY <1>1, <1>5 DEF PartialSums
    <2>4. m \in 1..Len(v) /\ m - 1 \in 0..Len(v) /\ m - 1 \notin Differ
      BY <2>2, <2>3
    <2> QED
      BY <1>1, <1>6, <2>4 DEF PartialSums
  <1> QED
    BY <1>1, <1>4, <1>7

\* Sums of the same lengths are the same.
LEMMA PartialSumsSame ==
  ASSUME NEW v, NEW w, NEW f, NEW g, NEW k \in Nat, NEW l \in Nat,
         PartialSums(v, f, k), PartialSums(w, g, l), k <= l,
         \A j \in 1..k : v[j] = w[j]
  PROVE  f[k] = g[k]
  <1> DEFINE Differ == {i \in 0..k : f[i] # g[i]}
  <1> SUFFICES ASSUME Differ # {}
               PROVE  FALSE
    OBVIOUS
  <1>1. Differ \subseteq Nat
    OBVIOUS
  <1>2. PICK m \in Differ : \A j \in Differ : m <= j
    <2> HIDE DEF Differ
    <2> QED
      BY <1>1, LeastNumber
  <1>3. m # 0
    BY DEF PartialSums
  <1>4. m \in 1..k /\ m - 1 \in 0..k /\ m - 1 \notin Differ
    BY <1>2, <1>3
  <1> QED
    BY <1>4 DEF PartialSums

\* Shorter lengths, the first d of them left out, have the smaller sum.
LEMMA SumDominated ==
  ASSUME NEW v \in Seq(Nat), NEW w \in Seq(Nat), NEW d \in Nat,
         Len(v) = Len(w) + d, \A j \in 1..Len(w) : w[j] <= v[j + d]
  PROVE  Sum(w) <= Sum(v)
  <1>1. PICK f : PartialSums(v, f, Len(v)) /\ Sum(v) = f[Len(v)]
    BY SumIs
  <1>2. PICK g : PartialSums(w, g, Len(w)) /\ Sum(w) = g[Len(w)]
    BY SumIs
  <1> DEFINE k == Len(w)
             Above == {i \in 0..k : ~(g[i] <= f[i + d])}
  <1>3. k \in Nat /\ Len(v) = k + d
    OBVIOUS
  <1>4. \A i \in 1..k : w[i] \in Nat /\ v[i + d] \in Nat /\ w[i] <= v[i + d]
    BY <1>3
  <1>6. PartialSums(v, f, k + d) /\ PartialSums(w, g, k)
    BY <1>1, <1>2, <1>3
  <1>7. Sum(v) = f[k + d] /\ Sum(w) = g[k]
    BY <1>1, <1>2, <1>3
  <1> HIDE DEF k
  <1>5. Above = {}
    <2> SUFFICES ASSUME Above # {}
                 PROVE  FALSE
      OBVIOUS
    <2>1. Above \subseteq Nat
      BY <1>3
    <2>2. PICK m \in Above : \A j \in Above : m <= j
      <3> HIDE DEF Above
      <3> QED
        BY <2>1, LeastNumber
    <2>3. m # 0
      BY <1>3, <1>6 DEF PartialSums
    <2>4. m \in 1..k /\ m - 1 \in 0..k /\ m - 1 \notin Above
      BY <1>3, <2>2, <2>3
    <2>5. g[m] = g[m - 1] + w[m] /\ g[m - 1] \in Nat
      BY <1>3, <1>6, <2>4 DEF PartialSums
    <2>6. f[m + d] = f[m - 1 + d] + v[m + d] /\ f[m - 1 + d] \in Nat
      <3>1. m + d \in 1..(k + d) /\ m - 1 + d \in 0..(k + d)
        BY <1>3, <2>4
      <3>2. m + d - 1 = m - 1 + d
        BY <1>3, <2>4
      <3> QED
        BY <1>3, <1>6, <3>1, <3>2 DEF PartialSums
    <2>7. g[m - 1] <= f[m - 1 + d] /\ ~(g[m] <= f[m + d])
      BY <2>2, <2>4
    <2>8. w[m] \in Nat /\ v[m + d] \in Nat /\ w[m] <= v[m + d]
      BY <1>4, <2>4
    <2> DEFINE a == g[m - 1]
               b == w[m]
               x == f[m - 1 + d]
               y == v[m + d]
    <2>9. /\ a \in Nat /\ b \in Nat /\ x \in Nat /\ y \in Nat
          /\ a <= x /\ b <= y /\ ~(a + b <= x + y)
      BY <2>5, <2>6, <2>7, <2>8
    <2> HIDE DEF a, b, x, y
    <2> QED
      BY <2>9
  <1> QED
    <2>1. k \in 0..k
      BY <1>3
    <2>2. g[k] <= f[k + d]
      BY <1>5, <2>1
    <2> QED
      BY <1>7, <2>2

\* An entry of a vector.
Entry == [base : Nat, len : Nat]
Lengths(e) == [i \in DOMAIN e |-> e[i].len]

\* The lengths of entries are lengths.
LEMMA LengthsType ==
  ASSUME NEW e \in Seq(Entry)
  PROVE  /\ Lengths(e) \in Seq(Nat) /\ Len(Lengths(e)) = Len(e)
         /\ \A i \in 1..Len(e) : Lengths(e)[i] = e[i].len
         /\ Left(e) = Sum(Lengths(e)) /\ Left(e) \in Nat
  <1>1. \A i \in 1..Len(e) : e[i].len \in Nat
    <2>1. \A i \in 1..Len(e) : e[i] \in Entry
      OBVIOUS
    <2> QED
      BY <2>1 DEF Entry
  <1>2. Lengths(e) \in Seq(Nat) /\ Len(Lengths(e)) = Len(e)
    BY <1>1 DEF Lengths
  <1>3. Left(e) = Sum(Lengths(e))
    BY DEF Left, Lengths
  <1>4. Sum(Lengths(e)) \in Nat
    <2>1. PICK f : /\ PartialSums(Lengths(e), f, Len(Lengths(e)))
                   /\ Sum(Lengths(e)) = f[Len(Lengths(e))]
      BY <1>2, SumIs
    <2>2. Len(Lengths(e)) \in 0..Len(Lengths(e))
      BY <1>2
    <2> QED
      BY <2>1, <2>2 DEF PartialSums
  <1> QED
    BY <1>2, <1>3, <1>4 DEF Lengths

\* What is left of the first entries of a vector are its partial sums.
LEMMA LeftOfFirst ==
  ASSUME NEW e \in Seq(Entry)
  PROVE  \E f : /\ PartialSums(Lengths(e), f, Len(e))
                /\ Left(e) = f[Len(e)]
                /\ \A i \in 0..Len(e) : Left(SubSeq(e, 1, i)) = f[i]
  <1>1. PICK f : PartialSums(Lengths(e), f, Len(e)) /\ Left(e) = f[Len(e)]
    BY LengthsType, SumIs
  <1>2. ASSUME NEW i \in 0..Len(e)
        PROVE  Left(SubSeq(e, 1, i)) = f[i]
    <2> DEFINE p == SubSeq(e, 1, i)
    <2>1. p \in Seq(Entry) /\ Len(p) = i /\ \A j \in 1..i : p[j] = e[j]
      OBVIOUS
    <2> HIDE DEF p
    <2>2. PICK g : PartialSums(Lengths(p), g, Len(p)) /\ Left(p) = g[Len(p)]
      BY <2>1, LengthsType, SumIs
    <2>3. \A j \in 1..i : Lengths(p)[j] = Lengths(e)[j]
      BY <2>1 DEF Lengths
    <2>4. g[i] = f[i]
      <3>1. i \in Nat /\ Len(e) \in Nat /\ i <= Len(e)
        OBVIOUS
      <3>2. PartialSums(Lengths(p), g, i)
        BY <2>1, <2>2
      <3> DEFINE a == Lengths(p)
                 b == Lengths(e)
      <3>3. /\ PartialSums(a, g, i) /\ PartialSums(b, f, Len(e))
            /\ \A j \in 1..i : a[j] = b[j]
        BY <1>1, <2>3, <3>2
      <3> HIDE DEF a, b
      <3> QED
        BY <3>1, <3>3, PartialSumsSame
    <2>5. Left(p) = f[i]
      BY <2>1, <2>2, <2>4
    <2> QED
      BY <2>5 DEF p
  <1> QED
    BY <1>1, <1>2

\* Sums are numbers; the sum of nothing is 0, and of one length that length.
LEMMA SumSmall ==
  ASSUME NEW v \in Seq(Nat)
  PROVE  /\ Sum(v) \in Nat
         /\ Len(v) = 0 => Sum(v) = 0
         /\ Len(v) = 1 => Sum(v) = v[1]
  <1>1. PICK f : PartialSums(v, f, Len(v)) /\ Sum(v) = f[Len(v)]
    BY SumIs
  <1>2. Len(v) \in 0..Len(v)
    OBVIOUS
  <1>3. Sum(v) \in Nat
    BY <1>1, <1>2 DEF PartialSums
  <1>4. Len(v) = 0 => Sum(v) = 0
    BY <1>1 DEF PartialSums
  <1>5. Len(v) = 1 => Sum(v) = v[1]
    <2> SUFFICES ASSUME Len(v) = 1
                 PROVE  f[1] = v[1]
      BY <1>1
    <2>1. f[1] = f[0] + v[1] /\ f[0] = 0 /\ v[1] \in Nat
      BY <1>1 DEF PartialSums
    <2> QED
      BY <2>1
  <1> QED
    BY <1>3, <1>4, <1>5

\* The entries an operation starts with hold what was asked for.
LEMMA EntriesType ==
  ASSUME NEW v \in Seq(Nat)
  PROVE  /\ Entries(v) \in Seq(Entry) /\ Len(Entries(v)) = Len(v)
         /\ Left(Entries(v)) = Sum(v)
         /\ Len(v) = 1 => Entries(v)[1] = [base |-> 0, len |-> Sum(v)]
  <1> DEFINE e == Entries(v)
  <1>1. \A i \in 1..Len(v) : Sum(SubSeq(v, 1, i - 1)) \in Nat /\ v[i] \in Nat
    <2> TAKE i \in 1..Len(v)
    <2>1. SubSeq(v, 1, i - 1) \in Seq(Nat)
      OBVIOUS
    <2>2. Sum(SubSeq(v, 1, i - 1)) \in Nat
      BY <2>1, SumSmall
    <2>3. v[i] \in Nat
      OBVIOUS
    <2> QED
      BY <2>2, <2>3
  <1>2. e \in Seq(Entry) /\ Len(e) = Len(v)
    <2>1. DOMAIN e = 1..Len(v)
      BY DEF Entries
    <2>2. \A i \in 1..Len(v) : e[i] \in Entry
      BY <1>1 DEF Entries, Entry
    <2>3. e = [i \in 1..Len(v) |-> e[i]]
      BY DEF Entries
    <2> HIDE DEF e
    <2> QED
      BY <2>1, <2>2, <2>3
  <1>3. Lengths(e) = v
    <2>1. DOMAIN v = 1..Len(v) /\ DOMAIN e = DOMAIN v
      BY DEF Entries
    <2>2. \A i \in 1..Len(v) : e[i].len = v[i]
      BY <2>1 DEF Entries
    <2>3. v = [i \in 1..Len(v) |-> v[i]]
      OBVIOUS
    <2> QED
      BY <2>1, <2>2, <2>3 DEF Lengths
  <1>4. Left(e) = Sum(v)
    BY <1>3 DEF Left, Lengths
  <1>5. ASSUME Len(v) = 1
        PROVE  e[1] = [base |-> 0, len |-> Sum(v)]
    <2>1. SubSeq(v, 1, 1 - 1) \in Seq(Nat) /\ Len(SubSeq(v, 1, 1 - 1)) = 0
      OBVIOUS
    <2>2. Sum(SubSeq(v, 1, 1 - 1)) = 0
      BY <2>1, SumSmall
    <2>3. e[1] = [base |-> Sum(SubSeq(v, 1, 1 - 1)), len |-> v[1]]
      BY <1>5 DEF Entries
    <2> QED
      BY <1>5, <2>2, <2>3, SumSmall
  <1> QED
    BY <1>2, <1>4, <1>5

\* A vector of which something is left has entries, and of one entry its
\* length is left.
LEMMA LeftSmall ==
  ASSUME NEW e \in Seq(Entry)
  PROVE  /\ Left(e) > 0 => Len(e) > 0
         /\ Len(e) = 1 => Left(e) = e[1].len
  BY LengthsType, SumSmall

\* Bytes that a call moved end in some entry, or at the end of the vector.
LEMMA ReachedIs ==
  ASSUME NEW e \in Seq(Entry), NEW n \in 0..Left(e)
  PROVE  LET i == Reached(e, n)
         IN  /\ i \in 1..(Len(e) + 1)
             /\ Left(SubSeq(e, 1, i - 1)) <= n
             /\ i <= Len(e) => Left(SubSeq(e, 1, i)) > n
  <1> DEFINE Ok(i) == /\ Left(SubSeq(e, 1, i - 1)) <= n
                      /\ i <= Len(e) => Left(SubSeq(e, 1, i)) > n
             k == Len(e)
             After == {i \in 1..k : Left(SubSeq(e, 1, i)) > n}
  <1>1. k \in Nat /\ n \in Nat
    BY LengthsType
  <1>2. PICK f : /\ PartialSums(Lengths(e), f, k)
                 /\ Left(e) = f[k]
                 /\ \A i \in 0..k : Left(SubSeq(e, 1, i)) = f[i]
    BY LeftOfFirst
  <1>3. Left(SubSeq(e, 1, 0)) = 0 /\ \A i \in 0..k :
          Left(SubSeq(e, 1, i)) \in Nat
    BY <1>1, <1>2 DEF PartialSums
  <1> SUFFICES \E i \in 1..(Len(e) + 1) : Ok(i)
    BY DEF Reached
  <1>4. CASE After = {}
    <2>1. Left(SubSeq(e, 1, k)) <= n
      <3>1. k = 0 \/ k \in 1..k
        BY <1>1
      <3>2. Left(SubSeq(e, 1, k)) \in Nat
        BY <1>1, <1>3
      <3> QED
        BY <1>1, <1>3, <1>4, <3>1, <3>2
    <2>2. Ok(k + 1)
      BY <1>1, <2>1
    <2> QED
      BY <1>1, <2>2
  <1>5. CASE After # {}
    <2>1. PICK m \in After : \A j \in After : m <= j
      <3>1. After \subseteq Nat
        BY <1>1
      <3> HIDE DEF After
      <3> QED
        BY <1>5, <3>1, LeastNumber
    <2>2. m \in 1..k /\ Left(SubSeq(e, 1, m)) > n
      BY <2>1
    <2>3. m - 1 \in 0..k /\ m - 1 \notin After
      BY <1>1, <2>1, <2>2
    <2>4. Left(SubSeq(e, 1, m - 1)) <= n
      <3>1. m - 1 = 0 \/ m - 1 \in 1..k
        BY <1>1, <2>3
      <3>2. Left(SubSeq(e, 1, m - 1)) \in Nat
        BY <1>3, <2>3
      <3> QED
        BY <1>1, <1>3, <2>3, <3>1, <3>2
    <2>5. Ok(m)
      BY <2>2, <2>4
    <2> QED
      BY <1>1, <2>2, <2>5
  <1> QED
    BY <1>4, <1>5

(**************************** the io object ********************************)

IoRec == [op : IoOps \cup {"none"}, iov : Seq(Entry), tmp : BOOLEAN,
          repeat : BOOLEAN, result : Int, error : BOOLEAN, watch : Watches,
          active : BOOLEAN, closed : SUBSET {"r", "w"},
          rw : SUBSET {"r", "w"}, catches : BOOLEAN]
XferRec == [total : Nat, next : Nat, skew : BOOLEAN]

\* What of an io object no call changes.
SameCall(x, y) ==
  /\ y.op = x.op /\ y.repeat = x.repeat /\ y.rw = x.rw
  /\ y.catches = x.catches

\* A vector of which bytes were moved has no more left than before, and its
\* temporary copy starts where they ended.
LEMMA VecUpdateIs ==
  ASSUME NEW x \in IoRec, NEW n \in 1..Left(x.iov)
  PROVE  \E e \in Seq(Entry), t \in BOOLEAN, d \in BOOLEAN :
           /\ VecUpdate(x, n) = [io |-> [x EXCEPT !.iov = e, !.tmp = t],
                                 done |-> d]
           /\ Left(e) <= Left(x.iov)
           /\ Len(x.iov) = 1 /\ n = Left(x.iov) => d
           /\ d => e = x.iov
  <1> DEFINE v == x.iov
             k == Len(v)
             i == Reached(v, n)
             off == n - Left(SubSeq(v, 1, i - 1))
  <1>1. v \in Seq(Entry) /\ x.tmp \in BOOLEAN
    BY DEF IoRec
  <1>2. /\ i \in 1..(k + 1)
        /\ Left(SubSeq(v, 1, i - 1)) <= n
        /\ i <= k => Left(SubSeq(v, 1, i)) > n
    <2>1. n \in 0..Left(v)
      BY <1>1, LengthsType
    <2> QED
      BY <1>1, <2>1, ReachedIs
  <1>3. PICK f : /\ PartialSums(Lengths(v), f, k)
                 /\ Left(v) = f[k]
                 /\ \A j \in 0..k : Left(SubSeq(v, 1, j)) = f[j]
    BY <1>1, LeftOfFirst
  <1>4. k \in Nat /\ n \in Nat /\ Left(v) \in Nat /\ n <= Left(v)
    BY <1>1, LengthsType
  <1>5. \A j \in 0..k : f[j] \in Nat
    BY <1>3 DEF PartialSums
  <1>6. CASE ~(off > 0)
    <2>1. VecUpdate(x, n) = [io |-> x, done |-> TRUE]
      BY <1>6 DEF VecUpdate
    <2>2. x = [x EXCEPT !.iov = v, !.tmp = x.tmp]
      BY DEF IoRec
    <2>3. VecUpdate(x, n) = [io |-> [x EXCEPT !.iov = v, !.tmp = x.tmp],
                             done |-> TRUE]
      BY <2>1, <2>2
    <2>4. Left(v) <= Left(v)
      BY <1>4
    <2> QED
      BY <1>1, <2>3, <2>4
  <1>7. CASE off > 0
    <2> HIDE DEF i
    <2>1. i \in 1..k
      <3>1. CASE i = k + 1
        <4>1. i - 1 = k /\ k \in 0..k
          BY <1>4, <3>1
        <4>2. Left(SubSeq(v, 1, i - 1)) = Left(v)
          BY <1>3, <4>1
        <4>3. ~(off > 0)
          BY <1>4, <4>2
        <4> QED
          BY <1>7, <4>3
      <3> QED
        BY <1>2, <1>4, <3>1
    <2>2. f[i] = f[i - 1] + v[i].len /\ v[i].len \in Nat
      <3>1. Lengths(v)[i] = v[i].len /\ Lengths(v) \in Seq(Nat)
              /\ Len(Lengths(v)) = k
        BY <1>1, <2>1, LengthsType
      <3>2. Lengths(v)[i] \in Nat
        BY <2>1, <3>1
      <3>3. f[i] = f[i - 1] + Lengths(v)[i]
        BY <1>3, <2>1 DEF PartialSums
      <3> QED
        BY <3>1, <3>2, <3>3
    <2>3. off \in 1..v[i].len
      <3>1. i \in 0..k /\ i - 1 \in 0..k /\ i <= k
        BY <1>4, <2>1
      <3>2. Left(SubSeq(v, 1, i - 1)) = f[i - 1] /\ f[i - 1] \in Nat
        BY <1>3, <1>5, <3>1
      <3>3. f[i] > n
        BY <1>2, <1>3, <3>1
      <3>4. n < f[i - 1] + v[i].len /\ off = n - f[i - 1]
        BY <2>2, <3>2, <3>3
      <3> HIDE DEF off
      <3> QED
        BY <1>4, <1>7, <2>2, <3>2, <3>4
    <2> DEFINE rest == SubSeq(v, i, k)
               cut == [rest EXCEPT ![1].len = @ - off, ![1].base = @ + off]
               e == IF x.tmp THEN rest ELSE cut
    <2>4. VecUpdate(x, n) = [io |-> [x EXCEPT !.iov = e, !.tmp = TRUE],
                             done |-> FALSE]
      BY <1>7 DEF VecUpdate, Incomplete, i
    <2> HIDE DEF off
    <2>5. /\ rest \in Seq(Entry) /\ Len(rest) = k - i + 1
          /\ \A j \in 1..Len(rest) : rest[j] = v[j + (i - 1)]
      BY <1>1, <1>4, <2>1
    <2>6. rest[1] = v[i] /\ v[i] \in Entry /\ Len(rest) >= 1
      BY <1>1, <1>4, <2>1, <2>5
    <2>7. /\ cut \in Seq(Entry) /\ Len(cut) = k - i + 1
          /\ \A j \in 1..Len(cut) : cut[j].len <= v[j + (i - 1)].len
      <3> DEFINE q == v[i]
                 r == [q EXCEPT !.len = @ - off, !.base = @ + off]
      <3>1. r \in Entry /\ r.len <= v[i].len
        <4>1. q \in Entry /\ q.base \in Nat /\ q.len \in Nat
          BY <2>6 DEF Entry
        <4>2. q.base + off \in Nat /\ q.len - off \in Nat
                /\ q.len - off <= q.len
          BY <2>3, <4>1
        <4>3. r.len = q.len - off
          BY <4>1 DEF Entry
        <4> HIDE DEF q
        <4>4. r \in Entry
          BY <4>1, <4>2 DEF Entry
        <4> QED
          BY <4>2, <4>3, <4>4 DEF q
      <3>2. cut = [rest EXCEPT ![1] = r]
        <4> HIDE DEF q, rest
        <4>1. 1 \in DOMAIN rest /\ rest[1] = q
          BY <2>5, <2>6 DEF q
        <4> QED
          BY <4>1
      <3> HIDE DEF cut, rest, r
      <3>3. cut \in Seq(Entry) /\ Len(cut) = Len(rest)
        BY <2>5, <2>6, <3>1, <3>2
      <3>4. ASSUME NEW j \in 1..Len(cut)
            PROVE  cut[j].len <= v[j + (i - 1)].len
        <4>1. CASE j = 1
          <5>1. cut[j] = r /\ j + (i - 1) = i
            BY <1>4, <2>1, <2>5, <2>6, <3>2, <4>1
          <5> QED
            BY <3>1, <5>1
        <4>2. CASE j # 1
          <5>1. cut[j] = rest[j] /\ rest[j] = v[j + (i - 1)]
            BY <2>5, <3>2, <3>3, <3>4, <4>2
          <5>2. cut[j] \in Entry
            BY <3>3, <3>4
          <5> QED
            BY <5>1, <5>2 DEF Entry
        <4> QED
          BY <4>1, <4>2
      <3> QED
        BY <2>5, <3>3, <3>4
    <2>8. /\ e \in Seq(Entry) /\ Len(e) = k - i + 1
          /\ \A j \in 1..Len(e) : e[j].len <= v[j + (i - 1)].len
      <3>1. CASE x.tmp
        <4>1. \A j \in 1..Len(rest) : rest[j] \in Entry
          BY <2>5
        <4>2. \A j \in 1..Len(rest) : rest[j].len <= v[j + (i - 1)].len
          BY <2>5, <4>1 DEF Entry
        <4> HIDE DEF rest
        <4> QED
          BY <2>5, <3>1, <4>2
      <3>2. CASE ~x.tmp
        <4> HIDE DEF cut
        <4> QED
          BY <2>7, <3>2
      <3> QED
        BY <3>1, <3>2
    <2> HIDE DEF e
    <2>9. Left(e) <= Left(v)
      <3> DEFINE a == Lengths(v)
                 b == Lengths(e)
                 m == i - 1
      <3>1. /\ a \in Seq(Nat) /\ Len(a) = k /\ Left(v) = Sum(a)
            /\ b \in Seq(Nat) /\ Len(b) = k - i + 1 /\ Left(e) = Sum(b)
        BY <1>1, <2>8, LengthsType
      <3>2. \A j \in 1..Len(b) : b[j] = e[j].len /\ a[j + m] = v[j + m].len
        <4>1. \A j \in 1..Len(b) : j \in 1..Len(e) /\ j + m \in 1..Len(v)
          BY <1>4, <2>1, <2>8, <3>1
        <4> QED
          BY <1>1, <2>8, <4>1, LengthsType
      <3>3. m \in Nat /\ Len(a) = Len(b) + m
        BY <1>4, <2>1, <3>1
      <3>4. \A j \in 1..Len(b) : b[j] <= a[j + m]
        BY <2>8, <3>1, <3>2
      <3> HIDE DEF a, b, m
      <3> QED
        BY <3>1, <3>3, <3>4, SumDominated
    <2>10. ~(k = 1 /\ n = Left(v))
      <3>1. i <= k
        BY <1>4, <2>1
      <3>2. k = 1 => i = k /\ i \in 0..k
        BY <1>4, <2>1
      <3>3. k = 1 => Left(SubSeq(v, 1, i)) = Left(v)
        BY <1>3, <3>2
      <3> QED
        BY <1>2, <1>4, <3>1, <3>3
    <2> QED
      BY <2>4, <2>8, <2>9, <2>10
  <1> QED
    BY <1>6, <1>7

\* A read that moves nothing finds the other end closed; no call changes
\* anything else there.
LEMMA ClosedIs ==
  ASSUME NEW x \in IoRec, NEW n \in Int
  PROVE  \E c \in SUBSET {"r", "w"} :
           /\ Closed(x, n) = [x EXCEPT !.closed = c]
           /\ x.op \in ReadOps /\ n = 0 => c # {}
  <1> DEFINE dir == IF x.op \in ReadOps THEN "r" ELSE "w"
             c == IF x.op \in BufOps \cup VecOps
                  THEN IF n = 0 THEN x.closed \cup {dir}
                       ELSE x.closed \ {dir}
                  ELSE x.closed
  <1>1. x.closed \in SUBSET {"r", "w"} /\ dir \in {"r", "w"}
    BY DEF IoRec
  <1>2. c \in SUBSET {"r", "w"}
    BY <1>1
  <1>3. Closed(x, n) = [x EXCEPT !.closed = c]
    <2>1. CASE x.op \in BufOps \cup VecOps
      <3>1. CASE n = 0
        BY <2>1, <3>1 DEF Closed
      <3>2. CASE n # 0
        BY <2>1, <3>2 DEF Closed
      <3> QED
        BY <3>1, <3>2
    <2>2. CASE x.op \notin BufOps \cup VecOps
      <3>1. x = [x EXCEPT !.closed = x.closed]
        BY DEF IoRec
      <3> QED
        BY <2>2, <3>1 DEF Closed
    <2> QED
      BY <2>1, <2>2
  <1>4. x.op \in ReadOps /\ n = 0 => c # {}
    BY DEF ReadOps, BufOps, VecOps
  <1> HIDE DEF c
  <1> QED
    BY <1>2, <1>3, <1>4

\* What the bytes moved leave of an operation on one buffer: d is whether
\* it is done.
Advanced(x, n, e, d) ==
  /\ Len(e) = 1 /\ e[1].base = x.iov[1].base + n
  /\ e[1].len = x.iov[1].len - n
  /\ d <=> e[1].len = 0

\* What a call that moved bytes does to the vector.
LEMMA UpdateIs ==
  ASSUME NEW x \in IoRec, x.op \in BufOps \cup VecOps,
         x.op \in BufOps => Len(x.iov) = 1, NEW n \in 1..Left(x.iov)
  PROVE  \E e \in Seq(Entry), t \in BOOLEAN, d \in BOOLEAN :
           /\ Update(x, n) = [io |-> [x EXCEPT !.iov = e, !.tmp = t],
                              done |-> d]
           /\ Left(e) <= Left(x.iov)
           /\ x.op \in BufOps => t = x.tmp /\ Advanced(x, n, e, d)
           /\ Len(x.iov) = 1 /\ n = Left(x.iov) => d
           /\ x.op \in VecOps /\ d => e = x.iov
  <1>1. CASE x.op \in BufOps
    <2> DEFINE r == [base |-> x.iov[1].base + n, len |-> x.iov[1].len - n]
               e == <<r>>
               d == r.len = 0
    <2>1. x.iov \in Seq(Entry) /\ Len(x.iov) = 1 /\ x.tmp \in BOOLEAN
      BY <1>1 DEF IoRec
    <2>2. x.iov[1] \in Entry /\ Left(x.iov) = x.iov[1].len
      BY <2>1, LeftSmall
    <2>3. x.iov[1].base \in Nat /\ x.iov[1].len \in Nat /\ n \in Nat
            /\ n <= x.iov[1].len
      BY <2>2 DEF Entry
    <2>4. r \in Entry /\ r.len <= x.iov[1].len
      BY <2>3 DEF Entry
    <2>5. e \in Seq(Entry) /\ Len(e) = 1 /\ e[1] = r
      BY <2>4
    <2>6. Left(e) <= Left(x.iov)
      <3> HIDE DEF e, r
      <3> QED
        BY <2>2, <2>4, <2>5, LeftSmall
    <2>7. Update(x, n) = BufUpdate(x, n)
      <3>1. x.op \notin VecOps
        BY <1>1 DEF BufOps, VecOps
      <3> QED
        BY <1>1, <3>1, Zenon DEF Update
    <2>8. [x EXCEPT !.iov = e] = [x EXCEPT !.iov = e, !.tmp = x.tmp]
      BY <2>1 DEF IoRec
    <2>9. BufUpdate(x, n) = [io |-> [x EXCEPT !.iov = e], done |-> d]
      BY DEF BufUpdate
    <2>10. Advanced(x, n, e, d)
      BY <2>5 DEF Advanced
    <2>11. d \in BOOLEAN
      OBVIOUS
    <2>12. Update(x, n) = [io |-> [x EXCEPT !.iov = e, !.tmp = x.tmp],
                           done |-> d]
      BY <2>7, <2>8, <2>9
    <2>13. n = Left(x.iov) => d
      BY <2>2, <2>3
    <2>14. x.op \notin VecOps
      BY <1>1 DEF BufOps, VecOps
    <2> HIDE DEF e, d
    <2> QED
      BY <2>1, <2>5, <2>6, <2>10, <2>11, <2>12, <2>13, <2>14
  <1>2. CASE x.op \notin BufOps
    <2>1. Update(x, n) = VecUpdate(x, n)
      BY <1>2, Zenon DEF Update
    <2> QED
      BY <1>2, <2>1, VecUpdateIs
  <1> QED
    BY <1>1, <1>2

\* What shuso_io_ev_watch_update changes of the io object, and what not.
SameData(x, y) ==
  /\ y.iov = x.iov /\ y.tmp = x.tmp /\ y.closed = x.closed
  /\ y.result = x.result /\ y.error = x.error

\* The watcher is armed for what is waited for.
LEMMA ArmedIs ==
  ASSUME NEW x \in IoRec, NEW w \in Watches
  PROVE  /\ Armed(x, w) \in IoRec
         /\ SameCall(x, Armed(x, w)) /\ SameData(x, Armed(x, w))
         /\ Armed(x, w).watch = w
         /\ Armed(x, w).active <=> w # "none"
  <1> DEFINE z == [x EXCEPT !.watch = w]
             y == [z EXCEPT !.active = z.watch # "none"]
  <1>1. /\ z \in IoRec /\ z.watch = w
        /\ SameCall(x, z) /\ SameData(x, z)
    BY DEF IoRec, SameCall, SameData
  <1> HIDE DEF z
  <1>2. (z.watch # "none") \in BOOLEAN
    OBVIOUS
  <1>3. /\ y \in IoRec /\ y.watch = z.watch
        /\ y.active = (z.watch # "none")
        /\ SameCall(z, y) /\ SameData(z, y)
    BY <1>1, <1>2 DEF IoRec, SameCall, SameData
  <1>4. Armed(x, w) = y
    BY DEF Armed, watch_update, z
  <1> HIDE DEF y
  <1>5. /\ Armed(x, w) \in IoRec
        /\ SameCall(x, Armed(x, w)) /\ SameData(x, Armed(x, w))
        /\ Armed(x, w).watch = w
    BY <1>1, <1>3, <1>4 DEF SameCall, SameData
  <1>6. Armed(x, w).active <=> w # "none"
    BY <1>1, <1>3, <1>4
  <1> QED
    BY <1>5, <1>6

\* A finished operation gives its temporary vector back.
LEMMA CleanupIs ==
  ASSUME NEW x \in IoRec
  PROVE  /\ Cleanup(x) \in IoRec /\ SameCall(x, Cleanup(x))
         /\ Cleanup(x).iov = x.iov /\ Cleanup(x).closed = x.closed
         /\ Cleanup(x).result = x.result /\ Cleanup(x).error = x.error
         /\ Cleanup(x).watch = x.watch /\ Cleanup(x).active = x.active
         /\ x.op \in VecOps => Cleanup(x).tmp = FALSE
         /\ x.op \notin VecOps => Cleanup(x).tmp = x.tmp
  <1>1. CASE x.op \in VecOps
    BY <1>1 DEF Cleanup, IoRec, SameCall
  <1>2. CASE x.op \notin VecOps
    BY <1>2 DEF Cleanup, IoRec, SameCall
  <1> QED
    BY <1>1, <1>2

\* A system call that moves bytes either leaves the rest to the watcher, or
\* the handler runs.
LEMMA MovesIs ==
  ASSUME io \in IoRec, xfer \in XferRec, upd \in BOOLEAN,
         io.op \in BufOps => Len(io.iov) = 1, CallMoves
  PROVE  \E n \in 0..Left(io.iov) :
           /\ io' \in IoRec /\ SameCall(io, io') /\ io'.error = io.error
           /\ io.op \in ReadOps \/ n > 0
           /\ io'.result = io.result + n
           /\ Left(io'.iov) <= Left(io.iov)
           /\ xfer' = Moved(io.iov, n)
           /\ io.op \in BufOps => io'.tmp = io.tmp /\ Len(io'.iov) = 1
           /\ \/ /\ at' = "loop" /\ upd' = FALSE /\ n > 0 /\ io.repeat
                 /\ io'.watch = "retry" /\ io'.active
                 /\ ~(Len(io.iov) = 1 /\ n = Left(io.iov))
                 /\ io.op \in BufOps => Advanced(io, n, io'.iov, FALSE)
              \/ /\ RunHandler(io')
                 /\ io'.watch = io.watch /\ io'.active = io.active
                 /\ io.op \in VecOps => ~io'.tmp /\ io'.iov = io.iov
                 /\ io.op \in BufOps /\ n = 0 => io'.closed # {}
                 /\ io.op \in BufOps /\ n > 0 /\ io.repeat =>
                      Advanced(io, n, io'.iov, TRUE)
  <1>1. io.op \in BufOps \cup VecOps
    BY DEF CallMoves
  <1>2. PICK n \in (IF io.op \in ReadOps THEN 0 ELSE 1)..Left(io.iov) :
          CallDone(n) /\ xfer' = Moved(io.iov, n)
    BY DEF CallMoves
  <1>3. io.iov \in Seq(Entry) /\ Left(io.iov) \in Nat /\ io.result \in Int
    BY LengthsType DEF IoRec
  <1>4. n \in 0..Left(io.iov) /\ n \in Int /\ (io.op \in ReadOps \/ n > 0)
    BY <1>2, <1>3
  <1>5. PICK c \in SUBSET {"r", "w"} :
          /\ Closed(io, n) = [io EXCEPT !.closed = c]
          /\ io.op \in ReadOps /\ n = 0 => c # {}
    BY <1>4, ClosedIs
  <1> DEFINE x == [io EXCEPT !.closed = c]
  <1>6. /\ x \in IoRec /\ x.op = io.op /\ x.iov = io.iov /\ x.tmp = io.tmp
        /\ x.result = io.result /\ x.repeat = io.repeat /\ x.rw = io.rw
        /\ x.catches = io.catches /\ x.error = io.error /\ x.closed = c
        /\ x.watch = io.watch /\ x.active = io.active
    BY <1>5 DEF IoRec
  <1>7. PICK e \in Seq(Entry), t \in BOOLEAN, d \in BOOLEAN :
          /\ (IF n # 0 /\ io.repeat THEN Update(x, n)
              ELSE [io |-> x, done |-> TRUE])
                = [io |-> [x EXCEPT !.iov = e, !.tmp = t], done |-> d]
          /\ Left(e) <= Left(io.iov)
          /\ ~d => n > 0 /\ io.repeat
          /\ Len(io.iov) = 1 /\ n = Left(io.iov) => d
          /\ io.op \in VecOps /\ d => e = io.iov
          /\ io.op \in BufOps => t = io.tmp /\ Len(e) = 1
          /\ io.op \in BufOps /\ n > 0 /\ io.repeat => Advanced(io, n, e, d)
    <2> HIDE DEF x
    <2>1. CASE n # 0 /\ io.repeat
      <3>1. n \in 1..Left(x.iov)
        BY <1>4, <1>6, <2>1
      <3>2. PICK e \in Seq(Entry), t \in BOOLEAN, d \in BOOLEAN :
              /\ Update(x, n) = [io |-> [x EXCEPT !.iov = e, !.tmp = t],
                                 done |-> d]
              /\ Left(e) <= Left(x.iov)
              /\ x.op \in BufOps => t = x.tmp /\ Advanced(x, n, e, d)
              /\ Len(x.iov) = 1 /\ n = Left(x.iov) => d
              /\ x.op \in VecOps /\ d => e = x.iov
        BY <1>1, <1>6, <3>1, UpdateIs
      <3>3. Left(e) <= Left(io.iov) /\ n > 0
        BY <1>4, <1>6, <2>1, <3>2
      <3>4. io.op \in BufOps => t = io.tmp /\ Advanced(io, n, e, d)
        BY <1>6, <3>2 DEF Advanced
      <3>5. io.op \in BufOps => Len(e) = 1
        BY <3>4 DEF Advanced
      <3> QED
        BY <1>6, <2>1, <3>2, <3>3, <3>4, <3>5, Zenon
    <2>2. CASE ~(n # 0 /\ io.repeat)
      <3>1. x = [x EXCEPT !.iov = x.iov, !.tmp = x.tmp]
        BY <1>6 DEF IoRec
      <3>2. x.iov \in Seq(Entry) /\ x.tmp \in BOOLEAN /\ TRUE \in BOOLEAN
        BY <1>6 DEF IoRec
      <3>3. [io |-> x, done |-> TRUE]
              = [io |-> [x EXCEPT !.iov = x.iov, !.tmp = x.tmp],
                 done |-> TRUE]
        BY <3>1
      <3>4. Left(x.iov) <= Left(io.iov) /\ ~(n > 0 /\ io.repeat)
        BY <1>3, <1>4, <1>6, <2>2
      <3>5. io.op \in BufOps => x.tmp = io.tmp /\ Len(x.iov) = 1
        BY <1>6
      <3>6. (IF n # 0 /\ io.repeat THEN Update(x, n)
             ELSE [io |-> x, done |-> TRUE])
              = [io |-> [x EXCEPT !.iov = x.iov, !.tmp = x.tmp],
                 done |-> TRUE]
        BY <2>2, <3>3
      <3> QED
        BY <1>6, <3>2, <3>4, <3>5, <3>6, Zenon
    <2> QED
      BY <2>1, <2>2
  <1> DEFINE z == [x EXCEPT !.iov = e, !.tmp = t]
             u == IF n # 0 /\ io.repeat THEN Update(x, n)
                  ELSE [io |-> x, done |-> TRUE]
             y == [z EXCEPT !.result = @ + n]
  <1>8. IF ~d THEN io' = Armed(y, "retry") /\ at' = "loop" /\ upd' = FALSE
        ELSE io' = Cleanup(y) /\ RunHandler(Cleanup(y))
    <2>1. IF ~u.done
          THEN /\ io' = Armed([u.io EXCEPT !.result = @ + n], "retry")
               /\ at' = "loop" /\ upd' = FALSE
          ELSE /\ io' = Cleanup([u.io EXCEPT !.result = @ + n])
               /\ RunHandler(Cleanup([u.io EXCEPT !.result = @ + n]))
      BY <1>2, <1>5, Zenon DEF CallDone
    <2>2. u = [io |-> z, done |-> d]
      BY <1>7, Zenon
    <2> HIDE DEF u, z
    <2>3. u.io = z /\ u.done = d
      BY <2>2
    <2> QED
      BY <2>1, <2>3, Zenon
  <1>9. /\ y \in IoRec /\ y.op = io.op /\ y.iov = e /\ y.tmp = t
        /\ y.result = io.result + n /\ y.repeat = io.repeat
        /\ y.rw = io.rw /\ y.catches = io.catches /\ y.error = io.error
        /\ y.closed = c /\ y.watch = io.watch /\ y.active = io.active
    <2> HIDE DEF x
    <2>1. /\ z \in IoRec /\ z.op = x.op /\ z.iov = e /\ z.tmp = t
          /\ z.result = x.result /\ z.repeat = x.repeat
          /\ z.rw = x.rw /\ z.catches = x.catches /\ z.error = x.error
          /\ z.closed = x.closed /\ z.watch = x.watch
          /\ z.active = x.active
      BY <1>6, <1>7 DEF IoRec
    <2>2. x.result + n \in Int
      BY <1>3, <1>4, <1>6
    <2> HIDE DEF z
    <2> QED
      BY <1>6, <2>1, <2>2 DEF IoRec
  <1> HIDE DEF x, y, z, u
  <1>10. CASE ~d
    <2>1. /\ io' \in IoRec /\ SameCall(y, io') /\ SameData(y, io')
          /\ io'.watch = "retry" /\ io'.active
      <3>1. "retry" \in Watches
        BY DEF Watches
      <3>2. io' = Armed(y, "retry")
        BY <1>8, <1>10
      <3> QED
        BY <1>9, <3>1, <3>2, ArmedIs
    <2>2. at' = "loop" /\ upd' = FALSE
      BY <1>8, <1>10
    <2>3. io.op \in BufOps => Advanced(io, n, io'.iov, FALSE)
      BY <1>7, <1>9, <1>10, <2>1 DEF Advanced, SameData
    <2>4. /\ SameCall(io, io') /\ io'.error = io.error
          /\ io'.result = io.result + n /\ Left(io'.iov) <= Left(io.iov)
          /\ io.op \in BufOps => io'.tmp = io.tmp /\ Len(io'.iov) = 1
      BY <1>7, <1>9, <2>1 DEF SameCall, SameData
    <2> QED
      BY <1>2, <1>4, <1>7, <1>10, <2>1, <2>2, <2>3, <2>4, Zenon
  <1>11. CASE d
    <2>1. io' = Cleanup(y) /\ RunHandler(io')
      BY <1>8, <1>11
    <2>2. /\ io' \in IoRec /\ SameCall(y, io') /\ io'.error = y.error
          /\ io'.result = y.result /\ io'.iov = y.iov
          /\ io'.watch = y.watch /\ io'.active = y.active
          /\ io'.closed = y.closed
          /\ y.op \in VecOps => io'.tmp = FALSE
          /\ y.op \notin VecOps => io'.tmp = y.tmp
      BY <1>9, <2>1, CleanupIs
    <2>3. io.op \in BufOps /\ n > 0 /\ io.repeat =>
            Advanced(io, n, io'.iov, TRUE)
      BY <1>7, <1>9, <1>11, <2>2 DEF Advanced
    <2>4. io.op \in BufOps => io.op \notin VecOps
      BY DEF BufOps, VecOps
    <2>5. /\ SameCall(io, io') /\ io'.error = io.error
          /\ io'.result = io.result + n /\ Left(io'.iov) <= Left(io.iov)
          /\ io.op \in BufOps => io'.tmp = io.tmp /\ Len(io'.iov) = 1
          /\ io'.watch = io.watch /\ io'.active = io.active
          /\ io.op \in VecOps => ~io'.tmp /\ io'.iov = io.iov
      BY <1>7, <1>9, <1>11, <2>2, <2>4 DEF SameCall
    <2>6. io.op \in BufOps /\ n = 0 => io'.closed # {}
      BY <1>4, <1>5, <1>9, <2>2
    <2> QED
      BY <1>2, <1>4, <2>1, <2>2, <2>3, <2>5, <2>6, Zenon
  <1> QED
    BY <1>10, <1>11

(************************* the steps of the system *************************)

\* What holds of the io object whatever coroutine runs on it.
Shape(x, xf, u) ==
  /\ x \in IoRec /\ xf \in XferRec /\ u \in BOOLEAN
  /\ Left(x.iov) <= xf.total /\ x.result \in -1..(2 * xf.total)
  /\ x.op \in BufOps => Len(x.iov) = 1

\* The handler is about to run, or the error handler.
LEMMA RunHandlerIs ==
  ASSUME NEW x \in IoRec, upd \in BOOLEAN, RunHandler(x)
  PROVE  /\ upd' \in BOOLEAN
         /\ x.catches => at' \in {"errh", "handler"}
         /\ ~x.catches => at' = "handler" /\ upd' = TRUE
  BY DEF RunHandler, IoRec

\* A move keeps the totals.
LEMMA MovedIs ==
  ASSUME xfer \in XferRec, NEW v \in Seq(Entry), NEW n \in 0..Left(v)
  PROVE  /\ Moved(v, n) \in XferRec
         /\ Moved(v, n).total = xfer.total
         /\ n = 0 => Moved(v, n) = xfer
         /\ n > 0 => /\ Moved(v, n).next = v[1].base + n
                     /\ Moved(v, n).skew <=>
                          xfer.skew \/ v[1].base # xfer.next
  <1>1. Left(v) \in Nat /\ n \in Nat
    BY LengthsType
  <1>2. CASE n = 0
    BY <1>1, <1>2 DEF Moved, XferRec
  <1>3. CASE n > 0
    <2>1. Len(v) > 0
      BY <1>1, <1>3, LeftSmall
    <2>2. v[1] \in Entry
      BY <2>1
    <2>3. v[1].base + n \in Nat
      BY <1>1, <2>2 DEF Entry
    <2> DEFINE b == v[1].base + n
               s == xfer.skew \/ v[1].base # xfer.next
    <2>4. Moved(v, n) = [xfer EXCEPT !.next = b, !.skew = s]
      BY <1>1, <1>3 DEF Moved
    <2>5. s \in BOOLEAN
      OBVIOUS
    <2> HIDE DEF b, s
    <2>6. /\ Moved(v, n) \in XferRec /\ Moved(v, n).total = xfer.total
          /\ Moved(v, n).next = b /\ Moved(v, n).skew = s
      BY <2>3, <2>4, <2>5 DEF XferRec, b
    <2>7. Moved(v, n).skew <=> s
      BY <2>6
    <2> QED
      BY <1>1, <1>3, <2>6, <2>7 DEF b, s
  <1> QED
    BY <1>1, <1>2, <1>3

\* A call that moves bytes keeps the shape of the io object.
LEMMA MovesShape ==
  ASSUME Shape(io, xfer, upd), CallMoves
  PROVE  Shape(io', xfer', upd')
  <1>1. PICK n \in 0..Left(io.iov) :
          /\ io' \in IoRec /\ SameCall(io, io')
          /\ io'.result = io.result + n
          /\ Left(io'.iov) <= Left(io.iov)
          /\ xfer' = Moved(io.iov, n)
          /\ io.op \in BufOps => Len(io'.iov) = 1
          /\ upd' = FALSE \/ RunHandler(io')
    BY MovesIs DEF Shape
  <1>2. xfer' \in XferRec /\ xfer'.total = xfer.total
    BY <1>1, MovedIs DEF Shape, IoRec
  <1>3. upd' \in BOOLEAN
    BY <1>1, RunHandlerIs DEF Shape
  <1>4. /\ Left(io.iov) \in Nat /\ Left(io'.iov) \in Nat
        /\ xfer.total \in Nat /\ io.result \in Int
    BY <1>1, LengthsType DEF Shape, IoRec, XferRec
  <1>5. Left(io'.iov) <= xfer'.total
    BY <1>1, <1>2, <1>4 DEF Shape
  <1>6. io'.result \in -1..(2 * xfer'.total)
    <2>1. io.result <= xfer.total /\ io.result >= -1
      BY <1>4 DEF Shape, CallMoves
    <2>2. n \in Nat /\ n <= xfer.total
      BY <1>1, <1>4 DEF Shape
    <2> QED
      BY <1>1, <1>2, <1>4, <2>1, <2>2
  <1> QED
    BY <1>1, <1>2, <1>3, <1>5, <1>6 DEF Shape, SameCall

\* accept and close leave the vector alone.
LEMMA PlainIs ==
  ASSUME Shape(io, xfer, upd), CallPlain
  PROVE  /\ Shape(io', xfer', upd') /\ io' = io /\ RunHandler(io')
         /\ xfer' = xfer /\ at = "call" /\ io.op \in {"accept", "close"}
  <1>1. /\ at = "call" /\ io.op \in {"accept", "close"} /\ CallDone(0)
        /\ xfer' = xfer
    BY DEF CallPlain
  <1>2. io.op \notin BufOps \cup VecOps
    BY <1>1 DEF BufOps, VecOps
  <1>3. Closed(io, 0) = io
    BY <1>2 DEF Closed
  <1> DEFINE x == [io EXCEPT !.result = @ + 0]
  <1>4. x = io
    <2>1. io.result + 0 = io.result
      BY DEF Shape, IoRec
    <2>2. [io EXCEPT !.result = io.result] = io
      BY DEF Shape, IoRec
    <2> QED
      BY <2>1, <2>2
  <1>5. io' = Cleanup(x) /\ RunHandler(Cleanup(x))
    BY <1>1, <1>3 DEF CallDone
  <1> HIDE DEF x
  <1>6. io' = io /\ RunHandler(io)
    BY <1>2, <1>4, <1>5 DEF Cleanup
  <1>7. upd' \in BOOLEAN
    BY <1>6, RunHandlerIs DEF Shape
  <1> QED
    BY <1>1, <1>6, <1>7 DEF Shape

\* A call that would block waits for the watcher.
LEMMA BlocksIs ==
  ASSUME Shape(io, xfer, upd), CallBlocks
  PROVE  /\ Shape(io', xfer', upd') /\ SameCall(io, io')
         /\ io'.iov = io.iov /\ io'.tmp = io.tmp
         /\ io'.result = io.result /\ io'.error = io.error
         /\ io'.watch = "retry" /\ io'.active
         /\ at' = "loop" /\ upd' = FALSE /\ xfer' = xfer
         /\ at = "call" /\ io.op \notin {"connect", "close", "none"}
  <1>1. PICK c \in SUBSET {"r", "w"} : Closed(io, -1) = [io EXCEPT !.closed = c]
    <2>1. -1 \in Int /\ io \in IoRec
      BY DEF Shape
    <2> HIDE DEF Shape
    <2> QED
      BY <2>1, ClosedIs
  <1> DEFINE x == [io EXCEPT !.closed = c]
  <1>2. /\ x \in IoRec /\ SameCall(io, x) /\ x.iov = io.iov /\ x.tmp = io.tmp
        /\ x.result = io.result /\ x.error = io.error
    BY <1>1 DEF Shape, IoRec, SameCall
  <1>3. /\ io' = Armed(x, "retry") /\ at' = "loop" /\ upd' = FALSE
        /\ xfer' = xfer /\ at = "call"
    BY <1>1 DEF CallBlocks
  <1> HIDE DEF x
  <1>4. /\ io' \in IoRec /\ SameCall(x, io') /\ SameData(x, io')
        /\ io'.watch = "retry" /\ io'.active
    <2>1. "retry" \in Watches
      BY DEF Watches
    <2> QED
      BY <1>2, <1>3, <2>1, ArmedIs
  <1>5. io.op \notin {"connect", "close", "none"}
    BY DEF CallBlocks, IoOps, BufOps, VecOps
  <1>6. /\ SameCall(io, io') /\ io'.iov = io.iov /\ io'.tmp = io.tmp
        /\ io'.result = io.result /\ io'.error = io.error
    BY <1>2, <1>4 DEF SameCall, SameData
  <1>7. Shape(io', xfer', upd')
    BY <1>3, <1>4, <1>6 DEF Shape, SameCall
  <1> QED
    BY <1>3, <1>4, <1>5, <1>6, <1>7, Zenon

\* What of an io object a new result leaves.
SameRest(x, y) ==
  /\ y.iov = x.iov /\ y.tmp = x.tmp /\ y.closed = x.closed
  /\ y.watch = x.watch /\ y.active = x.active

\* A result and an error are set together.
LEMMA ResultIs ==
  ASSUME NEW x \in IoRec, NEW r \in Int, NEW b \in BOOLEAN
  PROVE  LET y == [x EXCEPT !.result = r, !.error = b]
         IN  /\ y = [x EXCEPT !.error = b, !.result = r]
             /\ y \in IoRec /\ SameCall(x, y) /\ SameRest(x, y)
             /\ y.result = r /\ y.error = b
  <1> DEFINE y == [x EXCEPT !.result = r, !.error = b]
  <1>1. y = [x EXCEPT !.error = b, !.result = r]
    OBVIOUS
  <1>2. y \in IoRec
    BY DEF IoRec
  <1>3. SameCall(x, y) /\ SameRest(x, y) /\ y.result = r /\ y.error = b
    BY DEF IoRec, SameCall, SameRest
  <1> QED
    BY <1>1, <1>2, <1>3

\* A call that fails ends the operation; a connection in progress is not
\* waited for any more.
LEMMA FailsIs ==
  ASSUME Shape(io, xfer, upd), CallFails
  PROVE  /\ Shape(io', xfer', upd') /\ SameCall(io, io')
         /\ io'.iov = io.iov /\ io'.result = -1 /\ io'.error = TRUE
         /\ io.watch = "finish" => io'.watch = "none" /\ io'.tmp = io.tmp
         /\ io.watch # "finish" =>
              /\ io'.watch = io.watch
              /\ io.op \in VecOps => io'.tmp = FALSE
              /\ io.op \notin VecOps => io'.tmp = io.tmp
         /\ RunHandler(io') /\ xfer' = xfer /\ at = "call"
  <1>1. at = "call" /\ xfer' = xfer /\ io \in IoRec /\ upd \in BOOLEAN
    BY DEF CallFails, Shape
  <1>2. /\ io' \in IoRec /\ SameCall(io, io') /\ RunHandler(io')
        /\ io'.iov = io.iov /\ io'.result = -1 /\ io'.error = TRUE
        /\ io.watch = "finish" => io'.watch = "none" /\ io'.tmp = io.tmp
        /\ io.watch # "finish" =>
             /\ io'.watch = io.watch
             /\ io.op \in VecOps => io'.tmp = FALSE
             /\ io.op \notin VecOps => io'.tmp = io.tmp
    <2>1. CASE io.watch = "finish"
      <3> DEFINE x == Armed(io, "none")
      <3>1. io' = [x EXCEPT !.result = -1, !.error = TRUE] /\ RunHandler(io')
        BY <2>1 DEF CallFails
      <3>2. /\ x \in IoRec /\ SameCall(io, x) /\ SameData(io, x)
            /\ x.watch = "none"
        <4>1. "none" \in Watches
          BY DEF Watches
        <4> QED
          BY <1>1, <4>1, ArmedIs
      <3> HIDE DEF x
      <3>3. /\ io' \in IoRec /\ SameCall(x, io') /\ io'.watch = x.watch
            /\ io'.iov = x.iov /\ io'.result = -1 /\ io'.error = TRUE
            /\ io'.tmp = x.tmp
        <4>1. -1 \in Int /\ TRUE \in BOOLEAN
          OBVIOUS
        <4>2. /\ io' \in IoRec /\ SameCall(x, io') /\ SameRest(x, io')
              /\ io'.result = -1 /\ io'.error = TRUE
          BY <3>1, <3>2, <4>1, ResultIs
        <4> QED
          BY <4>2 DEF SameRest
      <3> QED
        BY <2>1, <3>1, <3>2, <3>3 DEF SameCall, SameData
    <2>2. CASE io.watch # "finish"
      <3>1. PICK c \in SUBSET {"r", "w"} :
              Closed(io, -1) = [io EXCEPT !.closed = c]
        <4>1. -1 \in Int
          OBVIOUS
        <4> QED
          BY <1>1, <4>1, ClosedIs
      <3> DEFINE x == [io EXCEPT !.closed = c]
                 y == [x EXCEPT !.result = -1, !.error = TRUE]
      <3>2. /\ x \in IoRec /\ SameCall(io, x) /\ x.watch = io.watch
            /\ x.iov = io.iov /\ x.tmp = io.tmp
        BY <1>1, <3>1 DEF IoRec, SameCall
      <3>3. io' = Cleanup(y) /\ RunHandler(io')
        BY <2>2, <3>1 DEF CallFails, CallFailed
      <3> HIDE DEF x
      <3>4. /\ y \in IoRec /\ SameCall(x, y) /\ y.watch = x.watch
            /\ y.iov = x.iov /\ y.tmp = x.tmp /\ y.result = -1
            /\ y.error = TRUE
        <4>1. -1 \in Int /\ TRUE \in BOOLEAN
          OBVIOUS
        <4>2. /\ y \in IoRec /\ SameCall(x, y) /\ SameRest(x, y)
              /\ y.result = -1 /\ y.error = TRUE
          BY <3>2, <4>1, ResultIs
        <4> QED
          BY <4>2 DEF SameRest
      <3> HIDE DEF y
      <3>5. /\ io' \in IoRec /\ SameCall(y, io') /\ io'.iov = y.iov
            /\ io'.result = y.result /\ io'.error = y.error
            /\ io'.watch = y.watch
            /\ y.op \in VecOps => io'.tmp = FALSE
            /\ y.op \notin VecOps => io'.tmp = y.tmp
        BY <3>3, <3>4, CleanupIs
      <3> QED
        BY <2>2, <3>2, <3>3, <3>4, <3>5 DEF SameCall
    <2> QED
      BY <2>1, <2>2
  <1>3. upd' \in BOOLEAN
    BY <1>1, <1>2, RunHandlerIs
  <1>4. Shape(io', xfer', upd')
    <2>1. xfer.total \in Nat
      BY DEF Shape, XferRec
    <2>2. -1 \in -1..(2 * xfer.total)
      BY <2>1
    <2> QED
      BY <1>1, <1>2, <1>3, <2>2 DEF Shape, SameCall
  <1> QED
    BY <1>1, <1>2, <1>4, Zenon

\* A call whose rest finds no memory ends the operation, which was one on a
\* vector.
LEMMA NoMemoryIs ==
  ASSUME Shape(io, xfer, upd), CallNoMemory
  PROVE  /\ Shape(io', xfer', upd') /\ SameCall(io, io')
         /\ io'.error = TRUE /\ io'.watch = io.watch /\ ~io'.tmp
         /\ RunHandler(io') /\ at = "call" /\ io.op \in VecOps
  <1>1. PICK n \in 1..Left(io.iov) :
          /\ at = "call" /\ NeedsTemporary(io, n)
          /\ io' = Cleanup([Closed(io, n) EXCEPT !.result = n - 1,
                                                !.error = TRUE])
          /\ RunHandler(io') /\ xfer' = Moved(io.iov, n)
    BY DEF CallNoMemory
  <1>2. io \in IoRec /\ upd \in BOOLEAN /\ io.op \in VecOps
    BY <1>1 DEF Shape, NeedsTemporary
  <1>3. io.iov \in Seq(Entry) /\ Left(io.iov) \in Nat
    BY <1>2, LengthsType DEF IoRec
  <1>4. n \in 0..Left(io.iov) /\ n \in Int /\ n - 1 \in Int
    BY <1>3
  <1>5. PICK c \in SUBSET {"r", "w"} : Closed(io, n) = [io EXCEPT !.closed = c]
    BY <1>2, <1>4, ClosedIs
  <1> DEFINE x == [io EXCEPT !.closed = c]
             y == [x EXCEPT !.result = n - 1, !.error = TRUE]
  <1>6. /\ x \in IoRec /\ SameCall(io, x) /\ x.watch = io.watch
        /\ x.iov = io.iov
    BY <1>2, <1>5 DEF IoRec, SameCall
  <1>7. io' = Cleanup(y)
    BY <1>1, <1>5
  <1> HIDE DEF x
  <1>8. /\ y \in IoRec /\ SameCall(x, y) /\ SameRest(x, y)
        /\ y.result = n - 1 /\ y.error = TRUE
    BY <1>4, <1>6, ResultIs
  <1> HIDE DEF y
  <1>9. y.op \in VecOps /\ y.watch = io.watch /\ y.iov = io.iov
    BY <1>2, <1>6, <1>8 DEF SameCall, SameRest
  <1>10. /\ io' \in IoRec /\ SameCall(y, io') /\ io'.iov = io.iov
         /\ io'.result = n - 1 /\ io'.error = TRUE
         /\ io'.watch = io.watch /\ io'.tmp = FALSE
    BY <1>7, <1>8, <1>9, CleanupIs
  <1>11. SameCall(io, io')
    BY <1>6, <1>8, <1>10 DEF SameCall
  <1>12. xfer' \in XferRec /\ xfer'.total = xfer.total
    BY <1>1, <1>3, <1>4, MovedIs DEF Shape
  <1>13. upd' \in BOOLEAN
    BY <1>1, <1>2, <1>10, RunHandlerIs
  <1>14. io'.result \in -1..(2 * xfer'.total)
    <2>1. xfer.total \in Nat /\ n <= xfer.total
      BY <1>3, <1>4 DEF Shape, XferRec
    <2> QED
      BY <1>4, <1>10, <1>12, <2>1
  <1>15. Shape(io', xfer', upd')
    BY <1>10, <1>11, <1>12, <1>13, <1>14 DEF Shape, SameCall
  <1> QED
    BY <1>1, <1>2, <1>10, <1>11, <1>15

\* A connection is in progress, or it is there.
LEMMA ConnectIs ==
  ASSUME Shape(io, xfer, upd), CallConnect
  PROVE  /\ Shape(io', xfer', upd') /\ SameCall(io, io') /\ SameData(io, io')
         /\ xfer' = xfer /\ at = "call" /\ io.op = "connect"
         /\ \/ /\ at' = "loop" /\ upd' = FALSE
               /\ io'.watch = "finish" /\ io'.active
            \/ /\ RunHandler(io')
               /\ io.watch = "finish" => io'.watch = "none"
               /\ io.watch # "finish" => io'.watch = io.watch
  <1>1. /\ at = "call" /\ io.op = "connect" /\ xfer' = xfer
        /\ io \in IoRec /\ upd \in BOOLEAN
    BY DEF CallConnect, Shape
  <1>2. "none" \in Watches /\ "finish" \in Watches
    BY DEF Watches
  <1>3. CASE io' = Armed(io, "finish") /\ at' = "loop" /\ upd' = FALSE
    <2>1. /\ io' \in IoRec /\ SameCall(io, io') /\ SameData(io, io')
          /\ io'.watch = "finish" /\ io'.active
      BY <1>1, <1>2, <1>3, ArmedIs
    <2>2. Shape(io', xfer', upd')
      BY <1>1, <1>3, <2>1 DEF Shape, SameCall, SameData
    <2> QED
      BY <1>1, <1>3, <2>1, <2>2, Zenon
  <1>4. CASE LET x == IF io.watch = "finish" THEN Armed(io, "none") ELSE io
             IN  io' = x /\ RunHandler(x)
    <2>1. /\ io' = IF io.watch = "finish" THEN Armed(io, "none") ELSE io
          /\ RunHandler(io')
      BY <1>4
    <2>2. /\ io' \in IoRec /\ SameCall(io, io') /\ SameData(io, io')
          /\ io.watch = "finish" => io'.watch = "none"
          /\ io.watch # "finish" => io'.watch = io.watch
      <3>1. CASE io.watch = "finish"
        BY <1>1, <1>2, <2>1, <3>1, ArmedIs
      <3>2. CASE io.watch # "finish"
        BY <1>1, <2>1, <3>2 DEF SameCall, SameData
      <3> QED
        BY <3>1, <3>2
    <2>3. upd' \in BOOLEAN
      BY <1>1, <2>1, <2>2, RunHandlerIs
    <2>4. Shape(io', xfer', upd')
      BY <1>1, <2>2, <2>3 DEF Shape, SameCall, SameData
    <2> QED
      BY <1>1, <2>1, <2>2, <2>4, Zenon
  <1> QED
    BY <1>3, <1>4 DEF CallConnect

\* The watcher's event: what it leads to depends on what is waited for.
LEMMA EventIs ==
  ASSUME Shape(io, xfer, upd), NEW ev, Event(ev)
  PROVE  /\ Shape(io', xfer', upd') /\ xfer' = xfer
         /\ at = "loop" /\ io.active
         /\ \/ /\ io.watch = "none" /\ at' = "abort" /\ io' = io /\ upd' = upd
            \/ /\ io.watch = "finish" /\ at' \in {"loop", "call"}
               /\ io' = io /\ upd' = upd
            \/ /\ io.watch = "retry" /\ upd' = FALSE
               /\ \/ at' = "loop" /\ io' = io
                  \/ at' = "call" /\ io' = [io EXCEPT !.watch = "none"]
            \/ /\ io.watch \in Polls
               /\ \/ at' = "loop" /\ io' = io /\ upd' = upd
                  \/ /\ io' = [io EXCEPT !.watch = "none"]
                     /\ RunHandler(io)
  <1>1. /\ at = "loop" /\ io.active /\ xfer' = xfer
        /\ io \in IoRec /\ upd \in BOOLEAN /\ io.watch \in Watches
    BY DEF Event, Shape, IoRec
  <1>2. \/ /\ io.watch = "none" /\ at' = "abort" /\ io' = io /\ upd' = upd
        \/ /\ io.watch = "finish" /\ at' \in {"loop", "call"}
           /\ io' = io /\ upd' = upd
        \/ /\ io.watch = "retry" /\ upd' = FALSE
           /\ \/ at' = "loop" /\ io' = io
              \/ at' = "call" /\ io' = [io EXCEPT !.watch = "none"]
        \/ /\ io.watch \in Polls
           /\ \/ at' = "loop" /\ io' = io /\ upd' = upd
              \/ /\ io' = [io EXCEPT !.watch = "none"]
                 /\ RunHandler(io)
    <2>1. CASE io.watch = "none"
      <3>1. io.watch \notin Polls
        BY <2>1 DEF Polls
      <3>2. at' = "abort" /\ io' = io /\ upd' = upd
        BY <2>1, <3>1, Zenon DEF Event
      <3> QED
        BY <2>1, <3>2, Zenon
    <2>2. CASE io.watch = "finish"
      <3>1. io.watch \notin Polls
        BY <2>2 DEF Polls
      <3>2. /\ IF "w" \in ev THEN at' = "call" ELSE at' = at
            /\ io' = io /\ upd' = upd
        BY <2>2, <3>1, Zenon DEF Event
      <3> QED
        BY <1>1, <2>2, <3>2, Zenon
    <2>3. CASE io.watch = "retry"
      <3>1. io.watch \notin Polls
        BY <2>3 DEF Polls
      <3>2. /\ IF RetryMatch(io.op, ev)
               THEN at' = "call" /\ io' = [io EXCEPT !.watch = "none"]
               ELSE at' = at /\ io' = io
            /\ upd' = FALSE
        BY <2>3, <3>1, Zenon DEF Event
      <3> QED
        BY <1>1, <2>3, <3>2, Zenon
    <2>4. CASE io.watch \in Polls
      <3>1. io.watch \notin {"none", "finish", "retry"}
        BY <2>4 DEF Polls
      <3>2. IF PollMatch(io.watch, ev)
            THEN io' = [io EXCEPT !.watch = "none"] /\ RunHandler(io)
            ELSE io' = io /\ at' = at /\ upd' = upd
        BY <2>4, <3>1, Zenon DEF Event
      <3> QED
        BY <1>1, <2>4, <3>2, Zenon
    <2> QED
      BY <1>1, <2>1, <2>2, <2>3, <2>4, Zenon DEF Watches
  <1>3. upd' \in BOOLEAN
    BY <1>1, <1>2, RunHandlerIs
  <1>4. io' \in IoRec /\ io'.iov = io.iov /\ io'.result = io.result
          /\ io'.op = io.op
    <2>1. CASE io' = io
      BY <1>1, <2>1
    <2>2. CASE io' = [io EXCEPT !.watch = "none"]
      BY <1>1, <2>2 DEF IoRec, Watches
    <2> QED
      BY <1>2, <2>1, <2>2
  <1>5. Shape(io', xfer', upd')
    BY <1>1, <1>3, <1>4 DEF Shape
  <1> QED
    BY <1>1, <1>2, <1>5, Zenon

\* An io object that waits for nothing any more.
LEMMA UnwatchedIs ==
  ASSUME NEW x \in IoRec
  PROVE  LET y == [x EXCEPT !.watch = "none"]
         IN  /\ y \in IoRec /\ SameCall(x, y) /\ SameData(x, y)
             /\ y.active = x.active /\ y.watch = "none"
  BY DEF IoRec, SameCall, SameData, Watches

(************************ the steps of a coroutine *************************)

\* A new operation.
LEMMA StartIs ==
  ASSUME Shape(io, xfer, upd), NEW op \in IoOps, NEW v \in Seq(Nat),
         NEW partial \in BOOLEAN, op \in BufOps => Len(v) = 1,
         Start(op, v, partial)
  PROVE  /\ Shape(io', xfer', upd') /\ at' = "call" /\ upd' = upd
         /\ io'.op = op /\ io'.result = 0 /\ io'.error = FALSE
         /\ io'.iov = Entries(v) /\ io'.watch = io.watch
         /\ io'.catches = io.catches
         /\ op \in VecOps => io'.tmp = FALSE
         /\ op \notin VecOps => io'.tmp = io.tmp
         /\ xfer'.total = Sum(v) /\ xfer'.next = 0 /\ xfer'.skew = FALSE
  <1> DEFINE e == Entries(v)
             t == IF op \in VecOps THEN FALSE ELSE io.tmp
             r == ~partial
  <1>1. io \in IoRec /\ upd \in BOOLEAN /\ t \in BOOLEAN /\ r \in BOOLEAN
    BY DEF Shape, IoRec
  <1>2. /\ e \in Seq(Entry) /\ Len(e) = Len(v)
        /\ Left(e) = Sum(v) /\ Sum(v) \in Nat
    BY EntriesType, SumSmall
  <1>3. /\ io' = [io EXCEPT !.op = op, !.result = 0, !.error = FALSE,
                    !.repeat = r, !.iov = e, !.tmp = t]
        /\ xfer' = [total |-> Sum(v), next |-> 0, skew |-> FALSE]
        /\ at' = "call" /\ upd' = upd
    BY DEF Start
  <1>4. t = IF op \in VecOps THEN FALSE ELSE io.tmp
    OBVIOUS
  <1> HIDE DEF e, t, r
  <1>5. io' \in IoRec
    <2> DEFINE x == [io EXCEPT !.result = 0, !.error = FALSE]
    <2>1. 0 \in Int /\ FALSE \in BOOLEAN /\ op \in IoOps \cup {"none"}
      OBVIOUS
    <2>2. x \in IoRec
      BY <1>1, <2>1, ResultIs
    <2>3. io' = [x EXCEPT !.op = op, !.repeat = r, !.iov = e, !.tmp = t]
      BY <1>3
    <2> HIDE DEF x
    <2> QED
      BY <1>1, <1>2, <2>1, <2>2, <2>3 DEF IoRec
  <1>6. /\ io'.op = op /\ io'.result = 0 /\ io'.error = FALSE
        /\ io'.iov = e /\ io'.watch = io.watch /\ io'.tmp = t
        /\ io'.catches = io.catches
    BY <1>1, <1>3 DEF IoRec
  <1>7. /\ xfer' \in XferRec /\ xfer'.total = Sum(v) /\ xfer'.next = 0
        /\ xfer'.skew = FALSE
    BY <1>2, <1>3 DEF XferRec
  <1>8. Left(io'.iov) <= xfer'.total /\ io'.result \in -1..(2 * xfer'.total)
    BY <1>2, <1>6, <1>7
  <1>9. Shape(io', xfer', upd')
    BY <1>1, <1>2, <1>3, <1>5, <1>6, <1>7, <1>8 DEF Shape
  <1> QED
    BY <1>3, <1>4, <1>6, <1>7, <1>9, Zenon DEF e

\* A wait for the descriptor.
LEMMA WaitIs ==
  ASSUME Shape(io, xfer, upd), NEW w \in Polls, Wait(w)
  PROVE  /\ Shape(io', xfer', upd') /\ SameCall(io, io')
         /\ io'.watch = w /\ io'.active /\ io'.result = 0
         /\ io'.tmp = io.tmp /\ xfer' = xfer
         /\ at' = "loop" /\ upd' = FALSE
  <1> DEFINE x == Armed(io, w)
  <1>1. w \in Watches /\ w # "none"
    BY DEF Watches, Polls
  <1>2. /\ x \in IoRec /\ SameCall(io, x) /\ SameData(io, x)
        /\ x.watch = w /\ x.active
    BY <1>1, ArmedIs DEF Shape
  <1>3. /\ io' = [x EXCEPT !.error = FALSE, !.result = 0]
        /\ at' = "loop" /\ upd' = FALSE /\ xfer' = xfer
    BY DEF Wait
  <1> HIDE DEF x
  <1>4. 0 \in Int /\ FALSE \in BOOLEAN
    OBVIOUS
  <1>5. /\ io' \in IoRec /\ SameCall(x, io') /\ SameRest(x, io')
        /\ io'.result = 0
    <2>1. io' = [x EXCEPT !.result = 0, !.error = FALSE]
      BY <1>3
    <2> QED
      BY <1>2, <1>4, <2>1, ResultIs
  <1>6. /\ SameCall(io, io') /\ io'.watch = w /\ io'.active
        /\ io'.tmp = io.tmp /\ io'.iov = io.iov
    BY <1>2, <1>5 DEF SameCall, SameData, SameRest
  <1>7. 0 \in -1..(2 * xfer.total)
    BY DEF Shape, XferRec
  <1>8. Shape(io', xfer', upd')
    BY <1>3, <1>5, <1>6, <1>7 DEF Shape, SameCall
  <1> QED
    BY <1>3, <1>5, <1>6, <1>8, Zenon

\* The handlers return, and the watcher is brought up to date if one ran.
LEMMA ReturnIs ==
  ASSUME Shape(io, xfer, upd), NEW to, Return(to)
  PROVE  /\ Shape(io', xfer', upd') /\ SameCall(io, io') /\ SameData(io, io')
         /\ io'.watch = io.watch
         /\ upd => (io'.active <=> io.watch # "none")
         /\ at' = to /\ upd' = FALSE /\ xfer' = xfer
  <1>1. /\ io' = IF upd THEN watch_update(io) ELSE io
        /\ at' = to /\ upd' = FALSE /\ xfer' = xfer
        /\ io \in IoRec /\ upd \in BOOLEAN
    BY DEF Return, Returned, Shape
  <1>2. /\ io' \in IoRec /\ SameCall(io, io') /\ SameData(io, io')
        /\ io'.watch = io.watch
        /\ upd => (io'.active <=> io.watch # "none")
    <2>1. CASE upd
      <3> DEFINE b == io.watch # "none"
      <3>1. io' = [io EXCEPT !.active = b] /\ b \in BOOLEAN
        BY <1>1, <2>1 DEF watch_update
      <3> HIDE DEF b
      <3>2. /\ io' \in IoRec /\ SameCall(io, io') /\ SameData(io, io')
            /\ io'.watch = io.watch /\ io'.active = b
        BY <1>1, <3>1 DEF IoRec, SameCall, SameData
      <3>3. io'.active <=> b
        BY <3>2
      <3> QED
        BY <3>2, <3>3, Zenon DEF b
    <2>2. CASE ~upd
      BY <1>1, <2>2 DEF SameCall, SameData
    <2> QED
      BY <1>1, <2>1, <2>2
  <1>3. Shape(io', xfer', upd')
    BY <1>1, <1>2 DEF Shape, SameCall, SameData
  <1> QED
    BY <1>1, <1>2, <1>3, Zenon

\* What is under way is given up.
LEMMA AbortedIs ==
  ASSUME Shape(io, xfer, upd), io' = Aborted(io), xfer' = xfer,
         upd' \in BOOLEAN
  PROVE  /\ Shape(io', xfer', upd') /\ SameCall(io, io')
         /\ io'.iov = io.iov /\ io'.result = -1
         /\ io'.watch = "none" /\ ~io'.active
         /\ io.op \in VecOps => io'.tmp = FALSE
         /\ io.op \notin VecOps => io'.tmp = io.tmp
  <1> DEFINE x == Cleanup(io)
             y == Armed(x, "none")
  <1>1. "none" \in Watches /\ -1 \in Int /\ TRUE \in BOOLEAN
    BY DEF Watches
  <1>2. /\ x \in IoRec /\ SameCall(io, x) /\ x.iov = io.iov
        /\ io.op \in VecOps => x.tmp = FALSE
        /\ io.op \notin VecOps => x.tmp = io.tmp
    BY CleanupIs DEF Shape
  <1>3. io' = [y EXCEPT !.error = TRUE, !.result = -1]
    BY DEF Aborted
  <1> HIDE DEF x
  <1>4. /\ y \in IoRec /\ SameCall(x, y) /\ SameData(x, y)
        /\ y.watch = "none" /\ ~y.active
    BY <1>1, <1>2, ArmedIs
  <1> HIDE DEF y
  <1>5. /\ io' \in IoRec /\ SameCall(y, io') /\ SameRest(y, io')
        /\ io'.result = -1
    <2>1. io' = [y EXCEPT !.result = -1, !.error = TRUE]
      BY <1>3
    <2> DEFINE r == -1
               z == [y EXCEPT !.result = r, !.error = TRUE]
    <2>2. r \in Int
      OBVIOUS
    <2> HIDE DEF r
    <2>3. z \in IoRec /\ SameCall(y, z) /\ SameRest(y, z) /\ z.result = r
      BY <1>1, <1>4, <2>2, ResultIs
    <2>4. io' = z
      BY <2>1 DEF r
    <2> HIDE DEF z
    <2> QED
      BY <2>3, <2>4 DEF r
  <1>6. /\ SameCall(io, io') /\ io'.iov = io.iov
        /\ io'.watch = "none" /\ ~io'.active /\ io'.tmp = x.tmp
    BY <1>2, <1>4, <1>5 DEF SameCall, SameData, SameRest
  <1>7. -1 \in -1..(2 * xfer.total)
    BY DEF Shape, XferRec
  <1>8. Shape(io', xfer', upd')
    BY <1>5, <1>6, <1>7 DEF Shape, SameCall
  <1> QED
    BY <1>2, <1>5, <1>6, <1>8

(************** a coroutine that starts one operation at a time ************)

\* The operation on one buffer is where the bytes moved so far end.
Progress(x, xf) ==
  /\ ~x.error /\ x.result = xf.next
  /\ x.iov[1].base = xf.next
  /\ x.iov[1].base + x.iov[1].len = xf.total

\* The coroutine goes on with the number of bytes that were moved.
Resumed(x, xf) ==
  ~x.error /\ x.result > 0 =>
     /\ x.result = xf.next
     /\ x.repeat /\ x.closed = {} => xf.next = xf.total

\* The coroutine without an error handler: in the event loop it waits for
\* something, in its handler for nothing, and a temporary vector is only
\* there while its operation is under way.
Waiting(x, a, u) ==
  /\ ~x.catches /\ a \in {"loop", "call", "handler", "overrun", "end"}
  /\ a = "loop" => x.active /\ x.watch # "none"
  /\ a = "loop" /\ x.watch = "finish" => x.op = "connect"
  /\ a = "loop" /\ x.watch = "retry" => x.op # "none"
  /\ a = "loop" /\ x.watch \in Polls => ~x.tmp /\ x.result = 0
  /\ a = "call" => x.op # "none"
  /\ a = "call" /\ x.watch # "none" => x.watch = "finish" /\ x.op = "connect"
  /\ a = "handler" => x.watch = "none" /\ u /\ ~x.tmp
  /\ a = "end" => ~x.active /\ ~x.tmp
  /\ x.tmp => x.op \in VecOps

\* What was moved of one buffer, while the operation is under way and when
\* the coroutine goes on.
Bytes(x, a, xf) ==
  x.op \in BufOps =>
    /\ ~xf.skew
    /\ a = "call" \/ (a = "loop" /\ x.watch = "retry") => Progress(x, xf)
    /\ a = "handler" => Resumed(x, xf)

CoroInv(x, a, u, xf) ==
  Shape(x, xf, u) /\ Waiting(x, a, u) /\ Bytes(x, a, xf)

\* An operation on one buffer that is called waits for nothing.
LEMMA CalledWaitsForNothing ==
  ASSUME CoroInv(io, at, upd, xfer), at = "call", io.op # "connect"
  PROVE  io.watch = "none" /\ ~io.catches
  BY DEF CoroInv, Waiting

\* A call that moves bytes.
LEMMA CoroMoves ==
  ASSUME CoroInv(io, at, upd, xfer), CallMoves
  PROVE  CoroInv(io', at', upd', xfer')
  <1>1. Shape(io, xfer, upd) /\ Waiting(io, at, upd) /\ Bytes(io, at, xfer)
    BY DEF CoroInv
  <1>2. at = "call" /\ io.op \in BufOps \cup VecOps
    BY DEF CallMoves
  <1>3. io.watch = "none" /\ ~io.catches
    BY <1>2, CalledWaitsForNothing DEF BufOps, VecOps
  <1>4. Shape(io', xfer', upd')
    BY <1>1, MovesShape
  <1>5. PICK n \in 0..Left(io.iov) :
           /\ io' \in IoRec /\ SameCall(io, io') /\ io'.error = io.error
           /\ io.op \in ReadOps \/ n > 0
           /\ io'.result = io.result + n
           /\ Left(io'.iov) <= Left(io.iov)
           /\ xfer' = Moved(io.iov, n)
           /\ io.op \in BufOps => io'.tmp = io.tmp /\ Len(io'.iov) = 1
           /\ \/ /\ at' = "loop" /\ upd' = FALSE /\ n > 0 /\ io.repeat
                 /\ io'.watch = "retry" /\ io'.active
                 /\ io.op \in BufOps => Advanced(io, n, io'.iov, FALSE)
              \/ /\ RunHandler(io')
                 /\ io'.watch = io.watch /\ io'.active = io.active
                 /\ io.op \in VecOps => ~io'.tmp
                 /\ io.op \in BufOps /\ n = 0 => io'.closed # {}
                 /\ io.op \in BufOps /\ n > 0 /\ io.repeat =>
                      Advanced(io, n, io'.iov, TRUE)
    BY <1>1, MovesIs DEF Shape
  <1>6. io.op \in BufOps => io.op \notin VecOps
    BY DEF BufOps, VecOps
  <1>7. upd \in BOOLEAN /\ io'.catches = io.catches /\ io'.op = io.op
          /\ io'.repeat = io.repeat
    BY <1>1, <1>5 DEF Shape, SameCall
  <1>8. CASE /\ at' = "loop" /\ upd' = FALSE /\ n > 0 /\ io.repeat
             /\ io'.watch = "retry" /\ io'.active
             /\ io.op \in BufOps => Advanced(io, n, io'.iov, FALSE)
    <2>1. Waiting(io', at', upd')
      BY <1>1, <1>2, <1>3, <1>5, <1>6, <1>7, <1>8 DEF Waiting, Polls
    <2>2. Bytes(io', at', xfer')
      <3> SUFFICES ASSUME io.op \in BufOps
                   PROVE  ~xfer'.skew /\ Progress(io', xfer')
        BY <1>7, <1>8 DEF Bytes
      <3>1. Progress(io, xfer) /\ ~xfer.skew
        BY <1>1, <1>2 DEF Bytes
      <3>2. /\ xfer'.total = xfer.total /\ xfer'.next = io.iov[1].base + n
            /\ xfer'.skew <=> xfer.skew \/ io.iov[1].base # xfer.next
        BY <1>1, <1>5, <1>8, MovedIs DEF Shape, IoRec
      <3>3. Advanced(io, n, io'.iov, FALSE) /\ n \in Int
        <4>1. n \in Int
          BY <1>5
        <4> QED
          BY <1>8, <4>1
      <3>4. io.iov[1].base \in Int /\ io.iov[1].len \in Int
        <4>1. io.iov \in Seq(Entry) /\ Len(io.iov) = 1
          BY <1>1 DEF Shape, IoRec
        <4>2. io.iov[1] \in Entry
          BY <4>1
        <4> QED
          BY <4>2 DEF Entry
      <3>5. ~xfer'.skew
        BY <3>1, <3>2 DEF Progress
      <3>6. /\ io'.iov[1].base = xfer'.next
            /\ io'.iov[1].base + io'.iov[1].len = xfer'.total
        BY <3>1, <3>2, <3>3, <3>4 DEF Progress, Advanced
      <3>7. ~io'.error /\ io'.result = xfer'.next
        BY <1>5, <3>1, <3>2 DEF Progress
      <3> QED
        BY <3>5, <3>6, <3>7 DEF Progress
    <2> QED
      BY <1>4, <2>1, <2>2 DEF CoroInv
  <1>9. CASE /\ RunHandler(io')
             /\ io'.watch = io.watch /\ io'.active = io.active
             /\ io.op \in VecOps => ~io'.tmp
             /\ io.op \in BufOps /\ n = 0 => io'.closed # {}
             /\ io.op \in BufOps /\ n > 0 /\ io.repeat =>
                  Advanced(io, n, io'.iov, TRUE)
    <2>1. at' = "handler" /\ upd' = TRUE
      BY <1>3, <1>5, <1>7, <1>9, RunHandlerIs
    <2>2. Waiting(io', at', upd')
      BY <1>1, <1>2, <1>3, <1>5, <1>6, <1>7, <1>9, <2>1 DEF Waiting
    <2>3. Bytes(io', at', xfer')
      <3> SUFFICES ASSUME io.op \in BufOps
                   PROVE  ~xfer'.skew /\ Resumed(io', xfer')
        BY <1>7, <2>1 DEF Bytes
      <3>1. Progress(io, xfer) /\ ~xfer.skew
        BY <1>1, <1>2 DEF Bytes
      <3>2. io.iov \in Seq(Entry) /\ Len(io.iov) = 1 /\ Left(io.iov) \in Nat
        BY <1>1, LengthsType DEF Shape, IoRec
      <3>3. io.iov[1].base \in Int /\ io.iov[1].len \in Int
        <4>1. io.iov[1] \in Entry
          BY <3>2
        <4> QED
          BY <4>1 DEF Entry
      <3>4. n = 0 \/ n > 0
        BY <1>5, <3>2
      <3>5. CASE n = 0
        <4>1. xfer' = xfer
          BY <1>1, <1>5, <3>2, <3>5, MovedIs DEF Shape
        <4>2. io'.result = xfer'.next /\ io'.closed # {}
          BY <1>1, <1>5, <1>9, <3>1, <3>5, <4>1 DEF Progress, Shape, IoRec
        <4> QED
          BY <3>1, <4>1, <4>2 DEF Resumed
      <3>6. CASE n > 0
        <4>1. /\ xfer'.total = xfer.total /\ xfer'.next = io.iov[1].base + n
              /\ xfer'.skew <=> xfer.skew \/ io.iov[1].base # xfer.next
          BY <1>1, <1>5, <3>2, <3>6, MovedIs DEF Shape
        <4>2. ~xfer'.skew
          BY <3>1, <4>1 DEF Progress
        <4>3. io'.result = xfer'.next
          BY <1>5, <3>1, <4>1 DEF Progress
        <4>4. io.repeat => xfer'.next = xfer'.total
          BY <1>5, <1>9, <3>1, <3>3, <3>6, <4>1 DEF Progress, Advanced
        <4> QED
          BY <1>7, <4>2, <4>3, <4>4 DEF Resumed
      <3> QED
        BY <3>4, <3>5, <3>6
    <2> QED
      BY <1>4, <2>2, <2>3 DEF CoroInv
  <1> QED
    BY <1>5, <1>8, <1>9

\* The other calls.
LEMMA CoroCalls ==
  ASSUME CoroInv(io, at, upd, xfer),
         CallPlain \/ CallBlocks \/ CallConnect \/ CallFails
  PROVE  CoroInv(io', at', upd', xfer')
  <1>1. Shape(io, xfer, upd) /\ Waiting(io, at, upd) /\ Bytes(io, at, xfer)
          /\ upd \in BOOLEAN
    BY DEF CoroInv, Shape
  <1>2. CASE CallPlain
    <2>1. /\ Shape(io', xfer', upd') /\ io' = io /\ RunHandler(io')
          /\ xfer' = xfer /\ at = "call" /\ io.op \in {"accept", "close"}
      BY <1>1, <1>2, PlainIs
    <2>2. io.watch = "none" /\ ~io.catches
      BY <2>1, CalledWaitsForNothing
    <2>3. at' = "handler" /\ upd' = TRUE
      BY <1>1, <2>1, <2>2, RunHandlerIs DEF Shape
    <2>4. Waiting(io', at', upd')
      BY <1>1, <2>1, <2>2, <2>3 DEF Waiting, VecOps
    <2>5. Bytes(io', at', xfer')
      BY <2>1 DEF Bytes, BufOps
    <2> QED
      BY <2>1, <2>4, <2>5 DEF CoroInv
  <1>3. CASE CallBlocks
    <2>1. /\ Shape(io', xfer', upd') /\ SameCall(io, io')
          /\ io'.iov = io.iov /\ io'.tmp = io.tmp
          /\ io'.result = io.result /\ io'.error = io.error
          /\ io'.watch = "retry" /\ io'.active
          /\ at' = "loop" /\ upd' = FALSE /\ xfer' = xfer
          /\ at = "call" /\ io.op \notin {"connect", "close", "none"}
      BY <1>1, <1>3, BlocksIs
    <2>2. Waiting(io', at', upd')
      BY <1>1, <2>1 DEF Waiting, SameCall, Polls
    <2>3. Bytes(io', at', xfer')
      BY <1>1, <2>1 DEF Bytes, SameCall, Progress
    <2> QED
      BY <2>1, <2>2, <2>3 DEF CoroInv
  <1>4. CASE CallConnect
    <2>1. /\ Shape(io', xfer', upd') /\ SameCall(io, io') /\ SameData(io, io')
          /\ xfer' = xfer /\ at = "call" /\ io.op = "connect"
          /\ \/ /\ at' = "loop" /\ upd' = FALSE
                /\ io'.watch = "finish" /\ io'.active
             \/ /\ RunHandler(io')
                /\ io.watch = "finish" => io'.watch = "none"
                /\ io.watch # "finish" => io'.watch = io.watch
      BY <1>1, <1>4, ConnectIs
    <2>2. ~io.catches /\ io'.catches = io.catches /\ io' \in IoRec
      BY <1>1, <2>1 DEF Waiting, SameCall, Shape
    <2>3. Waiting(io', at', upd')
      <3>1. ~io'.tmp /\ io'.op = "connect"
        BY <1>1, <2>1 DEF Waiting, SameCall, SameData, VecOps
      <3>2. CASE at' = "loop" /\ io'.watch = "finish" /\ io'.active
        BY <2>2, <3>1, <3>2 DEF Waiting, Polls
      <3>3. CASE /\ RunHandler(io')
                 /\ io.watch = "finish" => io'.watch = "none"
                 /\ io.watch # "finish" => io'.watch = io.watch
        <4>1. at' = "handler" /\ upd' = TRUE
          BY <1>1, <2>2, <3>3, RunHandlerIs
        <4>2. io'.watch = "none"
          BY <1>1, <2>1, <3>3 DEF Waiting
        <4> QED
          BY <2>2, <3>1, <4>1, <4>2 DEF Waiting
      <3> QED
        BY <2>1, <3>2, <3>3
    <2>4. Bytes(io', at', xfer')
      BY <2>1 DEF Bytes, SameCall, BufOps
    <2> QED
      BY <2>1, <2>3, <2>4 DEF CoroInv
  <1>5. CASE CallFails
    <2>1. /\ Shape(io', xfer', upd') /\ SameCall(io, io')
          /\ io'.iov = io.iov /\ io'.result = -1 /\ io'.error = TRUE
          /\ io.watch = "finish" => io'.watch = "none" /\ io'.tmp = io.tmp
          /\ io.watch # "finish" =>
               /\ io'.watch = io.watch
               /\ io.op \in VecOps => io'.tmp = FALSE
               /\ io.op \notin VecOps => io'.tmp = io.tmp
          /\ RunHandler(io') /\ xfer' = xfer /\ at = "call"
      BY <1>1, <1>5, FailsIs
    <2>2. ~io.catches /\ io'.catches = io.catches /\ io' \in IoRec
            /\ io'.op = io.op
      BY <1>1, <2>1 DEF Waiting, SameCall, Shape
    <2>3. at' = "handler" /\ upd' = TRUE
      BY <1>1, <2>1, <2>2, RunHandlerIs
    <2>4. io'.watch = "none" /\ ~io'.tmp
      <3>1. CASE io.watch = "finish"
        BY <1>1, <2>1, <3>1 DEF Waiting, VecOps
      <3>2. CASE io.watch # "finish"
        BY <1>1, <2>1, <3>2 DEF Waiting
      <3> QED
        BY <3>1, <3>2
    <2>5. Waiting(io', at', upd')
      BY <2>2, <2>3, <2>4 DEF Waiting
    <2>6. Bytes(io', at', xfer')
      BY <1>1, <2>1, <2>2, <2>3 DEF Bytes, Resumed
    <2> QED
      BY <2>1, <2>5, <2>6 DEF CoroInv
  <1> QED
    BY <1>2, <1>3, <1>4, <1>5

\* A copy of a vector that fails, or that kills the process.
LEMMA CoroCopies ==
  ASSUME CoroInv(io, at, upd, xfer), CallNoMemory \/ CallOverruns
  PROVE  CoroInv(io', at', upd', xfer')
  <1>1. Shape(io, xfer, upd) /\ Waiting(io, at, upd) /\ Bytes(io, at, xfer)
    BY DEF CoroInv
  <1>2. CASE CallNoMemory
    <2>1. /\ Shape(io', xfer', upd') /\ SameCall(io, io')
          /\ io'.error = TRUE /\ io'.watch = io.watch /\ ~io'.tmp
          /\ RunHandler(io') /\ at = "call" /\ io.op \in VecOps
      BY <1>1, <1>2, NoMemoryIs
    <2>2. io.op \notin BufOps /\ io.op # "connect"
      BY <2>1 DEF BufOps, VecOps
    <2>3. io.watch = "none" /\ ~io.catches
      BY <2>1, <2>2, CalledWaitsForNothing
    <2>4. io'.op = io.op /\ ~io'.catches /\ io' \in IoRec /\ upd \in BOOLEAN
      BY <1>1, <2>1, <2>3 DEF SameCall, Shape
    <2>5. at' = "handler" /\ upd' = TRUE
      BY <2>1, <2>4, RunHandlerIs
    <2>6. Waiting(io', at', upd')
      BY <2>1, <2>3, <2>4, <2>5 DEF Waiting
    <2>7. Bytes(io', at', xfer')
      BY <2>2, <2>4 DEF Bytes
    <2> QED
      BY <2>1, <2>6, <2>7 DEF CoroInv
  <1>3. CASE CallOverruns
    <2>1. at' = "overrun" /\ UNCHANGED <<io, upd, xfer>>
      BY <1>3 DEF CallOverruns
    <2>2. Waiting(io', at', upd') /\ Bytes(io', at', xfer')
      BY <1>1, <2>1 DEF Waiting, Bytes
    <2> QED
      BY <1>1, <2>1, <2>2 DEF CoroInv
  <1> QED
    BY <1>2, <1>3

\* Events, which never find the coroutine waiting for nothing.
LEMMA CoroEvent ==
  ASSUME CoroInv(io, at, upd, xfer), NEW ev, Event(ev)
  PROVE  CoroInv(io', at', upd', xfer')
  <1>1. Shape(io, xfer, upd) /\ Waiting(io, at, upd) /\ Bytes(io, at, xfer)
          /\ upd \in BOOLEAN /\ io \in IoRec
    BY DEF CoroInv, Shape
  <1>2. /\ Shape(io', xfer', upd') /\ xfer' = xfer
        /\ at = "loop" /\ io.active
        /\ \/ /\ io.watch = "none" /\ at' = "abort" /\ io' = io /\ upd' = upd
           \/ /\ io.watch = "finish" /\ at' \in {"loop", "call"}
              /\ io' = io /\ upd' = upd
           \/ /\ io.watch = "retry" /\ upd' = FALSE
              /\ \/ at' = "loop" /\ io' = io
                 \/ at' = "call" /\ io' = [io EXCEPT !.watch = "none"]
           \/ /\ io.watch \in Polls
              /\ \/ at' = "loop" /\ io' = io /\ upd' = upd
                 \/ /\ io' = [io EXCEPT !.watch = "none"]
                    /\ RunHandler(io)
    BY <1>1, EventIs
  <1>3. io.watch # "none" /\ ~io.catches
    BY <1>1, <1>2 DEF Waiting
  <1>4. CASE io' = io /\ at' = "loop"
    <2>1. Waiting(io', at', upd') /\ Bytes(io', at', xfer')
      BY <1>1, <1>2, <1>4 DEF Waiting, Bytes
    <2> QED
      BY <1>2, <2>1 DEF CoroInv
  <1>5. CASE io.watch = "finish" /\ io' = io /\ at' = "call"
    <2>1. io.op = "connect"
      BY <1>1, <1>2, <1>5 DEF Waiting
    <2>2. Waiting(io', at', upd')
      BY <1>1, <1>3, <1>5, <2>1 DEF Waiting
    <2>3. Bytes(io', at', xfer')
      BY <1>5, <2>1 DEF Bytes, BufOps
    <2> QED
      BY <1>2, <2>2, <2>3 DEF CoroInv
  <1>6. ASSUME io' = [io EXCEPT !.watch = "none"]
        PROVE  /\ io' \in IoRec /\ SameCall(io, io') /\ SameData(io, io')
               /\ io'.watch = "none"
    BY <1>1, <1>6, UnwatchedIs
  <1>7. CASE /\ io.watch = "retry" /\ at' = "call" /\ upd' = FALSE
             /\ io' = [io EXCEPT !.watch = "none"]
    <2>1. io.op # "none"
      BY <1>1, <1>2, <1>7 DEF Waiting
    <2>2. Waiting(io', at', upd')
      BY <1>1, <1>3, <1>6, <1>7, <2>1 DEF Waiting, SameCall, SameData
    <2>3. Bytes(io', at', xfer')
      BY <1>1, <1>2, <1>6, <1>7 DEF Bytes, SameCall, SameData, Progress
    <2> QED
      BY <1>2, <2>2, <2>3 DEF CoroInv
  <1>8. CASE /\ io.watch \in Polls /\ RunHandler(io)
             /\ io' = [io EXCEPT !.watch = "none"]
    <2>1. at' = "handler" /\ upd' = TRUE
      BY <1>1, <1>3, <1>8, RunHandlerIs
    <2>2. Waiting(io', at', upd')
      BY <1>1, <1>2, <1>3, <1>6, <1>8, <2>1 DEF Waiting, SameCall, SameData
    <2>3. io'.result = 0
      BY <1>1, <1>2, <1>6, <1>8 DEF Waiting, SameData
    <2>4. Bytes(io', at', xfer')
      BY <1>1, <1>2, <1>6, <1>8, <2>1, <2>3 DEF Bytes, Resumed, SameCall
    <2> QED
      BY <1>2, <2>2, <2>4 DEF CoroInv
  <1> QED
    BY <1>2, <1>3, <1>4, <1>5, <1>7, <1>8

\* The steps of the event loop and the system.
LEMMA CoroSystem ==
  ASSUME CoroInv(io, at, upd, xfer), IoSystem
  PROVE  CoroInv(io', at', upd', xfer')
  BY CoroMoves, CoroCopies, CoroCalls, CoroEvent DEF IoSystem

\* An operation starts with the whole of its buffer to move.
LEMMA CoroStart ==
  ASSUME CoroInv(io, at, upd, xfer), at = "handler", NEW op \in IoOps,
         NEW v \in Seq(Nat), NEW partial \in BOOLEAN,
         op \in BufOps => Len(v) = 1, Start(op, v, partial)
  PROVE  CoroInv(io', at', upd', xfer') /\ at' = "call" /\ io'.op = op
           /\ io'.watch = "none"
  <1>1. Shape(io, xfer, upd) /\ Waiting(io, at, upd)
    BY DEF CoroInv
  <1>2. /\ Shape(io', xfer', upd') /\ at' = "call" /\ upd' = upd
        /\ io'.op = op /\ io'.result = 0 /\ io'.error = FALSE
        /\ io'.iov = Entries(v) /\ io'.watch = io.watch
        /\ io'.catches = io.catches
        /\ op \in VecOps => io'.tmp = FALSE
        /\ op \notin VecOps => io'.tmp = io.tmp
        /\ xfer'.total = Sum(v) /\ xfer'.next = 0 /\ xfer'.skew = FALSE
    BY <1>1, StartIs
  <1>3. io.watch = "none" /\ ~io.tmp /\ ~io.catches
    BY <1>1 DEF Waiting
  <1>4. op # "none"
    BY DEF IoOps, BufOps, VecOps
  <1>5. Waiting(io', at', upd')
    BY <1>2, <1>3, <1>4 DEF Waiting
  <1>6. Bytes(io', at', xfer')
    <2> SUFFICES ASSUME op \in BufOps
                 PROVE  Progress(io', xfer')
      BY <1>2 DEF Bytes
    <2>1. Entries(v)[1] = [base |-> 0, len |-> Sum(v)] /\ Sum(v) \in Nat
      BY EntriesType, SumSmall
    <2>2. io'.iov[1].base = 0 /\ io'.iov[1].len = Sum(v)
      BY <1>2, <2>1
    <2> QED
      BY <1>2, <2>1, <2>2 DEF Progress
  <1> QED
    BY <1>2, <1>3, <1>5, <1>6 DEF CoroInv

\* A wait.
LEMMA CoroWait ==
  ASSUME CoroInv(io, at, upd, xfer), at = "handler", NEW w \in Polls, Wait(w)
  PROVE  CoroInv(io', at', upd', xfer') /\ at' = "loop" /\ io'.watch = w
  <1>1. /\ Shape(io, xfer, upd) /\ Waiting(io, at, upd)
        /\ Bytes(io, at, xfer)
    BY DEF CoroInv
  <1>2. /\ Shape(io', xfer', upd') /\ SameCall(io, io')
        /\ io'.watch = w /\ io'.active /\ io'.result = 0
        /\ io'.tmp = io.tmp /\ xfer' = xfer
        /\ at' = "loop" /\ upd' = FALSE
    BY <1>1, WaitIs
  <1>3. w \notin {"none", "finish", "retry"}
    BY DEF Polls
  <1>4. ~io.tmp /\ ~io.catches
    BY <1>1 DEF Waiting
  <1>5. Waiting(io', at', upd')
    BY <1>2, <1>3, <1>4 DEF Waiting, SameCall
  <1>6. Bytes(io', at', xfer')
    BY <1>1, <1>2, <1>3 DEF Bytes, SameCall
  <1> QED
    BY <1>2, <1>5, <1>6 DEF CoroInv

\* The coroutine is finished.
LEMMA CoroReturn ==
  ASSUME CoroInv(io, at, upd, xfer), at = "handler", Return("end")
  PROVE  CoroInv(io', at', upd', xfer') /\ at' = "end"
  <1>1. /\ Shape(io, xfer, upd) /\ Waiting(io, at, upd)
        /\ Bytes(io, at, xfer)
    BY DEF CoroInv
  <1>2. /\ Shape(io', xfer', upd') /\ SameCall(io, io') /\ SameData(io, io')
        /\ io'.watch = io.watch
        /\ upd => (io'.active <=> io.watch # "none")
        /\ at' = "end" /\ upd' = FALSE /\ xfer' = xfer
    BY <1>1, ReturnIs
  <1>3. ~io.tmp /\ ~io.catches /\ upd /\ io.watch = "none"
    BY <1>1 DEF Waiting
  <1>4. Waiting(io', at', upd')
    BY <1>2, <1>3 DEF Waiting, SameCall, SameData
  <1>5. Bytes(io', at', xfer')
    BY <1>1, <1>2 DEF Bytes, SameCall
  <1> QED
    BY <1>2, <1>4, <1>5 DEF CoroInv

\* The coroutine is stopped while it waits, or collected.
LEMMA CoroStop ==
  ASSUME CoroInv(io, at, upd, xfer), io' = Aborted(io), at' = "end",
         upd' \in BOOLEAN, xfer' = xfer
  PROVE  CoroInv(io', at', upd', xfer')
  <1>1. /\ Shape(io, xfer, upd) /\ Waiting(io, at, upd)
        /\ Bytes(io, at, xfer)
    BY DEF CoroInv
  <1>2. /\ Shape(io', xfer', upd') /\ SameCall(io, io')
        /\ io'.iov = io.iov /\ io'.result = -1
        /\ io'.watch = "none" /\ ~io'.active
        /\ io.op \in VecOps => io'.tmp = FALSE
        /\ io.op \notin VecOps => io'.tmp = io.tmp
    BY <1>1, AbortedIs
  <1>3. ~io.catches /\ ~io'.tmp
    BY <1>1, <1>2 DEF Waiting
  <1>4. Waiting(io', at', upd')
    BY <1>2, <1>3 DEF Waiting, SameCall
  <1>5. Bytes(io', at', xfer')
    BY <1>1, <1>2 DEF Bytes, SameCall
  <1> QED
    BY <1>2, <1>4, <1>5 DEF CoroInv

\* What the vectors asked for are.
LEMMA VectorsAre ==
  ASSUME NEW v \in IoVectors
  PROVE  v \in Seq(Nat) /\ Len(v) > 0
  BY IoAssumption

\* A coroutine that does any operation.
LEMMA CoroStep ==
  ASSUME CoroInv(io, at, upd, xfer), IoNext
  PROVE  CoroInv(io', at', upd', xfer')
  <1>1. CASE IoSystem
    BY <1>1, CoroSystem
  <1>2. CASE IoClient
    <2>1. at = "handler"
      BY <1>2 DEF IoClient
    <2>2. CASE \E op \in BufOps, v \in IoVectors, p \in BOOLEAN :
                 Len(v) = 1 /\ Start(op, v, p)
      <3>1. PICK op \in BufOps, v \in IoVectors, p \in BOOLEAN :
              Len(v) = 1 /\ Start(op, v, p)
        BY <2>2
      <3>2. op \in IoOps /\ v \in Seq(Nat)
        BY <3>1, VectorsAre DEF IoOps
      <3> QED
        BY <2>1, <3>1, <3>2, CoroStart
    <2>3. CASE \E op \in VecOps, v \in IoVectors, p \in BOOLEAN :
                 Start(op, v, p)
      <3>1. PICK op \in VecOps, v \in IoVectors, p \in BOOLEAN :
              Start(op, v, p)
        BY <2>3
      <3>2. op \in IoOps /\ v \in Seq(Nat) /\ op \notin BufOps
        BY <3>1, VectorsAre DEF IoOps, BufOps, VecOps
      <3> QED
        BY <2>1, <3>1, <3>2, CoroStart
    <2>4. CASE \E op \in {"accept", "connect", "close"} :
                 Start(op, <<1>>, FALSE)
      <3>1. PICK op \in {"accept", "connect", "close"} :
              Start(op, <<1>>, FALSE)
        BY <2>4
      <3>2. op \in IoOps /\ <<1>> \in Seq(Nat) /\ op \notin BufOps
              /\ FALSE \in BOOLEAN
        BY <3>1 DEF IoOps, BufOps
      <3> QED
        BY <2>1, <3>1, <3>2, CoroStart
    <2>5. CASE \E w \in Polls : Wait(w)
      BY <2>1, <2>5, CoroWait
    <2>6. CASE Return("end")
      BY <2>1, <2>6, CoroReturn
    <2> QED
      BY <1>2, <2>2, <2>3, <2>4, <2>5, <2>6 DEF IoClient, Operation
  <1>3. CASE IoStop
    BY <1>3, CoroStop DEF IoStop
  <1> QED
    BY <1>1, <1>2, <1>3 DEF IoNext

(******************** a coroutine driven from Lua **************************)

LuaRec == [op : IoOps \cup {"none"}, complete : BOOLEAN, partial : BOOLEAN,
           buf : BOOLEAN, ref : BOOLEAN]

\* While an operation is under way Lua does not run, the operation is the
\* one it waits for, and what is held belongs to it.
LuaInv(x, a, l, r) ==
  /\ l \in LuaRec /\ r \in BOOLEAN
  /\ a \in {"loop", "call"} => ~r /\ ~l.complete
  /\ a \in {"loop", "call"} /\ x.watch \notin Polls => l.op = x.op
  /\ a = "handler" /\ ~r => ~l.complete
  /\ r => ~l.buf /\ ~l.ref
  /\ ~r /\ l.buf => l.op = "read"
  /\ ~r /\ l.ref => l.op \in {"write", "accept"}

\* The event loop and the system keep the operation, and end a wait only by
\* running the handler.
LEMMA SystemKeeps ==
  ASSUME CoroInv(io, at, upd, xfer), IoSystem
  PROVE  /\ at \in {"loop", "call"} /\ io'.op = io.op
         /\ at' \in {"loop", "call"} /\ io.watch \in Polls =>
              io'.watch \in Polls
  <1>1. Shape(io, xfer, upd) /\ Waiting(io, at, upd)
    BY DEF CoroInv
  <1>2. at = "call" => io.watch \notin Polls
    BY <1>1 DEF Waiting, Polls
  <1>3. CASE CallMoves
    <2>1. SameCall(io, io')
      BY <1>1, <1>3, MovesIs DEF Shape
    <2> QED
      BY <1>2, <1>3, <2>1 DEF CallMoves, SameCall
  <1>9. CASE CallNoMemory
    BY <1>1, <1>2, <1>9, NoMemoryIs DEF SameCall
  <1>10. CASE CallOverruns
    BY <1>2, <1>10 DEF CallOverruns
  <1>4. CASE CallPlain
    BY <1>1, <1>2, <1>4, PlainIs
  <1>5. CASE CallBlocks
    BY <1>1, <1>2, <1>5, BlocksIs DEF SameCall
  <1>6. CASE CallConnect
    BY <1>1, <1>2, <1>6, ConnectIs DEF SameCall
  <1>7. CASE CallFails
    BY <1>1, <1>2, <1>7, FailsIs DEF SameCall
  <1>8. ASSUME NEW ev, Event(ev)
        PROVE  /\ at \in {"loop", "call"} /\ io'.op = io.op
               /\ at' \in {"loop", "call"} /\ io.watch \in Polls =>
                    io'.watch \in Polls
    <2>1. /\ at = "loop"
          /\ \/ /\ io.watch = "none" /\ io' = io
             \/ /\ io.watch = "finish" /\ io' = io
             \/ /\ io.watch = "retry"
                /\ io' = io \/ io' = [io EXCEPT !.watch = "none"]
             \/ /\ io.watch \in Polls
                /\ \/ io' = io
                   \/ /\ io' = [io EXCEPT !.watch = "none"]
                      /\ RunHandler(io)
      BY <1>1, <1>8, EventIs
    <2>2. io'.op = io.op
      <3>1. CASE io' = io
        BY <3>1
      <3>2. CASE io' = [io EXCEPT !.watch = "none"]
        BY <1>1, <3>2 DEF Shape, IoRec
      <3> QED
        BY <2>1, <3>1, <3>2
    <2>3. RunHandler(io) => at' = "handler"
      BY <1>1, RunHandlerIs DEF Waiting, Shape
    <2> QED
      BY <2>1, <2>2, <2>3 DEF Polls
  <1> QED
    BY <1>3, <1>9, <1>10, <1>4, <1>5, <1>6, <1>7, <1>8 DEF IoSystem

\* What of the data of a Lua coroutine a new operation sets.
LEMMA LuaStartedIs ==
  ASSUME ld \in LuaRec, NEW op \in IoOps \cup {"none"}
  PROVE  /\ LuaStarted(op) \in LuaRec
         /\ LuaStarted(op).op = op /\ ~LuaStarted(op).complete
         /\ LuaStarted(op).buf => ld.buf \/ op = "read"
         /\ LuaStarted(op).ref => ld.ref \/ op \in {"write", "accept"}
  <1> DEFINE p == IF op \in BufOps THEN FALSE ELSE ld.partial
             b == ld.buf \/ op = "read"
             f == ld.ref \/ op \in {"write", "accept"}
             l == [ld EXCEPT !.op = op, !.complete = FALSE, !.partial = p,
                             !.buf = b, !.ref = f]
  <1>1. p \in BOOLEAN /\ b \in BOOLEAN /\ f \in BOOLEAN /\ FALSE \in BOOLEAN
    BY DEF LuaRec
  <1>2. LuaStarted(op) = l
    BY DEF LuaStarted
  <1> HIDE DEF p, b, f
  <1>3. /\ l \in LuaRec /\ l.op = op /\ l.complete = FALSE
        /\ l.buf = b /\ l.ref = f
    BY <1>1 DEF LuaRec
  <1> HIDE DEF l
  <1>4. (l.buf <=> b) /\ (l.ref <=> f)
    BY <1>3
  <1> QED
    BY <1>2, <1>3, <1>4 DEF b, f

\* The coroutine and what Lua knows of it go together.
LEMMA LuaStep ==
  ASSUME CoroInv(io, at, upd, xfer), LuaInv(io, at, ld, running), LuaIoNext
  PROVE  CoroInv(io', at', upd', xfer') /\ LuaInv(io', at', ld', running')
  <1>1. ld \in LuaRec /\ running \in BOOLEAN
    BY DEF LuaInv
  <1>2. CASE IoSystem /\ UNCHANGED <<ld, running>>
    <2>1. CoroInv(io', at', upd', xfer')
      BY <1>2, CoroSystem
    <2>2. /\ at \in {"loop", "call"} /\ io'.op = io.op
          /\ at' \in {"loop", "call"} /\ io.watch \in Polls =>
               io'.watch \in Polls
      BY <1>2, SystemKeeps
    <2>3. LuaInv(io', at', ld', running')
      BY <1>2, <2>2 DEF LuaInv
    <2> QED
      BY <2>1, <2>3
  <1>3. CASE LuaSetPartial
    <2>1. /\ at = "handler" /\ running /\ ld' = [ld EXCEPT !.partial = TRUE]
          /\ UNCHANGED <<io, at, upd, xfer, running>>
      BY <1>3 DEF LuaSetPartial
    <2>2. /\ ld' \in LuaRec /\ ld'.buf = ld.buf /\ ld'.ref = ld.ref
          /\ ld'.op = ld.op /\ ld'.complete = ld.complete
      BY <1>1, <2>1 DEF LuaRec
    <2>3. LuaInv(io', at', ld', running')
      BY <2>1, <2>2 DEF LuaInv
    <2> QED
      BY <2>1, <2>3
  <1>4. CASE \E op \in LuaOps, v \in IoVectors : Len(v) = 1 /\ LuaOp(op, v)
    <2>1. PICK op \in LuaOps, v \in IoVectors : Len(v) = 1 /\ LuaOp(op, v)
      BY <1>4
    <2>2. op \in IoOps /\ v \in Seq(Nat)
      BY <2>1, VectorsAre DEF IoOps, LuaOps, BufOps
    <2> DEFINE p == op \in BufOps /\ ld.partial
    <2>3. /\ at = "handler" /\ running /\ Start(op, v, p)
          /\ ld' = LuaStarted(op) /\ running' = FALSE
      BY <2>1 DEF LuaOp
    <2>4. p \in BOOLEAN
      OBVIOUS
    <2> HIDE DEF p
    <2>5. CoroInv(io', at', upd', xfer') /\ at' = "call" /\ io'.op = op
            /\ io'.watch = "none"
      BY <2>1, <2>2, <2>3, <2>4, CoroStart
    <2>6. /\ ld' \in LuaRec /\ ld'.op = op /\ ~ld'.complete
          /\ ld'.buf => ld.buf \/ op = "read"
          /\ ld'.ref => ld.ref \/ op \in {"write", "accept"}
      BY <1>1, <2>2, <2>3, LuaStartedIs
    <2>7. LuaInv(io', at', ld', running')
      BY <2>3, <2>5, <2>6 DEF LuaInv
    <2> QED
      BY <2>5, <2>7
  <1>5. CASE \E w \in Polls : LuaWait(w)
    <2>1. PICK w \in Polls : LuaWait(w)
      BY <1>5
    <2>2. /\ at = "handler" /\ running /\ Wait(w)
          /\ ld' = LuaStarted("none") /\ running' = FALSE
      BY <2>1 DEF LuaWait
    <2>3. CoroInv(io', at', upd', xfer') /\ at' = "loop" /\ io'.watch = w
      BY <2>1, <2>2, CoroWait
    <2>4. /\ ld' \in LuaRec /\ ld'.op = "none" /\ ~ld'.complete
          /\ ld'.buf => ld.buf
          /\ ld'.ref => ld.ref
      BY <1>1, <2>2, LuaStartedIs
    <2>5. LuaInv(io', at', ld', running')
      BY <2>1, <2>2, <2>3, <2>4 DEF LuaInv
    <2> QED
      BY <2>3, <2>5
  <1>6. CASE lua_io_handler
    <2> DEFINE b == ld.buf /\ ~io.error /\ ld.op # "read"
               f == ld.ref /\ ~io.error /\ ld.op \notin {"write", "accept"}
    <2>1. /\ at = "handler" /\ ~running /\ running' = TRUE
          /\ ld' = [ld EXCEPT !.op = "none", !.complete = TRUE,
                              !.buf = b, !.ref = f]
          /\ UNCHANGED <<io, at, upd, xfer>>
      BY <1>6 DEF lua_io_handler
    <2>2. b = FALSE /\ f = FALSE
      BY <2>1 DEF LuaInv
    <2> HIDE DEF b, f
    <2>3. /\ ld' \in LuaRec /\ ld'.buf = FALSE /\ ld'.ref = FALSE
      BY <1>1, <2>1, <2>2 DEF LuaRec
    <2>4. LuaInv(io', at', ld', running')
      BY <2>1, <2>3 DEF LuaInv
    <2> QED
      BY <2>1, <2>4
  <1>7. CASE LuaReturn
    <2>1. at = "handler" /\ running /\ Return("end")
            /\ UNCHANGED <<ld, running>>
      BY <1>7 DEF LuaReturn
    <2>2. CoroInv(io', at', upd', xfer') /\ at' = "end"
      BY <2>1, CoroReturn
    <2>3. LuaInv(io', at', ld', running')
      BY <2>1, <2>2 DEF LuaInv
    <2> QED
      BY <2>2, <2>3
  <1>8. CASE LuaGc
    <2>1. /\ io' = Aborted(io) /\ at' = "end" /\ upd' = upd /\ xfer' = xfer
          /\ ld' = [ld EXCEPT !.ref = FALSE] /\ running' = running
      BY <1>8 DEF LuaGc
    <2>2. CoroInv(io', at', upd', xfer')
      BY <2>1, CoroStop DEF CoroInv, Shape
    <2>3. /\ ld' \in LuaRec /\ ld'.ref = FALSE /\ ld'.buf = ld.buf
          /\ ld'.op = ld.op
      BY <1>1, <2>1 DEF LuaRec
    <2>4. LuaInv(io', at', ld', running')
      BY <2>1, <2>3 DEF LuaInv
    <2> QED
      BY <2>2, <2>4
  <1> QED
    BY <1>2, <1>3, <1>4, <1>5, <1>6, <1>7, <1>8 DEF LuaIoNext

(**************************** a listener ***********************************)

\* A listener only waits and accepts, and moves nothing.
ListenInv(x, a, u, xf) ==
  /\ Shape(x, xf, u) /\ a \in At
  /\ x.catches /\ ~x.tmp /\ x.op \in {"none", "accept"}

\* The steps of a listener keep its io object what it is.
LEMMA ListenStep ==
  ASSUME ListenInv(io, at, upd, xfer), ListenerNext
  PROVE  ListenInv(io', at', upd', xfer')
  <1>1. /\ Shape(io, xfer, upd) /\ at \in At /\ io \in IoRec
        /\ upd \in BOOLEAN /\ io.catches /\ ~io.tmp
        /\ io.op \in {"none", "accept"}
    BY DEF ListenInv, Shape
  <1>2. io.op \notin VecOps
    BY <1>1 DEF VecOps
  <1>3. CASE UNCHANGED <<io, at, upd, xfer>>
    BY <1>3
  <1>4. CASE Event({"r"})
    <2>1. Shape(io', xfer', upd')
      BY <1>1, <1>4, EventIs
    <2>2. at' \in At /\ (io' = io \/ io' = [io EXCEPT !.watch = "none"])
      BY <1>1, <1>4, EventIs, RunHandlerIs DEF At
    <2>3. io'.catches = io.catches /\ io'.tmp = io.tmp /\ io'.op = io.op
      <3>1. CASE io' = io
        BY <3>1
      <3>2. CASE io' = [io EXCEPT !.watch = "none"]
        BY <1>1, <3>2 DEF IoRec
      <3> QED
        BY <2>2, <3>1, <3>2
    <2> QED
      BY <1>1, <2>1, <2>2, <2>3 DEF ListenInv
  <1>5. CASE ListenerAccept
    <2>1. /\ io' = [io EXCEPT !.op = "accept", !.result = 0, !.error = FALSE,
                              !.repeat = TRUE]
          /\ at' = "call" /\ upd' = upd /\ xfer' = xfer
      BY <1>5 DEF ListenerAccept
    <2> DEFINE x == [io EXCEPT !.result = 0, !.error = FALSE]
    <2>2. 0 \in Int /\ FALSE \in BOOLEAN /\ "accept" \in IoOps
      BY DEF IoOps
    <2>3. x \in IoRec /\ SameCall(io, x) /\ SameRest(io, x) /\ x.result = 0
      BY <1>1, <2>2, ResultIs
    <2>4. io' = [x EXCEPT !.op = "accept", !.repeat = TRUE]
      BY <2>1
    <2> HIDE DEF x
    <2>5. /\ io' \in IoRec /\ io'.op = "accept" /\ io'.iov = x.iov
          /\ io'.result = 0 /\ io'.tmp = x.tmp /\ io'.catches = x.catches
      BY <2>2, <2>3, <2>4 DEF IoRec
    <2>6. /\ io'.iov = io.iov /\ io'.tmp = io.tmp
          /\ io'.catches = io.catches
      BY <2>3, <2>5 DEF SameCall, SameRest
    <2>7. 0 \in -1..(2 * xfer.total)
      BY <1>1 DEF Shape, XferRec
    <2>8. Shape(io', xfer', upd')
      BY <1>1, <2>1, <2>5, <2>6, <2>7 DEF Shape, BufOps
    <2> QED
      BY <1>1, <2>1, <2>5, <2>6, <2>8 DEF ListenInv, At
  <1>6. CASE CallPlain
    BY <1>1, <1>6, PlainIs, RunHandlerIs DEF ListenInv, At
  <1>7. CASE CallBlocks
    BY <1>1, <1>7, BlocksIs DEF ListenInv, At, SameCall
  <1>8. CASE CallFails
    <2>1. /\ Shape(io', xfer', upd') /\ SameCall(io, io')
          /\ io'.tmp = io.tmp /\ RunHandler(io')
      BY <1>1, <1>2, <1>8, FailsIs
    <2>2. at' \in At
      BY <1>1, <2>1, RunHandlerIs DEF At, Shape, SameCall
    <2> QED
      BY <1>1, <2>1, <2>2 DEF ListenInv, SameCall
  <1>9. CASE ListenerPublish
    <2> DEFINE x == Armed(io, "poll_r")
               y == [x EXCEPT !.result = 0, !.error = FALSE]
    <2>1. /\ io' = [x EXCEPT !.error = FALSE, !.result = 0]
          /\ at' = "loop" /\ upd' = FALSE /\ xfer' = xfer
      BY <1>9 DEF ListenerPublish
    <2>2. 0 \in Int /\ FALSE \in BOOLEAN /\ "poll_r" \in Watches
      BY DEF Watches, Polls
    <2>3. x \in IoRec /\ SameCall(io, x) /\ SameData(io, x)
      BY <1>1, <2>2, ArmedIs
    <2> HIDE DEF x
    <2>4. /\ y \in IoRec /\ SameCall(x, y) /\ SameRest(x, y) /\ y.result = 0
      BY <2>2, <2>3, ResultIs
    <2>5. io' = y
      BY <2>1
    <2> HIDE DEF y
    <2>6. 0 \in -1..(2 * xfer.total)
      BY <1>1 DEF Shape, XferRec
    <2>7. /\ io' \in IoRec /\ SameCall(io, io') /\ io'.iov = io.iov
          /\ io'.tmp = io.tmp /\ io'.result = 0
      BY <2>3, <2>4, <2>5 DEF SameCall, SameData, SameRest
    <2>8. Shape(io', xfer', upd')
      BY <1>1, <2>1, <2>6, <2>7 DEF Shape, SameCall
    <2> QED
      BY <1>1, <2>1, <2>7, <2>8 DEF ListenInv, At, SameCall
  <1>10. CASE ListenerError
    BY <1>1, <1>10, ReturnIs DEF ListenerError, ListenInv, At, SameCall,
                                 SameData
  <1>11. CASE ListenerStop
    <2>1. CASE io.watch = "none"
      BY <1>3, <1>11, <2>1 DEF ListenerStop
    <2>2. CASE io.watch # "none"
      <3> DEFINE x == [io EXCEPT !.watch = "none"]
                 r == -1
                 y == [x EXCEPT !.result = r, !.error = TRUE]
      <3>1. /\ io' = [io EXCEPT !.watch = "none", !.result = -1,
                                !.error = TRUE]
            /\ at' = "handler" /\ upd' = upd /\ xfer' = xfer
        BY <1>11, <2>2 DEF ListenerStop
      <3>2. x \in IoRec /\ SameCall(io, x) /\ SameData(io, x)
        BY <1>1, UnwatchedIs
      <3>3. io' = y /\ r \in Int /\ TRUE \in BOOLEAN
        BY <3>1
      <3>4. r \in -1..(2 * xfer.total)
        BY <1>1 DEF Shape, XferRec
      <3> HIDE DEF x, r
      <3>5. y \in IoRec /\ SameCall(x, y) /\ SameRest(x, y) /\ y.result = r
        BY <3>2, <3>3, ResultIs
      <3> HIDE DEF y
      <3>6. /\ io' \in IoRec /\ SameCall(io, io') /\ io'.iov = io.iov
            /\ io'.tmp = io.tmp /\ io'.result = r
        BY <3>2, <3>3, <3>5 DEF SameCall, SameData, SameRest
      <3>7. Shape(io', xfer', upd')
        BY <1>1, <3>1, <3>4, <3>6 DEF Shape, SameCall
      <3> QED
        BY <1>1, <3>1, <3>6, <3>7 DEF ListenInv, At, SameCall
    <2> QED
      BY <2>1, <2>2
  <1>12. CASE ListenerStopped
    BY <1>1, <1>2, <1>12, AbortedIs
      DEF ListenerStopped, ListenInv, At, SameCall
  <1> QED
    BY <1>3, <1>4, <1>5, <1>6, <1>7, <1>8, <1>9, <1>10, <1>11, <1>12
      DEF ListenerNext, ListenerCoro, Connects, Resets, ListenerEvent,
          AcceptCall

(********************* the sender of descriptors ***************************)

\* A message is one entry, moved whole: it needs no temporary vector, even
\* when the coroutine is resumed while the watcher still waits to retry.
FdInv(x, a, u, xf) ==
  /\ Shape(x, xf, u) /\ a \in {"loop", "call", "handler"}
  /\ ~x.catches /\ ~x.tmp /\ x.op \in {"none", "writev"}
  /\ x.watch \in {"none", "retry"}
  /\ a = "loop" => (x.active <=> x.watch # "none")
  /\ a = "handler" => u
  /\ a = "call" \/ x.watch = "retry" => x.op = "writev"
  /\ x.op = "writev" => Len(x.iov) = 1 /\ x.iov[1].len = 1

\* The sender's steps; those of the receiver leave the sender alone.
LEMMA FdStep ==
  ASSUME FdInv(io, at, upd, xfer), FdNext
  PROVE  FdInv(io', at', upd', xfer')
  <1>1. /\ Shape(io, xfer, upd) /\ io \in IoRec /\ upd \in BOOLEAN
        /\ ~io.catches /\ ~io.tmp /\ io.watch \in {"none", "retry"}
        /\ io.op \in {"none", "writev"}
    BY DEF FdInv, Shape
  <1>2. CASE UNCHANGED <<io, at, upd, xfer>>
    BY <1>2
  <1>3. CASE shuso_ipc_send_fd
    <2>1. io' = io /\ xfer' = xfer /\ RunHandler(io)
      BY <1>3 DEF shuso_ipc_send_fd
    <2>2. at' = "handler" /\ upd' = TRUE
      BY <1>1, <2>1, RunHandlerIs
    <2>3. Shape(io', xfer', upd')
      BY <1>1, <2>1, <2>2 DEF Shape
    <2> QED
      BY <2>1, <2>2, <2>3 DEF FdInv
  <1>4. CASE ipc_send_fd_coroutine
    <2>1. at = "handler" /\ upd
      BY <1>4 DEF ipc_send_fd_coroutine, FdInv
    <2>2. PICK b : SendNext(b)
      BY <1>4 DEF ipc_send_fd_coroutine
    <2>3. CASE Return("loop")
      <3>1. /\ Shape(io', xfer', upd') /\ SameCall(io, io')
            /\ SameData(io, io') /\ io'.watch = io.watch
            /\ upd => (io'.active <=> io.watch # "none")
            /\ at' = "loop"
        BY <1>1, <2>3, ReturnIs
      <3> QED
        BY <2>1, <3>1 DEF FdInv, SameCall, SameData
    <2>4. CASE ~Return("loop")
      <3> DEFINE e == Entries(<<1>>)
                 x == [io EXCEPT !.result = 0, !.error = FALSE]
      <3>1. /\ io' = [io EXCEPT !.op = "writev", !.result = 0,
                        !.error = FALSE, !.repeat = TRUE, !.iov = e,
                        !.tmp = FALSE]
            /\ xfer' = [total |-> 1, next |-> 0, skew |-> FALSE]
            /\ at' = "call" /\ upd' = upd
        BY <2>2, <2>4 DEF SendNext
      <3>2. <<1>> \in Seq(Nat) /\ Len(<<1>>) = 1 /\ <<1>>[1] = 1
        OBVIOUS
      <3>3. Sum(<<1>>) = 1
        BY <3>2, SumSmall
      <3>4. /\ e \in Seq(Entry) /\ Len(e) = 1 /\ Left(e) = 1
            /\ e[1] = [base |-> 0, len |-> 1]
        BY <3>2, <3>3, EntriesType
      <3>5. 0 \in Int /\ FALSE \in BOOLEAN /\ "writev" \in IoOps
        BY DEF IoOps, VecOps
      <3>6. x \in IoRec /\ SameCall(io, x) /\ SameRest(io, x)
              /\ x.result = 0
        BY <1>1, <3>5, ResultIs
      <3>7. io' = [x EXCEPT !.op = "writev", !.repeat = TRUE, !.iov = e,
                            !.tmp = FALSE]
        BY <3>1
      <3> HIDE DEF e, x
      <3>8. /\ io' \in IoRec /\ io'.op = "writev" /\ io'.iov = e
            /\ io'.tmp = FALSE /\ io'.watch = x.watch /\ io'.result = 0
            /\ io'.catches = x.catches
        BY <3>4, <3>5, <3>6, <3>7 DEF IoRec
      <3>9. xfer' \in XferRec /\ xfer'.total = 1
        BY <3>1 DEF XferRec
      <3>10. Left(io'.iov) <= xfer'.total
               /\ io'.result \in -1..(2 * xfer'.total)
        BY <3>4, <3>8, <3>9
      <3>11. Shape(io', xfer', upd')
        BY <1>1, <3>1, <3>8, <3>9, <3>10 DEF Shape, BufOps
      <3>12. io'.iov[1].len = 1 /\ Len(io'.iov) = 1
        BY <3>4, <3>8
      <3>13. io'.watch = io.watch /\ ~io'.catches
        BY <1>1, <3>6, <3>8 DEF SameCall, SameRest
      <3> QED
        BY <1>1, <3>1, <3>8, <3>11, <3>12, <3>13 DEF FdInv
    <2> QED
      BY <2>3, <2>4
  <1>5. CASE SendMsg
    <2>1. CallMoves /\ at = "call"
      BY <1>5 DEF SendMsg, CallMoves
    <2>2. /\ io.op = "writev" /\ Len(io.iov) = 1 /\ io.iov[1].len = 1
          /\ io.op \in VecOps /\ io.op \notin BufOps
          /\ io.op \notin ReadOps
      BY <2>1 DEF FdInv, VecOps, BufOps, ReadOps
    <2>3. Left(io.iov) = 1
      BY <1>1, <2>2, LeftSmall DEF IoRec
    <2>4. Shape(io', xfer', upd')
      BY <1>1, <2>1, MovesShape
    <2>5. PICK n \in 0..Left(io.iov) :
            /\ io' \in IoRec /\ SameCall(io, io')
            /\ io.op \in ReadOps \/ n > 0
            /\ \/ ~(Len(io.iov) = 1 /\ n = Left(io.iov))
               \/ /\ RunHandler(io') /\ io'.watch = io.watch
                  /\ io.op \in VecOps => ~io'.tmp /\ io'.iov = io.iov
      BY <1>1, <2>1, MovesIs DEF Shape
    <2>6. n = Left(io.iov)
      BY <2>2, <2>3, <2>5
    <2>7. RunHandler(io') /\ io'.watch = io.watch /\ ~io'.tmp
            /\ io'.iov = io.iov
      BY <2>2, <2>5, <2>6
    <2>8. at' = "handler" /\ upd' = TRUE
      BY <1>1, <2>5, <2>7, RunHandlerIs DEF SameCall
    <2> QED
      BY <1>1, <2>2, <2>4, <2>5, <2>7, <2>8 DEF FdInv, SameCall
  <1>6. CASE SendBlocks
    <2>1. CallBlocks
      BY <1>6 DEF SendBlocks
    <2> QED
      BY <1>1, <2>1, BlocksIs DEF FdInv, SameCall
  <1>7. CASE SendFails
    <2>1. CallFails
      BY <1>7 DEF SendFails
    <2>2. /\ Shape(io', xfer', upd') /\ SameCall(io, io')
          /\ io'.iov = io.iov /\ io'.watch = io.watch
          /\ RunHandler(io') /\ at = "call" /\ io' \in IoRec
          /\ io.op \in VecOps => io'.tmp = FALSE
          /\ io.op \notin VecOps => io'.tmp = io.tmp
      BY <1>1, <2>1, FailsIs DEF Shape
    <2>3. at' = "handler" /\ upd' = TRUE
      BY <1>1, <2>2, RunHandlerIs DEF SameCall
    <2> QED
      BY <1>1, <2>2, <2>3 DEF FdInv, SameCall
  <1>8. CASE SendEvent
    <2>1. Event({"w"})
      BY <1>8 DEF SendEvent
    <2>2. /\ Shape(io', xfer', upd') /\ at = "loop" /\ io.active
          /\ \/ io.watch = "none"
             \/ io.watch \in Polls \cup {"finish"}
             \/ /\ io.watch = "retry"
                /\ \/ at' = "loop" /\ io' = io
                   \/ at' = "call" /\ io' = [io EXCEPT !.watch = "none"]
      BY <1>1, <2>1, EventIs
    <2>3. io.watch = "retry" /\ io.op = "writev"
      BY <1>1, <2>2 DEF FdInv
    <2>4. CASE at' = "loop" /\ io' = io
      BY <2>2, <2>3, <2>4 DEF FdInv
    <2>5. CASE at' = "call" /\ io' = [io EXCEPT !.watch = "none"]
      <3>1. /\ SameCall(io, io') /\ SameData(io, io')
            /\ io'.watch = "none"
        BY <1>1, <2>5, UnwatchedIs
      <3> QED
        BY <1>1, <2>2, <2>3, <2>5, <3>1 DEF FdInv, SameCall, SameData
    <2> QED
      BY <2>2, <2>3, <2>4, <2>5 DEF Polls
  <1>9. CASE \/ FdReceive \/ FdReceiveEnds
             \/ \E timeout \in BOOLEAN : shuso_ipc_receive_fd_start(timeout)
             \/ \E r \in 1..MaxRefs : shuso_ipc_receive_fd_finish(r)
             \/ \E t \in timers : ipc_receive_fd_timeout_cb(t)
    <2>1. UNCHANGED sendVars
      BY <1>9, Zenon DEF FdReceive, FdReceiveEnds, shuso_ipc_receive_fd_start,
        shuso_ipc_receive_fd_finish, ipc_receive_fd_timeout_cb
    <2> QED
      BY <1>2, <2>1 DEF sendVars
  <1> QED
    BY <1>3, <1>4, <1>5, <1>6, <1>7, <1>8, <1>9 DEF FdNext

(******************** descriptors on their way *****************************)

\* The queue of messages: those from the first on, in the order in which they
\* were allocated, none of them freed.
FdLink == [next : Nat, mem : {"default"}, data : Nat, live : BOOLEAN]
FdBuf == [first : Nat, last : Nat, mem : {"heap"}, link : Seq(FdLink)]
QueueInv(b) ==
  /\ b \in FdBuf
  /\ \/ b.first = NoLink /\ b.last = NoLink
     \/ /\ b.first \in 1..Len(b.link) /\ b.last = Len(b.link)
        /\ \A i \in b.first..Len(b.link) :
             /\ b.link[i].live /\ b.link[i].data = i
             /\ b.link[i].next = IF i < Len(b.link) THEN i + 1 ELSE NoLink
\* The first message that has not been dequeued, or the next to be queued.
Rest(b) == IF b.first = NoLink THEN Len(b.link) + 1 ELSE b.first

\* Until the coroutine was resumed behind the back of the watcher, it is at the
\* first message, and waits when it says so.
FdSendInv ==
  "blocked" \notin fault =>
    /\ "freed" \notin fault /\ QueueInv(fdbuf) /\ fdstage \in {"start", "sent"}
    /\ wire \in Seq(Nat)
    /\ got \in Seq([fd : Nat, to : Nat])
    /\ fdstage = "sent" => fdbuf.first # NoLink /\ msg = fdbuf.first
    /\ at = "call" => fdstage = "sent"
    /\ at = "loop" => (fdstage = "sent" <=> io.watch = "retry")
    /\ at # "loop" => io.watch # "retry"

\* Until a call failed, too, what was sent is what is not queued.
FdThereInv ==
  "blocked" \notin fault /\ "error" \notin fault =>
    /\ \A i \in DOMAIN got : got[i].fd = i
    /\ \A i \in DOMAIN wire : wire[i] = Len(got) + i
    /\ Len(got) + Len(wire) = IF fdstage = "sent" /\ at = "handler"
                             THEN Rest(fdbuf) ELSE Rest(fdbuf) - 1

\* Until a timer was started over another there is at most one, in the slot,
\* and its receiver has not ended.
FdTimerInv ==
  /\ refs \in [1..MaxRefs -> Nat] /\ started \in Nat
  /\ "clobbered" \notin fault =>
       /\ timers \subseteq {slot}
       /\ \A t \in timers : refs[t.ref] = t.owner /\ t.owner # 0
                            /\ t.ref \in 1..MaxRefs
       /\ \A e \in ended : e.by \in {0, e.owner}

PassInv == FdSendInv /\ FdThereInv /\ FdTimerInv

\* A message is queued behind the others.
LEMMA BufferAdd ==
  ASSUME NEW b, QueueInv(b), NEW c, c = buffer_add(b, Len(b.link) + 1)
  PROVE  QueueInv(c) /\ Rest(c) = Rest(b)
  <1> DEFINE n == Len(b.link)
             r == [next |-> NoLink, mem |-> "default", data |-> n + 1, live |-> TRUE]
             s == Append(b.link, r)
             d == [b EXCEPT !.link = s]
  <1>1. b \in FdBuf /\ b.link \in Seq(FdLink) /\ n \in Nat /\ NoLink = 0
        /\ b.first \in Nat /\ b.last \in Nat
    BY DEF QueueInv, FdBuf, NoLink
  <1>2. r \in FdLink
    BY <1>1 DEF FdLink
  <1>3. /\ s \in Seq(FdLink) /\ Len(s) = n + 1 /\ s[n + 1] = r
        /\ \A i \in 1..n : s[i] = b.link[i]
    <2> HIDE DEF r
    <2> QED
      BY <1>1, <1>2
  <1>4. r.next = NoLink /\ r.data = n + 1 /\ r.live = TRUE
    OBVIOUS
  <1> HIDE DEF r, s
  <1>5. d \in FdBuf /\ d.link = s /\ d.first = b.first /\ d.last = b.last
        /\ d.mem = b.mem
    BY <1>1, <1>3 DEF FdBuf
  <1>6. c = buffer_queue(d, n + 1)
    BY DEF buffer_add, r, s
  <1> HIDE DEF d
  <1>7. CASE b.first = NoLink
    <2>1. b.last = NoLink
      BY <1>1, <1>7 DEF QueueInv
    <2>2. c = [d EXCEPT !.first = n + 1, !.last = n + 1]
      BY <1>5, <1>6, <1>7, <2>1 DEF buffer_queue
    <2> HIDE DEF n
    <2>3. /\ c \in FdBuf /\ c.first = n + 1 /\ c.last = n + 1 /\ c.link = s
      <3>1. n + 1 \in Nat
        BY <1>1
      <3>2. d \in [first : Nat, last : Nat, mem : {"heap"}, link : Seq(FdLink)]
        BY <1>5 DEF FdBuf
      <3>3. c \in FdBuf
        BY <2>2, <3>1, <3>2 DEF FdBuf
      <3> QED
        BY <1>5, <2>2, <3>2, <3>3
    <2>4. \A i \in (n + 1)..(n + 1) : i = n + 1
      BY <1>1
    <2>5. n + 1 \in 1..(n + 1) /\ n + 1 # NoLink
      BY <1>1
    <2>6. QueueInv(c)
      BY <1>1, <1>3, <1>4, <2>3, <2>4, <2>5 DEF QueueInv
    <2> QED
      BY <1>3, <1>7, <2>3, <2>5, <2>6 DEF Rest, n
  <1>8. CASE b.first # NoLink
    <2>1. /\ b.first \in 1..n /\ b.last = n
          /\ \A i \in b.first..n : /\ b.link[i].live /\ b.link[i].data = i
                                   /\ b.link[i].next = IF i < n THEN i + 1 ELSE NoLink
      BY <1>8 DEF QueueInv
    <2> HIDE DEF n
    <2>2. n \in 1..n /\ b.last # NoLink /\ n \in 1..(n + 1)
      BY <1>1, <2>1
    <2> DEFINE u == [s[n] EXCEPT !.next = n + 1]
               t == [s EXCEPT ![n] = u]
    <2>3. s[n] \in FdLink
      BY <1>3, <2>2
    <2>4. /\ u \in FdLink /\ u.next = n + 1 /\ u.live = s[n].live /\ u.data = s[n].data
      <3>1. n + 1 \in Nat
        BY <1>1
      <3>2. s[n] \in [next : Nat, mem : {"default"}, data : Nat, live : BOOLEAN]
        BY <2>3 DEF FdLink
      <3>3. u \in FdLink
        BY <3>1, <3>2 DEF FdLink
      <3> QED
        BY <3>2, <3>3
    <2>5. c = [[d EXCEPT !.link[n].next = n + 1] EXCEPT !.first = b.first, !.last = n + 1]
      BY <1>5, <1>6, <1>8, <2>1, <2>2 DEF buffer_queue
    <2>6. [d EXCEPT !.link[n].next = n + 1] = [d EXCEPT !.link = t]
      BY <1>5
    <2> HIDE DEF u
    <2>7. /\ t \in Seq(FdLink) /\ Len(t) = n + 1 /\ t[n] = u
          /\ \A i \in 1..(n + 1) : i # n => t[i] = s[i]
      BY <1>3, <2>2, <2>4
    <2> HIDE DEF t
    <2>8. c \in FdBuf /\ c.first = b.first /\ c.last = n + 1 /\ c.link = t
      <3>1. n + 1 \in Nat /\ b.first \in Nat
        BY <1>1
      <3>2. d \in [first : Nat, last : Nat, mem : {"heap"}, link : Seq(FdLink)]
        BY <1>5 DEF FdBuf
      <3>3. c = [d EXCEPT !.link = t, !.first = b.first, !.last = n + 1]
        BY <2>5, <2>6, <3>2
      <3>4. c \in FdBuf
        BY <2>7, <3>1, <3>2, <3>3 DEF FdBuf
      <3> QED
        BY <3>2, <3>3, <3>4
    <2>9. b.first \in 1..(n + 1)
      BY <1>1, <2>1
    <2>10. \A i \in b.first..(n + 1) :
              /\ t[i].live /\ t[i].data = i
              /\ t[i].next = IF i < n + 1 THEN i + 1 ELSE NoLink
      <3> SUFFICES ASSUME NEW i \in b.first..(n + 1)
                   PROVE  /\ t[i].live /\ t[i].data = i
                          /\ t[i].next = IF i < n + 1 THEN i + 1 ELSE NoLink
        OBVIOUS
      <3>1. CASE i = n + 1
        <4>1. t[i] = r
          BY <1>1, <1>3, <2>2, <2>7, <3>1
        <4> QED
          BY <1>1, <1>4, <3>1, <4>1
      <3>2. CASE i = n
        <4>1. t[i] = u /\ s[i] = b.link[i] /\ i \in b.first..n
          BY <1>1, <1>3, <2>1, <2>2, <2>7, <3>2
        <4> QED
          BY <1>1, <2>1, <2>4, <3>2, <4>1
      <3>3. CASE i < n
        <4>1. i \in b.first..n /\ i \in 1..n /\ i \in 1..(n + 1) /\ i # n
          BY <1>1, <2>1, <3>3
        <4>2. t[i] = b.link[i]
          BY <1>3, <2>7, <4>1
        <4> QED
          BY <1>1, <2>1, <3>3, <4>1, <4>2
      <3> QED
        BY <1>1, <2>1, <3>1, <3>2, <3>3
    <2>11. QueueInv(c)
      BY <2>7, <2>8, <2>9, <2>10 DEF QueueInv
    <2> QED
      BY <1>8, <2>8, <2>11 DEF Rest
  <1> QED
    BY <1>7, <1>8

\* The message that was sent is dequeued and freed.
LEMMA BufferTake ==
  ASSUME NEW b, QueueInv(b), b.first # NoLink,
         NEW c, c = buffer_free(buffer_dequeue(b), b.first)
  PROVE  QueueInv(c) /\ Rest(c) = Rest(b) + 1
  <1> DEFINE n == Len(b.link)
             f == b.first
             g == b.link[f].next
             z == IF b.last = f THEN NoLink ELSE b.last
             d == [b EXCEPT !.first = g, !.last = z]
             u == [b.link[f] EXCEPT !.live = FALSE]
             s == [b.link EXCEPT ![f] = u]
  <1>1. /\ b \in FdBuf /\ b.link \in Seq(FdLink) /\ n \in Nat /\ NoLink = 0
        /\ f \in 1..n /\ b.last = n /\ b.mem = "heap"
        /\ \A i \in f..n : /\ b.link[i].live /\ b.link[i].data = i
                           /\ b.link[i].next = IF i < n THEN i + 1 ELSE NoLink
    BY DEF QueueInv, FdBuf, NoLink
  <1>2. f \in f..n /\ b.link[f] \in FdLink /\ f \in Nat
    BY <1>1
  <1>3. g = (IF f < n THEN f + 1 ELSE NoLink) /\ g \in Nat
    BY <1>1, <1>2
  <1>4. z = (IF f < n THEN n ELSE NoLink) /\ z \in Nat
    BY <1>1
  <1> HIDE DEF g, z
  <1>5. /\ d \in FdBuf /\ d.link = b.link /\ d.first = g /\ d.last = z /\ d.mem = "heap"
    BY <1>1, <1>3, <1>4 DEF FdBuf
  <1>6. buffer_dequeue(b) = d
    BY <1>1 DEF buffer_dequeue, g, z
  <1> HIDE DEF d
  <1>7. FreeMem(d, f) = "heap"
    BY <1>2, <1>5 DEF FreeMem, FdLink
  <1>8. u \in FdLink
    BY <1>2 DEF FdLink
  <1>9. c = [d EXCEPT !.link = s]
    <2>1. c = [d EXCEPT !.link[f].live = @ /\ FreeMem(d, f) \notin {"heap", "shared"}]
      BY <1>6 DEF buffer_free
    <2>2. (b.link[f].live /\ FreeMem(d, f) \notin {"heap", "shared"}) = FALSE
      BY <1>7
    <2> QED
      BY <1>5, <2>1, <2>2
  <1> HIDE DEF u
  <1>10. /\ s \in Seq(FdLink) /\ Len(s) = n /\ \A i \in 1..n : i # f => s[i] = b.link[i]
    BY <1>1, <1>8
  <1> HIDE DEF s
  <1>11. c \in FdBuf /\ c.link = s /\ c.first = g /\ c.last = z
    BY <1>5, <1>9, <1>10 DEF FdBuf
  <1> HIDE DEF n, f
  <1>12. CASE f < n
    <2>1. \A i \in g..n : i \in f..n /\ i # f /\ i \in 1..n
      BY <1>1, <1>2, <1>3, <1>12
    <2>2. g \in 1..n
      BY <1>1, <1>2, <1>3, <1>12
    <2>3. \A i \in g..n : /\ s[i].live /\ s[i].data = i
                          /\ s[i].next = IF i < n THEN i + 1 ELSE NoLink
      BY <1>1, <1>10, <2>1
    <2>4. z = n
      BY <1>4, <1>12
    <2>5. QueueInv(c)
      BY <1>10, <1>11, <2>2, <2>3, <2>4 DEF QueueInv
    <2> QED
      BY <1>1, <1>2, <1>3, <1>11, <1>12, <2>5 DEF Rest, f
  <1>13. CASE ~(f < n)
    <2>1. g = NoLink /\ z = NoLink /\ f = n
      BY <1>1, <1>2, <1>3, <1>4, <1>13
    <2> QED
      BY <1>1, <1>10, <1>11, <2>1 DEF QueueInv, Rest, f
  <1> QED
    BY <1>12, <1>13

\* What is queued: every message from the first on.
LEMMA QueuedIs ==
  ASSUME NEW b, QueueInv(b)
  PROVE  LET q == Queued(b)
         IN  /\ Len(q) = Len(b.link) + 1 - Rest(b) /\ DOMAIN q = 1..Len(q)
             /\ \A i \in DOMAIN q : q[i] = Rest(b) - 1 + i
  <1> DEFINE n == Len(b.link)
             k == n + 1 - Rest(b)
             Qs == UNION {[1..m -> DOMAIN b.link] : m \in 0..n}
             p == [i \in 1..k |-> Rest(b) - 1 + i]
             q == Queued(b)
  <1>1. b.link \in Seq(FdLink) /\ n \in Nat /\ DOMAIN b.link = 1..n /\ NoLink = 0
        /\ b.first \in Nat
    BY DEF QueueInv, FdBuf, NoLink
  <1>2. /\ b.first = NoLink => Rest(b) = n + 1 /\ k = 0
        /\ b.first # NoLink =>
             /\ Rest(b) = b.first /\ b.first \in 1..n /\ k \in 1..n
             /\ \A i \in b.first..n : b.link[i].next = IF i < n THEN i + 1 ELSE NoLink
    <2>1. b.first # NoLink => b.first \in 1..n
      BY DEF QueueInv
    <2>2. b.first # NoLink => k \in 1..n
      BY <1>1, <2>1 DEF Rest
    <2> QED
      BY <1>1, <2>1, <2>2 DEF QueueInv, Rest
  <1> HIDE DEF n, k
  <1>3. k \in 0..n
    BY <1>1, <1>2
  <1>4. k = n + 1 - Rest(b) /\ Rest(b) \in Nat
    BY <1>1, <1>2 DEF k
  <1>5. p \in Qs /\ Links(b, p)
    <2>1. \A i \in 1..k : Rest(b) - 1 + i \in 1..n
      BY <1>1, <1>2, <1>3, <1>4
    <2>2. p \in [1..k -> 1..n]
      BY <2>1
    <2>3. Len(p) = k /\ DOMAIN p = 1..k
      BY <1>3, <2>2
    <2>4. p = <<>> <=> b.first = NoLink
      <3>1. CASE k = 0
        BY <1>1, <1>2, <2>2, <2>3, <3>1
      <3>2. CASE k # 0
        BY <1>1, <1>2, <1>3, <2>3, <3>2
      <3> QED
        BY <3>1, <3>2
    <2>5. p # <<>> => p[1] = b.first
      BY <1>1, <1>2, <1>4, <2>3, <2>4
    <2>6. ASSUME NEW i \in 1..k
          PROVE  b.link[p[i]].next = IF i < k THEN p[i + 1] ELSE NoLink
      <3>1. k # 0 /\ b.first # NoLink
        BY <1>2, <1>3
      <3>2. p[i] = b.first - 1 + i /\ p[i] \in b.first..n
        BY <1>1, <1>2, <1>4, <2>1, <3>1
      <3>3. i < k => p[i + 1] = b.first + i
        <4>1. i < k => i + 1 \in 1..k
          BY <1>3
        <4> QED
          BY <1>1, <1>2, <1>4, <3>1, <4>1
      <3>4. i < k <=> p[i] < n
        BY <1>1, <1>2, <1>3, <1>4, <3>1, <3>2
      <3> QED
        BY <1>1, <1>2, <3>1, <3>2, <3>3, <3>4
    <2>7. Links(b, p)
      BY <2>3, <2>4, <2>5, <2>6 DEF Links
    <2> QED
      BY <1>1, <1>3, <2>2, <2>7
  <1> HIDE DEF p
  <1>6. q \in Qs /\ Links(b, q)
    <2>1. q = CHOOSE x \in Qs : Links(b, x)
      BY DEF Queued, n
    <2> QED
      BY <1>5, <2>1
  <1> HIDE DEF q
  <1>7. PICK m \in 0..n : q \in [1..m -> 1..n]
    BY <1>1, <1>6
  <1>8. m \in Nat /\ q \in Seq(1..n) /\ Len(q) = m /\ DOMAIN q = 1..m
    BY <1>1, <1>7
  <1>9. \A i \in 1..m : b.link[q[i]].next = IF i < m THEN q[i + 1] ELSE NoLink
    BY <1>6, <1>8 DEF Links
  <1>10. CASE b.first = NoLink
    <2>1. q = <<>>
      BY <1>6, <1>10 DEF Links
    <2>2. m = 0
      BY <1>8, <2>1
    <2> QED
      BY <1>2, <1>4, <1>8, <1>10, <2>2 DEF q, n
  <1>11. CASE b.first # NoLink
    <2>1. q # <<>> /\ q[1] = b.first
      BY <1>6, <1>11 DEF Links
    <2>2. m \in 1..n
      BY <1>1, <1>7, <1>8, <2>1
    <2> DEFINE Wrong == {i \in 1..m : q[i] # b.first - 1 + i}
    <2>3. Wrong = {}
      <3> SUFFICES ASSUME Wrong # {}
                   PROVE  FALSE
        OBVIOUS
      <3>1. Wrong \in SUBSET Nat
        OBVIOUS
      <3>2. PICK i \in Wrong : \A j \in Wrong : i <= j
        <4> HIDE DEF Wrong
        <4> QED
          BY <3>1, LeastNumber
      <3>3. i \in 1..m /\ q[i] # b.first - 1 + i
        OBVIOUS
      <3>4. i # 1
        BY <1>1, <2>1, <3>3
      <3>5. i - 1 \in 1..m /\ i - 1 < m /\ (i - 1) + 1 = i
        BY <1>8, <3>3, <3>4
      <3>6. i - 1 \notin Wrong
        BY <3>2, <3>3
      <3>7. q[i - 1] = b.first - 1 + (i - 1)
        BY <3>5, <3>6
      <3> HIDE DEF Wrong
      <3>8. q[i] = b.link[q[i - 1]].next
        BY <1>9, <3>5
      <3>9. q[i] \in 1..n /\ q[i - 1] \in 1..n
        BY <1>7, <3>3, <3>5
      <3>10. q[i - 1] \in b.first..n
        BY <1>1, <1>2, <1>11, <3>5, <3>7, <3>9
      <3>11. q[i] = IF q[i - 1] < n THEN q[i - 1] + 1 ELSE NoLink
        BY <1>2, <1>11, <3>8, <3>10
      <3> QED
        BY <1>1, <3>3, <3>7, <3>9, <3>11
    <2>4. \A i \in 1..m : q[i] = b.first - 1 + i
      BY <2>3
    <2>5. q[m] = b.first - 1 + m /\ q[m] \in 1..n /\ b.link[q[m]].next = NoLink
      BY <1>7, <1>9, <2>2, <2>4
    <2>6. q[m] \in b.first..n
      BY <1>1, <1>2, <1>11, <2>2, <2>5
    <2>7. q[m] = n
      BY <1>1, <1>2, <1>11, <2>5, <2>6
    <2>8. m = n + 1 - b.first
      BY <1>1, <1>8, <2>5, <2>7
    <2> QED
      BY <1>2, <1>8, <1>11, <2>4, <2>8 DEF q, n
  <1> QED
    BY <1>10, <1>11

\* Where the sender's steps leave it.
LEMMA FdControl ==
  ASSUME FdInv(io, at, upd, xfer)
  PROVE  /\ shuso_ipc_send_fd => at = "loop" /\ at' = "handler" /\ io' = io
         /\ SendMsg => at = "call" /\ at' = "handler" /\ io'.watch = io.watch
         /\ SendBlocks => at = "call" /\ at' = "loop" /\ io'.watch = "retry"
         /\ SendFails => at = "call" /\ at' = "handler" /\ io'.watch = io.watch
         /\ SendEvent => /\ at = "loop" /\ io.watch = "retry"
                         /\ \/ at' = "loop" /\ io' = io
                            \/ at' = "call" /\ io'.watch = "none"
         /\ \A b : SendNext(b) =>
              \/ /\ at' = "call" /\ io'.watch = io.watch /\ fdstage' = "sent"
                 /\ msg' = b.first /\ b.first # NoLink
              \/ at' = "loop" /\ io'.watch = io.watch /\ fdstage' = "start"
  <1>1. /\ Shape(io, xfer, upd) /\ io \in IoRec /\ upd \in BOOLEAN /\ xfer \in XferRec
        /\ ~io.catches /\ io.watch \in {"none", "retry"}
        /\ io.op \in {"none", "writev"}
        /\ io.op \in BufOps => Len(io.iov) = 1
    BY DEF FdInv, Shape
  <1>2. shuso_ipc_send_fd => at = "loop" /\ at' = "handler" /\ io' = io
    BY <1>1, RunHandlerIs DEF shuso_ipc_send_fd
  <1>3. ASSUME SendMsg
        PROVE  at = "call" /\ at' = "handler" /\ io'.watch = io.watch
    <2>1. CallMoves /\ at = "call"
      BY <1>3 DEF SendMsg, CallMoves
    <2>2. /\ io.op = "writev" /\ Len(io.iov) = 1 /\ io.iov[1].len = 1
          /\ io.op \in VecOps /\ io.op \notin BufOps /\ io.op \notin ReadOps
      BY <2>1 DEF FdInv, VecOps, BufOps, ReadOps
    <2>3. Left(io.iov) = 1
      BY <1>1, <2>2, LeftSmall DEF IoRec
    <2>4. PICK n \in 0..Left(io.iov) :
            /\ io' \in IoRec /\ SameCall(io, io')
            /\ io.op \in ReadOps \/ n > 0
            /\ \/ ~(Len(io.iov) = 1 /\ n = Left(io.iov))
               \/ RunHandler(io') /\ io'.watch = io.watch
      BY <1>1, <2>1, MovesIs
    <2>5. io' \in IoRec /\ RunHandler(io') /\ io'.watch = io.watch /\ ~io'.catches
      BY <1>1, <2>2, <2>3, <2>4 DEF SameCall
    <2> QED
      BY <1>1, <2>1, <2>5, RunHandlerIs
  <1>4. SendBlocks => at = "call" /\ at' = "loop" /\ io'.watch = "retry"
    BY <1>1, BlocksIs DEF SendBlocks
  <1>5. ASSUME SendFails
        PROVE  at = "call" /\ at' = "handler" /\ io'.watch = io.watch
    <2>1. /\ Shape(io', xfer', upd') /\ SameCall(io, io') /\ RunHandler(io')
          /\ io'.watch = io.watch /\ at = "call"
      BY <1>1, <1>5, FailsIs DEF SendFails
    <2>2. io' \in IoRec /\ ~io'.catches
      BY <1>1, <2>1 DEF Shape, SameCall
    <2> QED
      BY <1>1, <2>1, <2>2, RunHandlerIs
  <1>6. ASSUME SendEvent
        PROVE  /\ at = "loop" /\ io.watch = "retry"
               /\ \/ at' = "loop" /\ io' = io
                  \/ at' = "call" /\ io'.watch = "none"
    <2>1. Event({"w"})
      BY <1>6 DEF SendEvent
    <2>2. /\ at = "loop" /\ io.active
          /\ \/ io.watch = "none"
             \/ io.watch \in Polls \cup {"finish"}
             \/ /\ io.watch = "retry"
                /\ \/ at' = "loop" /\ io' = io
                   \/ at' = "call" /\ io' = [io EXCEPT !.watch = "none"]
      BY <1>1, <2>1, EventIs
    <2>3. io.watch = "retry"
      BY <1>1, <2>2 DEF FdInv
    <2>4. io' = [io EXCEPT !.watch = "none"] => io'.watch = "none"
      BY <1>1, UnwatchedIs
    <2> QED
      BY <2>2, <2>3, <2>4 DEF Polls
  <1>7. ASSUME NEW b, SendNext(b)
        PROVE  \/ /\ at' = "call" /\ io'.watch = io.watch /\ fdstage' = "sent"
                  /\ msg' = b.first /\ b.first # NoLink
               \/ at' = "loop" /\ io'.watch = io.watch /\ fdstage' = "start"
    <2>1. CASE ~io.error /\ buffer_next(b) # NoLink
      <3>1. /\ io' = [io EXCEPT !.op = "writev", !.result = 0, !.error = FALSE,
                           !.repeat = TRUE, !.iov = Entries(<<1>>), !.tmp = FALSE]
            /\ at' = "call" /\ fdstage' = "sent" /\ msg' = b.first /\ b.first # NoLink
        BY <1>7, <2>1 DEF SendNext, buffer_next
      <3>2. io'.watch = io.watch
        BY <1>1, <3>1 DEF IoRec
      <3> QED
        BY <3>1, <3>2
    <2>2. CASE ~(~io.error /\ buffer_next(b) # NoLink)
      <3>1. fdstage' = "start" /\ Return("loop")
        BY <1>7, <2>2 DEF SendNext
      <3> QED
        BY <1>1, <3>1, ReturnIs
    <2> QED
      BY <2>1, <2>2
  <1> QED
    BY <1>2, <1>3, <1>4, <1>5, <1>6, <1>7

\* The sender's steps.
LEMMA PassSends ==
  ASSUME FdInv(io, at, upd, xfer), PassInv,
         \/ shuso_ipc_send_fd \/ ipc_send_fd_coroutine
         \/ SendMsg \/ SendBlocks \/ SendFails \/ SendEvent
  PROVE  PassInv'
  <1>1. UNCHANGED recvVars /\ fault \subseteq fault'
    BY DEF shuso_ipc_send_fd, ipc_send_fd_coroutine, SendMsg, SendBlocks, SendFails,
           SendEvent
  <1>2. FdTimerInv'
    BY <1>1 DEF PassInv, FdTimerInv, recvVars
  <1>3. got' = got
    BY <1>1 DEF recvVars
  <1>4. SUFFICES ASSUME "blocked" \notin fault'
                 PROVE  FdSendInv' /\ FdThereInv'
    BY <1>2 DEF PassInv, FdSendInv, FdThereInv
  <1>5. "blocked" \notin fault /\ ("error" \notin fault' => "error" \notin fault)
    BY <1>1, <1>4
  <1>6. /\ "freed" \notin fault /\ QueueInv(fdbuf) /\ fdstage \in {"start", "sent"}
        /\ wire \in Seq(Nat) /\ got \in Seq([fd : Nat, to : Nat])
        /\ fdstage = "sent" => fdbuf.first # NoLink /\ msg = fdbuf.first
        /\ at = "call" => fdstage = "sent"
        /\ at = "loop" => (fdstage = "sent" <=> io.watch = "retry")
        /\ at # "loop" => io.watch # "retry"
    BY <1>5 DEF PassInv, FdSendInv
  <1>7. "error" \notin fault =>
          /\ \A i \in DOMAIN got : got[i].fd = i
          /\ \A i \in DOMAIN wire : wire[i] = Len(got) + i
          /\ Len(got) + Len(wire) = IF fdstage = "sent" /\ at = "handler"
                                   THEN Rest(fdbuf) ELSE Rest(fdbuf) - 1
    BY <1>5 DEF PassInv, FdThereInv
  <1>8. CASE shuso_ipc_send_fd
    <2>1. /\ fdbuf' = buffer_add(fdbuf, Len(fdbuf.link) + 1)
          /\ fault' = fault \cup (IF io.watch = "retry" THEN {"blocked"} ELSE {})
          /\ UNCHANGED <<fdstage, msg, wire>>
      BY <1>8 DEF shuso_ipc_send_fd
    <2>2. at = "loop" /\ at' = "handler" /\ io' = io
      BY <1>8, FdControl
    <2>3. io.watch # "retry" /\ fault' = fault /\ fdstage = "start"
      BY <1>4, <1>6, <2>1, <2>2
    <2>4. QueueInv(fdbuf') /\ Rest(fdbuf') = Rest(fdbuf)
      BY <1>6, <2>1, BufferAdd
    <2>5. FdSendInv'
      BY <1>3, <1>6, <2>1, <2>2, <2>3, <2>4 DEF FdSendInv
    <2>6. FdThereInv'
      BY <1>3, <1>7, <2>1, <2>2, <2>3, <2>4 DEF FdThereInv
    <2> QED
      BY <2>5, <2>6
  <1>9. CASE ipc_send_fd_coroutine
    <2> DEFINE b == IF fdstage = "sent"
                    THEN buffer_free(buffer_dequeue(fdbuf), fdbuf.first) ELSE fdbuf
    <2>1. /\ at = "handler" /\ fdbuf' = b /\ SendNext(b)
          /\ UNCHANGED <<wire, fault>>
      BY <1>9 DEF ipc_send_fd_coroutine
    <2>2. \/ /\ at' = "call" /\ io'.watch = io.watch /\ fdstage' = "sent"
             /\ msg' = b.first /\ b.first # NoLink
          \/ at' = "loop" /\ io'.watch = io.watch /\ fdstage' = "start"
      BY <2>1, FdControl
    <2>3. /\ QueueInv(b)
          /\ Rest(b) = IF fdstage = "sent" THEN Rest(fdbuf) + 1 ELSE Rest(fdbuf)
      <3>1. CASE fdstage = "sent"
        <4>1. b = buffer_free(buffer_dequeue(fdbuf), fdbuf.first)
          BY <3>1
        <4> HIDE DEF b
        <4> QED
          BY <1>6, <3>1, <4>1, BufferTake
      <3>2. CASE fdstage # "sent"
        BY <1>6, <3>2
      <3> QED
        BY <3>1, <3>2
    <2> HIDE DEF b
    <2>4. FdSendInv'
      BY <1>3, <1>6, <2>1, <2>2, <2>3 DEF FdSendInv
    <2>5. Rest(fdbuf) \in Nat
      BY <1>6 DEF QueueInv, FdBuf, Rest, NoLink
    <2>6. at' # "handler" /\ fdbuf' = b
      BY <2>1, <2>2
    <2>7. FdThereInv'
      BY <1>3, <1>7, <2>1, <2>3, <2>5, <2>6 DEF FdThereInv
    <2> QED
      BY <2>4, <2>7
  <1>10. CASE SendMsg
    <2>1. /\ wire' = Append(wire, fdbuf.link[msg].data)
          /\ fault' = fault \cup (IF fdbuf.link[msg].live THEN {} ELSE {"freed"})
          /\ UNCHANGED <<fdbuf, fdstage, msg>>
      BY <1>10 DEF SendMsg
    <2>2. at = "call" /\ at' = "handler" /\ io'.watch = io.watch
      BY <1>10, FdControl
    <2>3. fdstage = "sent" /\ fdbuf.first # NoLink /\ msg = fdbuf.first
      BY <1>6, <2>2
    <2>4. /\ msg \in Nat /\ fdbuf.link[msg].live /\ fdbuf.link[msg].data = msg
          /\ Rest(fdbuf) = msg
      <3>1. msg \in 1..Len(fdbuf.link) /\ msg \in msg..Len(fdbuf.link)
        BY <1>6, <2>3 DEF QueueInv, FdBuf
      <3> QED
        BY <1>6, <2>3, <3>1 DEF QueueInv, Rest
    <2>5. fault' = fault /\ wire' = Append(wire, msg)
      BY <2>1, <2>4
    <2>6. FdSendInv'
      BY <1>3, <1>6, <2>1, <2>2, <2>3, <2>4, <2>5 DEF FdSendInv
    <2>7. FdThereInv'
      <3> SUFFICES ASSUME "error" \notin fault
                   PROVE  /\ \A i \in DOMAIN wire' : wire'[i] = Len(got) + i
                          /\ Len(got) + Len(wire') = msg
        BY <1>3, <1>7, <2>1, <2>2, <2>3, <2>4, <2>5 DEF FdThereInv
      <3>1. Len(got) + Len(wire) = msg - 1 /\ \A i \in DOMAIN wire : wire[i] = Len(got) + i
        BY <1>7, <2>2, <2>4
      <3>2. /\ Len(wire) \in Nat /\ Len(got) \in Nat /\ Len(wire') = Len(wire) + 1
            /\ DOMAIN wire' = 1..(Len(wire) + 1) /\ DOMAIN wire = 1..Len(wire)
            /\ wire'[Len(wire) + 1] = msg
            /\ \A i \in DOMAIN wire : wire'[i] = wire[i]
        BY <1>6, <2>4, <2>5
      <3>3. \A i \in DOMAIN wire' : i = Len(wire) + 1 \/ i \in DOMAIN wire
        BY <3>2
      <3> QED
        BY <2>4, <3>1, <3>2, <3>3
    <2> QED
      BY <2>6, <2>7
  <1>11. CASE SendBlocks
    <2>1. UNCHANGED <<fdbuf, fdstage, msg, wire, fault>>
      BY <1>11 DEF SendBlocks
    <2>2. at = "call" /\ at' = "loop" /\ io'.watch = "retry"
      BY <1>11, FdControl
    <2>3. FdSendInv'
      BY <1>3, <1>6, <2>1, <2>2 DEF FdSendInv
    <2>4. FdThereInv'
      BY <1>3, <1>7, <2>1, <2>2 DEF FdThereInv
    <2> QED
      BY <2>3, <2>4
  <1>12. CASE SendFails
    <2>1. UNCHANGED <<fdbuf, fdstage, msg, wire>> /\ fault' = fault \cup {"error"}
      BY <1>12 DEF SendFails
    <2>2. at = "call" /\ at' = "handler" /\ io'.watch = io.watch
      BY <1>12, FdControl
    <2>3. FdSendInv'
      BY <1>3, <1>6, <2>1, <2>2 DEF FdSendInv
    <2>4. FdThereInv'
      BY <2>1 DEF FdThereInv
    <2> QED
      BY <2>3, <2>4
  <1>13. CASE SendEvent
    <2>1. UNCHANGED <<fdbuf, fdstage, msg, wire, fault>>
      BY <1>13 DEF SendEvent
    <2>2. /\ at = "loop" /\ io.watch = "retry"
          /\ \/ at' = "loop" /\ io' = io
             \/ at' = "call" /\ io'.watch = "none"
      BY <1>13, FdControl
    <2>3. FdSendInv'
      BY <1>3, <1>6, <2>1, <2>2 DEF FdSendInv
    <2>4. FdThereInv'
      BY <1>3, <1>7, <2>1, <2>2 DEF FdThereInv
    <2> QED
      BY <2>3, <2>4
  <1> QED
    BY <1>8, <1>9, <1>10, <1>11, <1>12, <1>13

\* A descriptor is received.
LEMMA PassReceives ==
  ASSUME PassInv, FdReceive
  PROVE  PassInv'
  <1>1. /\ wire # <<>> /\ wire' = Tail(wire)
        /\ got' = Append(got, [fd |-> Head(wire), to |-> refs[1]])
        /\ UNCHANGED <<sendVars, refs, slot, timers, started, ended, fault>>
    BY DEF FdReceive
  <1>2. UNCHANGED <<io, at, fdbuf, fdstage, msg, refs, slot, timers, started, ended, fault>>
    BY <1>1 DEF sendVars
  <1>3. FdTimerInv'
    BY <1>2 DEF PassInv, FdTimerInv
  <1> SUFFICES ASSUME "blocked" \notin fault
               PROVE  FdSendInv' /\ FdThereInv'
    BY <1>2, <1>3 DEF PassInv, FdSendInv, FdThereInv
  <1> DEFINE g == [fd |-> Head(wire), to |-> refs[1]]
  <1>4. wire \in Seq(Nat) /\ got \in Seq([fd : Nat, to : Nat])
    BY DEF PassInv, FdSendInv
  <1>5. /\ Head(wire) = wire[1] /\ Head(wire) \in Nat /\ wire' \in Seq(Nat)
        /\ 1 \in DOMAIN wire /\ Len(wire') = Len(wire) - 1 /\ Len(wire) \in Nat
        /\ \A i \in DOMAIN wire' : i + 1 \in DOMAIN wire /\ wire'[i] = wire[i + 1]
                                   /\ i \in Nat
    BY <1>1, <1>4
  <1>6. refs[1] \in Nat
    BY FdAssumption DEF PassInv, FdTimerInv
  <1>7. g \in [fd : Nat, to : Nat] /\ g.fd = wire[1]
    BY <1>5, <1>6
  <1> HIDE DEF g
  <1>8. /\ got' \in Seq([fd : Nat, to : Nat]) /\ Len(got') = Len(got) + 1
        /\ Len(got) \in Nat /\ got'[Len(got) + 1] = g
        /\ DOMAIN got' = 1..(Len(got) + 1) /\ DOMAIN got = 1..Len(got)
        /\ \A i \in DOMAIN got : got'[i] = got[i]
    <2>1. got' = Append(got, g)
      BY <1>1 DEF g
    <2> QED
      BY <1>4, <1>7, <2>1
  <1>9. FdSendInv'
    BY <1>2, <1>5, <1>8 DEF PassInv, FdSendInv
  <1>10. FdThereInv'
    <2> SUFFICES ASSUME "error" \notin fault
                 PROVE  /\ \A i \in DOMAIN got' : got'[i].fd = i
                        /\ \A i \in DOMAIN wire' : wire'[i] = Len(got') + i
                        /\ Len(got') + Len(wire') = Len(got) + Len(wire)
      BY <1>2 DEF PassInv, FdThereInv
    <2>1. /\ \A i \in DOMAIN got : got[i].fd = i
          /\ \A i \in DOMAIN wire : wire[i] = Len(got) + i
      BY DEF PassInv, FdThereInv
    <2>2. g.fd = Len(got) + 1
      BY <1>5, <1>7, <2>1
    <2>3. \A i \in DOMAIN got' : i = Len(got) + 1 \/ i \in DOMAIN got
      BY <1>8
    <2>4. \A i \in DOMAIN got' : got'[i].fd = i
      BY <1>8, <2>1, <2>2, <2>3
    <2>5. \A i \in DOMAIN wire' : wire'[i] = Len(got') + i
      BY <1>5, <1>8, <2>1
    <2> QED
      BY <1>5, <1>8, <2>4, <2>5
  <1> QED
    BY <1>9, <1>10

\* The steps of the receivers, and of their timers.
LEMMA PassTimes ==
  ASSUME PassInv,
         \/ FdReceiveEnds
         \/ \E timeout \in BOOLEAN : shuso_ipc_receive_fd_start(timeout)
         \/ \E r \in 1..MaxRefs : shuso_ipc_receive_fd_finish(r)
         \/ \E t \in timers : ipc_receive_fd_timeout_cb(t)
  PROVE  PassInv'
  <1>1. /\ UNCHANGED <<io, at, fdbuf, fdstage, msg, wire, got>>
        /\ "blocked" \notin fault' => "blocked" \notin fault
        /\ "error" \notin fault' => "error" \notin fault
        /\ "freed" \notin fault => "freed" \notin fault'
        /\ "clobbered" \notin fault' => "clobbered" \notin fault
    BY DEF FdReceiveEnds, shuso_ipc_receive_fd_start, shuso_ipc_receive_fd_finish,
           ipc_receive_fd_timeout_cb, sendVars
  <1>2. FdSendInv' /\ FdThereInv'
    BY <1>1 DEF PassInv, FdSendInv, FdThereInv
  <1>3. refs \in [1..MaxRefs -> Nat] /\ started \in Nat
    BY DEF PassInv, FdTimerInv
  <1>4. "clobbered" \notin fault' =>
          /\ timers \subseteq {slot}
          /\ \A t \in timers : refs[t.ref] = t.owner /\ t.owner # 0
                               /\ t.ref \in 1..MaxRefs
          /\ \A e \in ended : e.by \in {0, e.owner}
    BY <1>1 DEF PassInv, FdTimerInv
  <1>5. ASSUME FdReceiveEnds
        PROVE  FdTimerInv'
    <2>1. UNCHANGED <<refs, slot, timers, started, ended, fault>>
      BY <1>5 DEF FdReceiveEnds
    <2> QED
      BY <2>1 DEF PassInv, FdTimerInv
  <1>6. ASSUME NEW timeout \in BOOLEAN, shuso_ipc_receive_fd_start(timeout)
        PROVE  FdTimerInv'
    <2> DEFINE r == CHOOSE x \in FreeRefs : \A y \in FreeRefs : x <= y
               t == [owner |-> started + 1, ref |-> r]
    <2>1. /\ refs' = [refs EXCEPT ![r] = started + 1]
          /\ slot' = IF timeout THEN t ELSE slot
          /\ timers' = IF timeout THEN timers \cup {t} ELSE timers
          /\ fault' = fault \cup (IF timeout /\ slot \in timers THEN {"clobbered"} ELSE {})
          /\ started' = started + 1 /\ ended' = ended /\ FreeRefs # {}
      BY <1>6 DEF shuso_ipc_receive_fd_start
    <2>2. r \in 1..MaxRefs /\ refs[r] = 0
      <3>1. FreeRefs \in SUBSET Nat /\ FreeRefs # {} /\ FreeRefs \subseteq 1..MaxRefs
        BY <1>3, <2>1 DEF FreeRefs
      <3>2. \E x \in FreeRefs : \A y \in FreeRefs : x <= y
        BY <3>1, LeastNumber
      <3>3. r \in FreeRefs
        BY <3>2
      <3> QED
        BY <3>1, <3>3 DEF FreeRefs
    <2>3. t.owner = started + 1 /\ t.ref = r
      OBVIOUS
    <2> HIDE DEF r, t
    <2>4. refs' \in [1..MaxRefs -> Nat] /\ started' \in Nat /\ refs'[r] = started + 1
          /\ \A x \in 1..MaxRefs : x # r => refs'[x] = refs[x]
      BY <1>3, <2>1, <2>2
    <2>5. ASSUME "clobbered" \notin fault'
          PROVE  /\ timers' \subseteq {slot'}
                 /\ \A x \in timers' : refs'[x.ref] = x.owner /\ x.owner # 0
                                       /\ x.ref \in 1..MaxRefs
      <3>1. CASE timeout
        <4>1. timers = {}
          BY <1>4, <2>1, <2>5, <3>1
        <4>2. timers' = {t} /\ slot' = t
          BY <2>1, <3>1, <4>1
        <4> QED
          BY <1>3, <2>2, <2>3, <2>4, <4>2
      <3>2. CASE ~timeout
        <4>1. timers' = timers /\ slot' = slot
          BY <2>1, <3>2
        <4>2. \A x \in timers : x.ref # r
          BY <1>4, <2>2, <2>5
        <4> QED
          BY <1>4, <2>4, <2>5, <4>1, <4>2
      <3> QED
        BY <3>1, <3>2
    <2> QED
      BY <1>4, <2>1, <2>4, <2>5 DEF FdTimerInv
  <1>7. ASSUME NEW r \in 1..MaxRefs, NEW by, Finish(r, by), slot' = slot,
               started' = started,
               "clobbered" \notin fault' => by.owner \in {0, refs[r]}
        PROVE  FdTimerInv'
    <2>1. /\ refs' = [refs EXCEPT ![r] = 0] /\ timers' = timers \ {slot, by}
          /\ ended' = ended \cup {[owner |-> refs[r], by |-> by.owner]}
      BY <1>7 DEF Finish
    <2>2. refs' \in [1..MaxRefs -> Nat]
      BY <1>3, <2>1
    <2>3. "clobbered" \notin fault' => timers' = {}
      BY <1>4, <2>1
    <2>4. "clobbered" \notin fault' => \A e \in ended' : e.by \in {0, e.owner}
      BY <1>4, <1>7, <2>1
    <2> QED
      BY <1>3, <1>7, <2>2, <2>3, <2>4 DEF FdTimerInv
  <1>8. ASSUME NEW r \in 1..MaxRefs, shuso_ipc_receive_fd_finish(r)
        PROVE  FdTimerInv'
    <2>1. Finish(r, NoTimer) /\ slot' = slot /\ started' = started
      BY <1>8 DEF shuso_ipc_receive_fd_finish
    <2>2. NoTimer.owner = 0
      BY DEF NoTimer
    <2> QED
      BY <1>7, <2>1, <2>2
  <1>9. ASSUME NEW t \in timers, ipc_receive_fd_timeout_cb(t)
        PROVE  FdTimerInv'
    <2>1. slot' = slot /\ started' = started /\ fault' = fault
      BY <1>9 DEF ipc_receive_fd_timeout_cb
    <2>2. CASE refs[t.ref] # 0 /\ t.ref \in 1..MaxRefs
      <3>1. Finish(t.ref, t)
        BY <1>9, <2>2 DEF ipc_receive_fd_timeout_cb
      <3>2. "clobbered" \notin fault' => t.owner \in {0, refs[t.ref]}
        BY <1>4
      <3> QED
        BY <1>7, <2>1, <2>2, <3>1, <3>2
    <2>3. CASE refs[t.ref] = 0
      <3>1. timers' = timers \ {t} /\ refs' = refs /\ ended' = ended
        BY <1>9, <2>3 DEF ipc_receive_fd_timeout_cb
      <3> QED
        BY <1>3, <1>4, <2>1, <3>1 DEF FdTimerInv
    <2>4. CASE t.ref \notin 1..MaxRefs
      <3>1. "clobbered" \in fault'
        BY <1>4, <2>4
      <3>2. refs' \in [1..MaxRefs -> Nat]
        <4>1. \/ refs' = [refs EXCEPT ![t.ref] = 0] \/ refs' = refs
          BY <1>9 DEF ipc_receive_fd_timeout_cb, Finish
        <4> QED
          BY <1>3, <2>4, <4>1
      <3> QED
        BY <1>3, <2>1, <3>1, <3>2 DEF FdTimerInv
    <2> QED
      BY <2>2, <2>3, <2>4
  <1> QED
    BY <1>2, <1>5, <1>6, <1>8, <1>9 DEF PassInv

\* What of this does not depend on where the coroutine is.
OnTheWay ==
  /\ "blocked" \notin fault =>
       /\ "freed" \notin fault /\ QueueInv(fdbuf) /\ wire \in Seq(Nat)
       /\ got \in Seq([fd : Nat, to : Nat])
  /\ "blocked" \notin fault /\ "error" \notin fault =>
       /\ \A i \in DOMAIN got : got[i].fd = i
       /\ \A i \in DOMAIN wire : wire[i] = Len(got) + i
       /\ Len(got) + Len(wire) \in {Rest(fdbuf), Rest(fdbuf) - 1}
  /\ FdTimerInv

\* It holds before anything is sent, and wherever the coroutine is.
LEMMA IdleOnTheWay ==
  ASSUME fdbuf = buffer_init("heap"), wire = <<>>, got = <<>>,
         refs = [r \in 1..MaxRefs |-> 0], timers = {}, started = 0, ended = {},
         fault = {}
  PROVE  OnTheWay /\ QueueInv(fdbuf) /\ Rest(fdbuf) = 1
  <1>1. /\ fdbuf.first = NoLink /\ fdbuf.last = NoLink /\ fdbuf.link = <<>>
        /\ fdbuf \in FdBuf
    <2>1. <<>> \in Seq(FdLink) /\ NoLink \in Nat
      BY DEF NoLink
    <2> QED
      BY <2>1 DEF buffer_init, FdBuf
  <1>2. QueueInv(fdbuf)
    BY <1>1 DEF QueueInv
  <1>3. Rest(fdbuf) = 1
    BY <1>1 DEF Rest
  <1>4. /\ wire \in Seq(Nat) /\ got \in Seq([fd : Nat, to : Nat])
        /\ Len(wire) = 0 /\ Len(got) = 0 /\ DOMAIN wire = {} /\ DOMAIN got = {}
    OBVIOUS
  <1>5. FdTimerInv
    BY DEF FdTimerInv
  <1> QED
    BY <1>2, <1>3, <1>4, <1>5 DEF OnTheWay

LEMMA PassOnTheWay ==
  ASSUME PassInv
  PROVE  OnTheWay
  BY DEF PassInv, FdSendInv, FdThereInv, OnTheWay

\* Then descriptors are delivered: those received and those on the wire are
\* counted through, and the queue goes on from there.
LEMMA DeliveredIs ==
  ASSUME OnTheWay
  PROVE  FdDelivered
  <1>1. FdMessageLive /\ FdTimeoutOwn
    BY DEF OnTheWay, FdTimerInv, FdMessageLive, FdTimeoutOwn
  <1> DEFINE fds == [i \in DOMAIN got |-> got[i].fd]
             there == fds \o wire
             rest == Queued(fdbuf)
             n == Len(fdbuf.link)
  <1>2. ASSUME fault \cap {"blocked", "error", "freed"} = {}
        PROVE  /\ \A i \in DOMAIN there : there[i] = i
               /\ \A i \in DOMAIN rest : rest[i] = n - Len(rest) + i
               /\ n \in {Len(there) + Len(rest), Len(there) + Len(rest) - 1}
    <2>1. /\ QueueInv(fdbuf) /\ wire \in Seq(Nat)
          /\ got \in Seq([fd : Nat, to : Nat])
          /\ \A i \in DOMAIN got : got[i].fd = i
          /\ \A i \in DOMAIN wire : wire[i] = Len(got) + i
          /\ Len(got) + Len(wire) \in {Rest(fdbuf), Rest(fdbuf) - 1}
      BY <1>2 DEF OnTheWay
    <2>2. n \in Nat /\ Rest(fdbuf) \in Nat
      BY <2>1 DEF QueueInv, FdBuf, Rest, NoLink
    <2>3. /\ Len(rest) = n + 1 - Rest(fdbuf)
          /\ \A i \in DOMAIN rest : rest[i] = Rest(fdbuf) - 1 + i
          /\ DOMAIN rest = 1..Len(rest)
      BY <2>1, QueuedIs, Zenon
    <2>4. /\ fds \in Seq(Nat) /\ Len(fds) = Len(got)
          /\ \A i \in 1..Len(got) : fds[i] = i
      <3>1. /\ DOMAIN got = 1..Len(got) /\ Len(got) \in Nat
            /\ \A i \in 1..Len(got) : got[i].fd \in Nat
        BY <2>1
      <3>2. fds \in [1..Len(got) -> Nat] /\ \A i \in 1..Len(got) : fds[i] = i
        BY <2>1, <3>1
      <3> HIDE DEF fds
      <3> QED
        BY <3>1, <3>2
    <2> HIDE DEF fds
    <2>5. /\ there \in Seq(Nat) /\ Len(there) = Len(got) + Len(wire)
          /\ \A i \in 1..Len(there) :
               there[i] = IF i <= Len(fds) THEN fds[i] ELSE wire[i - Len(fds)]
      <3>1. /\ there \in Seq(Nat) /\ Len(there) = Len(fds) + Len(wire)
            /\ \A i \in 1..(Len(fds) + Len(wire)) :
                 there[i] = IF i <= Len(fds) THEN fds[i] ELSE wire[i - Len(fds)]
        BY <2>1, <2>4, ConcatProperties, Zenon
      <3> HIDE DEF there
      <3> QED
        BY <2>4, <3>1
    <2> HIDE DEF there, rest, n
    <2>6. /\ Len(got) \in Nat /\ Len(wire) \in Nat /\ DOMAIN wire = 1..Len(wire)
          /\ DOMAIN there = 1..Len(there)
      BY <2>1, <2>5
    <2>7. \A i \in DOMAIN there : there[i] = i
      <3> SUFFICES ASSUME NEW i \in 1..Len(there)
                   PROVE  there[i] = i
        BY <2>6
      <3>1. CASE i <= Len(fds)
        <4>1. i \in 1..Len(got) /\ there[i] = fds[i]
          BY <2>4, <2>5, <2>6, <3>1
        <4> QED
          BY <2>4, <4>1
      <3>2. CASE ~(i <= Len(fds))
        <4>1. i - Len(fds) \in 1..Len(wire) /\ there[i] = wire[i - Len(fds)]
          BY <2>4, <2>5, <2>6, <3>2
        <4>2. wire[i - Len(fds)] = Len(got) + (i - Len(fds))
          BY <2>1, <2>6, <4>1
        <4> QED
          BY <2>4, <2>6, <4>1, <4>2
      <3> QED
        BY <3>1, <3>2
    <2>8. \A i \in DOMAIN rest : rest[i] = n - Len(rest) + i
      BY <2>2, <2>3
    <2>9. n \in {Len(there) + Len(rest), Len(there) + Len(rest) - 1}
      BY <2>1, <2>2, <2>3, <2>5, <2>6
    <2> QED
      BY <2>7, <2>8, <2>9
  <1>3. FdExactlyOnce
    BY <1>2 DEF FdExactlyOnce
  <1> QED
    BY <1>1, <1>3 DEF FdDelivered

(****************************** the theorems *******************************)

\* Whatever coroutine it is that runs on the io object.
IoInv ==
  /\ kind \in {"plain", "lua", "listener", "fd"}
  /\ kind \in {"plain", "lua"} => CoroInv(io, at, upd, xfer)
  /\ kind = "lua" => LuaInv(io, at, ld, running)
  /\ kind = "listener" => ListenInv(io, at, upd, xfer)
  /\ kind = "fd" => FdInv(io, at, upd, xfer)

\* A new io object.
LEMMA NewIs ==
  ASSUME NEW rw \in SUBSET {"r", "w"}, NEW catches \in BOOLEAN
  PROVE  LET x == IoNew(rw, catches)
         IN  /\ x \in IoRec /\ Left(x.iov) = 0 /\ x.result = 0
             /\ x.op = "none" /\ x.watch = "none" /\ ~x.active /\ ~x.tmp
             /\ x.catches = catches
  <1> DEFINE x == IoNew(rw, catches)
  <1>1. <<>> \in Seq(Entry) /\ Len(<<>>) = 0
    OBVIOUS
  <1>2. Left(<<>>) = 0
    BY <1>1, LengthsType, SumSmall
  <1>3. x \in IoRec
    BY <1>1 DEF IoNew, IoRec, Watches
  <1>4. /\ x.iov = <<>> /\ x.result = 0 /\ x.op = "none"
        /\ x.watch = "none" /\ ~x.active /\ ~x.tmp /\ x.catches = catches
    BY DEF IoNew
  <1> HIDE DEF x
  <1> QED
    BY <1>2, <1>3, <1>4 DEF x

\* Nothing is moved yet.
LEMMA NewShape ==
  ASSUME NEW x \in IoRec, Left(x.iov) = 0, x.result = 0, x.op = "none",
         NEW u \in BOOLEAN
  PROVE  Shape(x, [total |-> 0, next |-> 0, skew |-> FALSE], u)
  <1> DEFINE xf == [total |-> 0, next |-> 0, skew |-> FALSE]
  <1>1. xf \in XferRec /\ xf.total = 0
    BY DEF XferRec
  <1> HIDE DEF xf
  <1>2. Shape(x, xf, u)
    BY <1>1 DEF Shape, BufOps
  <1> QED
    BY <1>2 DEF xf

\* The invariant holds at the start.
LEMMA IoInvInit ==
  ASSUME Init
  PROVE  IoInv
  <1>1. kind \in {"plain", "lua", "listener", "fd"}
    BY KindsAssumption DEF Init
  <1>2. ASSUME NEW rws \in SUBSET SUBSET {"r", "w"}, IoInit(rws, FALSE)
        PROVE  CoroInv(io, at, upd, xfer) /\ at = "handler"
    <2>1. PICK rw \in rws : io = IoNew(rw, FALSE)
      BY <1>2 DEF IoInit
    <2>2. /\ at = "handler" /\ upd = TRUE
          /\ xfer = [total |-> 0, next |-> 0, skew |-> FALSE]
      BY <1>2 DEF IoInit
    <2>3. /\ io \in IoRec /\ Left(io.iov) = 0 /\ io.result = 0
          /\ io.op = "none" /\ io.watch = "none" /\ ~io.tmp /\ ~io.catches
      BY <2>1, NewIs
    <2>4. Shape(io, xfer, upd)
      BY <2>2, <2>3, NewShape
    <2>5. Waiting(io, at, upd)
      BY <2>2, <2>3 DEF Waiting
    <2>6. Bytes(io, at, xfer)
      BY <2>3 DEF Bytes, BufOps
    <2> QED
      BY <2>2, <2>4, <2>5, <2>6 DEF CoroInv
  <1>3. CASE kind = "plain"
    <2>1. IoInit({{"r"}, {"w"}, {"r", "w"}}, FALSE)
      BY <1>3, Zenon DEF Init
    <2>2. {{"r"}, {"w"}, {"r", "w"}} \in SUBSET SUBSET {"r", "w"}
      OBVIOUS
    <2> QED
      BY <1>2, <1>3, <2>1, <2>2 DEF IoInv
  <1>4. CASE kind = "lua"
    <2>1. LuaIoInit
      BY <1>4, Zenon DEF Init
    <2>2. {{"r", "w"}} \in SUBSET SUBSET {"r", "w"}
      OBVIOUS
    <2>3. CoroInv(io, at, upd, xfer) /\ at = "handler"
      BY <1>2, <2>1, <2>2 DEF LuaIoInit
    <2>4. /\ running = TRUE
          /\ ld = [op |-> "none", complete |-> TRUE, partial |-> FALSE,
                   buf |-> FALSE, ref |-> FALSE]
      BY <2>1 DEF LuaIoInit
    <2>5. ld \in LuaRec /\ ~ld.buf /\ ~ld.ref
      BY <2>4 DEF LuaRec
    <2>6. LuaInv(io, at, ld, running)
      BY <2>3, <2>4, <2>5 DEF LuaInv
    <2> QED
      BY <1>4, <2>3, <2>6 DEF IoInv
  <1>5. CASE kind = "listener"
    <2>1. ListenerInit
      BY <1>5, Zenon DEF Init
    <2> DEFINE x == IoNew({"r"}, TRUE)
    <2>2. /\ io = [x EXCEPT !.watch = "poll_r", !.active = TRUE]
          /\ at = "loop" /\ upd = FALSE
          /\ xfer = [total |-> 0, next |-> 0, skew |-> FALSE]
      BY <2>1 DEF ListenerInit
    <2>3. /\ x \in IoRec /\ Left(x.iov) = 0 /\ x.result = 0
          /\ x.op = "none" /\ ~x.tmp /\ x.catches
      BY NewIs
    <2> HIDE DEF x
    <2>4. "poll_r" \in Watches
      BY DEF Watches, Polls
    <2>5. /\ io \in IoRec /\ io.iov = x.iov /\ io.result = x.result
          /\ io.op = x.op /\ io.tmp = x.tmp /\ io.catches = x.catches
      BY <2>2, <2>3, <2>4 DEF IoRec
    <2>6. Shape(io, xfer, upd)
      BY <2>2, <2>3, <2>5, NewShape
    <2>7. ListenInv(io, at, upd, xfer)
      BY <2>2, <2>3, <2>5, <2>6 DEF ListenInv, At
    <2> QED
      BY <1>5, <2>7 DEF IoInv
  <1>6. CASE kind = "fd"
    <2>1. FdInit
      BY <1>6, Zenon DEF Init
    <2>2. /\ io = IoNew({"w"}, FALSE) /\ at = "loop" /\ upd = FALSE
          /\ xfer = [total |-> 0, next |-> 0, skew |-> FALSE]
      BY <2>1 DEF FdInit
    <2>3. /\ io \in IoRec /\ Left(io.iov) = 0 /\ io.result = 0
          /\ io.op = "none" /\ io.watch = "none" /\ ~io.active
          /\ ~io.tmp /\ ~io.catches
      BY <2>2, NewIs
    <2>4. Shape(io, xfer, upd)
      BY <2>2, <2>3, NewShape
    <2>5. FdInv(io, at, upd, xfer)
      BY <2>2, <2>3, <2>4 DEF FdInv
    <2> QED
      BY <1>6, <2>5 DEF IoInv
  <1> QED
    BY <1>1, <1>3, <1>4, <1>5, <1>6

\* Every step keeps it.
LEMMA IoInvNext ==
  ASSUME IoInv, [Next]_vars
  PROVE  IoInv'
  <1>1. CASE UNCHANGED vars
    BY <1>1 DEF IoInv, vars, ioVars, luaOwn
  <1>2. CASE Plain /\ kind' = kind
    <2>1. kind = "plain" /\ IoNext
      BY <1>2 DEF Plain
    <2>2. CoroInv(io', at', upd', xfer')
      BY <2>1, CoroStep DEF IoInv
    <2> QED
      BY <1>2, <2>1, <2>2 DEF IoInv
  <1>3. CASE Lua /\ kind' = kind
    <2>1. kind = "lua" /\ LuaIoNext
      BY <1>3 DEF Lua
    <2>2. CoroInv(io', at', upd', xfer') /\ LuaInv(io', at', ld', running')
      BY <2>1, LuaStep DEF IoInv
    <2> QED
      BY <1>3, <2>1, <2>2 DEF IoInv
  <1>4. CASE Listen /\ kind' = kind
    <2>1. kind = "listener" /\ ListenerNext
      BY <1>4 DEF Listen
    <2>2. ListenInv(io', at', upd', xfer')
      BY <2>1, ListenStep DEF IoInv
    <2> QED
      BY <1>4, <2>1, <2>2 DEF IoInv
  <1>5. CASE Pass /\ kind' = kind
    <2>1. kind = "fd" /\ FdNext
      BY <1>5 DEF Pass
    <2>2. FdInv(io', at', upd', xfer')
      BY <2>1, FdStep DEF IoInv
    <2> QED
      BY <1>5, <2>1, <2>2 DEF IoInv
  <1> QED
    BY <1>1, <1>2, <1>3, <1>4, <1>5 DEF Next

\* The invariant of the io object.
THEOREM IoInvariant == Spec => []IoInv
  <1>1. Init => IoInv
    BY IoInvInit
  <1>2. IoInv /\ [Next]_vars => IoInv'
    BY IoInvNext
  <1> QED
    BY <1>1, <1>2, PTL DEF Spec

\* Bytes are moved exactly once by a read or a write of one buffer, however
\* the calls are cut up, interrupted and retried, and no temporary vector
\* outlives its operation: for every buffer and any number of operations.
THEOREM IoBytesExact == Spec => []IoExact
  <1>1. IoInv => IoExact
    <2> SUFFICES ASSUME IoInv
                 PROVE  IoExact
      OBVIOUS
    <2>1. Shape(io, xfer, upd) /\ at \in At
      BY DEF IoInv, CoroInv, Waiting, ListenInv, FdInv, At
    <2>2. IoTypeOK
      BY <2>1 DEF IoTypeOK, Shape, IoRec
    <2>3. IoTemporaryFreed
      BY DEF IoTemporaryFreed, IoInv, CoroInv, Waiting, ListenInv, FdInv
    <2>4. IoBufExact
      <3>1. CASE kind \in {"plain", "lua"}
        <4>1. Bytes(io, at, xfer)
          BY <3>1 DEF IoInv, CoroInv
        <4> QED
          BY <4>1 DEF Bytes, Resumed, IoBufExact, Moving
      <3>2. CASE kind \in {"listener", "fd"}
        <4>1. io.op \notin BufOps
          BY <3>2 DEF IoInv, ListenInv, FdInv, BufOps
        <4> QED
          BY <4>1 DEF IoBufExact, Moving
      <3> QED
        BY <3>1, <3>2 DEF IoInv
    <2> QED
      BY <2>2, <2>3, <2>4 DEF IoExact
  <1> QED
    BY <1>1, IoInvariant, PTL

\* In the event loop a coroutine without an error handler has its watcher
\* active exactly when it waits for something, and
\* shuso_io_ev_watcher_handler never meets one that waits for nothing.
THEOREM IoWatcherActive == Spec => []IoWatched
  <1>1. IoInv => IoWatched
    BY DEF IoInv, CoroInv, Waiting, ListenInv, FdInv, IoWatched
  <1> QED
    BY <1>1, IoInvariant, PTL

\* An operation called from Lua completes once: lua_io_handler runs for the
\* operation Lua waits for, and leaves no buffer and no reference behind.
THEOREM LuaIoCompletesOnce == Spec => []OneCompletion
  <1>1. IoInv => OneCompletion
    BY DEF IoInv, LuaInv, OneCompletion, LuaIoExact, LuaOneCompletion,
           LuaIdleHoldsNothing
  <1> QED
    BY <1>1, IoInvariant, PTL

\* Descriptors handed to shuso_ipc_send_fd arrive once and in order, none is
\* sent from freed memory, and a timeout ends its own receiver, as long as no
\* send is attempted while another is blocked, no call fails and no timer is
\* started over an active one: for any number of descriptors and receivers.
THEOREM FdsDelivered == Spec => []FdDelivered
  <1> DEFINE FdsInv == IF kind = "fd" THEN PassInv ELSE OnTheWay
  <1>1. Init => FdsInv
    <2> SUFFICES ASSUME Init
                 PROVE  FdsInv
      OBVIOUS
    <2>1. CASE kind = "fd"
      <3>1. FdInit
        BY <2>1, Zenon DEF Init
      <3>2. OnTheWay /\ QueueInv(fdbuf) /\ Rest(fdbuf) = 1
        BY <3>1, IdleOnTheWay DEF FdInit
      <3>3. io.watch = "none"
        BY <3>1 DEF FdInit, IoNew
      <3>4. FdSendInv
        BY <3>1, <3>2, <3>3 DEF FdInit, OnTheWay, FdSendInv
      <3>5. FdThereInv
        <4>1. Len(got) = 0 /\ Len(wire) = 0 /\ fdstage = "start"
          BY <3>1 DEF FdInit
        <4> QED
          BY <3>2, <4>1 DEF OnTheWay, FdThereInv
      <3> QED
        BY <2>1, <3>2, <3>4, <3>5 DEF OnTheWay, PassInv
    <2>2. CASE kind # "fd"
      <3>1. FdIdle
        BY <2>2, KindsAssumption, Zenon DEF Init
      <3> QED
        BY <2>2, <3>1, IdleOnTheWay DEF FdIdle
    <2> QED
      BY <2>1, <2>2
  <1>2. IoInv /\ FdsInv /\ [Next]_vars => FdsInv'
    <2> SUFFICES ASSUME IoInv, FdsInv, [Next]_vars
                 PROVE  FdsInv'
      OBVIOUS
    <2>1. ASSUME UNCHANGED <<kind, fdOwn>>, kind # "fd"
          PROVE  FdsInv'
      BY <2>1 DEF fdOwn, OnTheWay, FdTimerInv
    <2>2. ASSUME UNCHANGED vars
          PROVE  FdsInv'
      BY <2>1, <2>2 DEF vars, ioVars, fdOwn, PassInv, FdSendInv, FdThereInv, FdTimerInv
    <2>3. ASSUME Plain \/ Lua \/ Listen, UNCHANGED kind
          PROVE  FdsInv'
      BY <2>1, <2>3 DEF Plain, Lua, Listen
    <2>4. ASSUME Pass, UNCHANGED kind
          PROVE  FdsInv'
      <3>1. kind = "fd" /\ FdNext /\ PassInv /\ FdInv(io, at, upd, xfer)
        BY <2>4 DEF Pass, IoInv
      <3>2. PassInv'
        BY <3>1, PassSends, PassReceives, PassTimes DEF FdNext
      <3> QED
        BY <2>4, <3>1, <3>2
    <2> QED
      BY <2>2, <2>3, <2>4 DEF Next
  <1>3. FdsInv => FdDelivered
    BY PassOnTheWay, DeliveredIs
  <1> QED
    BY <1>1, <1>2, <1>3, IoInvariant, PTL DEF Spec
=============================================================================
