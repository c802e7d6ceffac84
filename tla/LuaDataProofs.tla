---------------------------- MODULE LuaDataProofs ----------------------------
(***************************************************************************)
(* Proofs about the data that Lua states share.  Lazy atomics, for any     *)
(* number of processes, operations and shared strings: the types and the   *)
(* counter are sound whatever fresh memory holds, and strings are freed    *)
(* once up to the moment what it held is freed.  Lua messages, for any     *)
(* number of workers and messages, whether processes stop or not.          *)
(***************************************************************************)
EXTENDS LazyAtomics, LuaIpc, FiniteSetTheorems, TLAPS

(****************************** lazy atomics *******************************)

\* One atomic, from its creation on.
AtomicSpec == AtomicInit /\ [][AtomicNext]_atomicVars

-----------------------------------------------------------------------------
(* The invariant.                                                          *)

SetTypes == AllAtomicTypes \cup {"empty"}
Steps == {"idle", "store", "exchange", "free", "update", "get", "copy", "add"}
Strings == 0..(MaxStrings + 1)

AtomicTypeOK ==
  /\ atomic \in [live : BOOLEAN, count : Nat, type : SetTypes,
                 string : Strings, written : SUBSET SetTypes,
                 fresh : Strings]
  /\ strings \subseteq 1..MaxStrings
  /\ aproc \in [AtomicProcs -> [pc : Steps, type : SetTypes, old : Nat,
                                str : Strings]]
  /\ aops \in Nat
  /\ overlap \in [AtomicProcs -> SUBSET AtomicProcs]

\* The type of the value, and every type a process is about to make it or has
\* read from it, has a field that was stored.
Stored ==
  /\ atomic.type \in atomic.written
  /\ \A p \in AtomicProcs :
       /\ aproc[p].pc \in {"update", "get", "copy", "add"} =>
            aproc[p].type \in atomic.written
       /\ aproc[p].pc \in {"exchange", "free"} =>
            aproc[p].type = "string"
       /\ aproc[p].pc = "free" => "string" \in atomic.written

\* The counter only grows, so a set that still finds the one it read was not
\* overtaken.
Counted ==
  \A p \in AtomicProcs :
    aproc[p].pc \in {"store", "exchange", "free", "update"} =>
      /\ aproc[p].old <= atomic.count
      /\ aproc[p].old = atomic.count => overlap[p] = {}

SoundInv == AtomicTypeOK /\ Stored /\ Counted

\* The sets that hold a string: one to be exchanged or one to be freed.
Holds(p) == aproc[p].pc \in {"exchange", "free"}

\* What may be owned: a string in use, or what fresh memory held.
Ownable(s) == s \in strings \/ (s = GARBAGE /\ atomic.fresh # NIL)

\* A string has one owner, the value or a set.
Owned ==
  /\ atomic.string # NIL => Ownable(atomic.string)
  /\ \A p \in AtomicProcs :
       Holds(p) => Ownable(aproc[p].str) /\ aproc[p].str # atomic.string
  /\ \A p, q \in AtomicProcs :
       Holds(p) /\ Holds(q) /\ p # q => aproc[p].str # aproc[q].str

\* Nothing is freed that is not in use; without an empty string every string
\* has an owner.
Accounted ==
  /\ afault \subseteq {"leak"}
  /\ afault = {} => \A s \in strings :
                      \/ s = atomic.string
                      \/ \E p \in AtomicProcs : Holds(p) /\ aproc[p].str = s

\* A destroyed value has no string, and nobody is at work on it.
Destroyed ==
  ~atomic.live => /\ atomic.string = NIL
                  /\ \A p \in AtomicProcs : aproc[p].pc = "idle"

OwnedInv == SoundInv /\ Owned /\ Accounted /\ Destroyed

\* What fresh memory held has been freed; it was not cleared.
Spoilt == SoundInv /\ Destroyed /\ "foreign" \in afault /\ atomic.fresh # NIL

StringInv == OwnedInv \/ Spoilt

-----------------------------------------------------------------------------
(* Types and the counter.                                                  *)

\* The invariant holds when the value is created.
LEMMA SoundInit == AtomicInit => SoundInv
  <1> SUFFICES ASSUME AtomicInit PROVE SoundInv
    OBVIOUS
  <1>1. PICK s \in AtomicFresh :
          atomic = [live |-> TRUE, count |-> 0, type |-> "nil", string |-> s,
                    written |-> {"nil"}, fresh |-> s]
    BY DEF AtomicInit
  <1>2. s \in Strings
    BY AtomicAssumption DEF Strings, NIL, GARBAGE
  <1>3. AtomicIdle \in [pc : Steps, type : SetTypes, old : Nat, str : Strings]
    BY AtomicAssumption
    DEF AtomicIdle, Steps, SetTypes, AllAtomicTypes, Strings, NIL
  <1>4. AtomicTypeOK
    <2>1. atomic \in [live : BOOLEAN, count : Nat, type : SetTypes,
                      string : Strings, written : SUBSET SetTypes,
                      fresh : Strings]
      BY <1>1, <1>2 DEF SetTypes, AllAtomicTypes
    <2> QED
      BY <1>3, <2>1 DEF AtomicTypeOK, AtomicInit
  <1>5. Stored /\ Counted
    BY <1>1 DEF Stored, Counted, AtomicInit, AtomicIdle
  <1> QED
    BY <1>4, <1>5 DEF SoundInv

\* The records of the value and of the processes.
LEMMA AtomicFields ==
  ASSUME AtomicTypeOK
  PROVE  /\ atomic.live \in BOOLEAN /\ atomic.count \in Nat
         /\ atomic.type \in SetTypes /\ atomic.string \in Strings
         /\ atomic.written \subseteq SetTypes
         /\ \A p \in AtomicProcs :
              /\ aproc[p] \in [pc : Steps, type : SetTypes, old : Nat,
                               str : Strings]
              /\ aproc[p].pc \in Steps /\ aproc[p].type \in SetTypes
              /\ aproc[p].old \in Nat /\ aproc[p].str \in Strings
  BY DEF AtomicTypeOK

\* The value keeps its type and its counter, and no field is taken back.
KeepsFields ==
  /\ atomic' \in [live : BOOLEAN, count : Nat, type : SetTypes,
                  string : Strings, written : SUBSET SetTypes,
                  fresh : Strings]
  /\ atomic'.count = atomic.count /\ atomic'.type = atomic.type
  /\ atomic.written \subseteq atomic'.written

\* A step that leaves the value alone does.
LEMMA SameAtomic ==
  ASSUME AtomicTypeOK, UNCHANGED atomic
  PROVE  KeepsFields
  BY DEF AtomicTypeOK, KeepsFields

\* What a process goes on to do fits the fields w and the counter c; o are the
\* sets that overtook it.
Fits(r, o, w, c) ==
  /\ r.pc \in {"update", "get", "copy", "add"} => r.type \in w
  /\ r.pc \in {"exchange", "free"} => r.type = "string"
  /\ r.pc = "free" => "string" \in w
  /\ r.pc \in {"store", "exchange", "free", "update"} =>
       r.old <= c /\ (r.old = c => o = {})

\* A step of one process that keeps the fields keeps the invariant, if what the
\* process goes on to do fits.
LEMMA OneProcess ==
  ASSUME SoundInv, KeepsFields, NEW p \in AtomicProcs,
         NEW r \in [pc : Steps, type : SetTypes, old : Nat, str : Strings],
         DoNext(p, r),
         Fits(r, overlap'[p], atomic'.written, atomic.count),
         strings' \subseteq 1..MaxStrings, aops' \in Nat,
         overlap' = [overlap EXCEPT ![p] = {}] \/ UNCHANGED overlap
  PROVE  SoundInv'
  <1>2. /\ aproc'[p] = r
        /\ \A q \in AtomicProcs : q # p => aproc'[q] = aproc[q]
        /\ aproc' \in [AtomicProcs -> [pc : Steps, type : SetTypes, old : Nat,
                                       str : Strings]]
    BY DEF SoundInv, AtomicTypeOK, DoNext
  <1>3. /\ overlap' \in [AtomicProcs -> SUBSET AtomicProcs]
        /\ \A q \in AtomicProcs : q # p => overlap'[q] = overlap[q]
    BY DEF SoundInv, AtomicTypeOK
  <1>4. AtomicTypeOK'
    BY <1>2, <1>3 DEF AtomicTypeOK, KeepsFields
  <1>5. Stored'
    BY <1>2 DEF SoundInv, Stored, KeepsFields, Fits
  <1>6. Counted'
    BY <1>2, <1>3 DEF SoundInv, Counted, KeepsFields, Fits
  <1> QED
    BY <1>4, <1>5, <1>6 DEF SoundInv

\* An idle process is well typed.
LEMMA IdleType ==
  /\ AtomicIdle \in [pc : Steps, type : SetTypes, old : Nat, str : Strings]
  /\ AtomicIdle.pc = "idle"
  BY AtomicAssumption
  DEF AtomicIdle, Steps, SetTypes, AllAtomicTypes, Strings, NIL

\* An idle process fits whatever the others did.
LEMMA IdleFits == \A o, w, c : Fits(AtomicIdle, o, w, c)
  BY IdleType DEF Fits

\* Every step keeps the types, the stored fields and the counter.
LEMMA SoundStep == SoundInv /\ [AtomicNext]_atomicVars => SoundInv'
  <1> SUFFICES ASSUME SoundInv, [AtomicNext]_atomicVars PROVE SoundInv'
    OBVIOUS
  <1> DEFINE R == [pc : Steps, type : SetTypes, old : Nat, str : Strings]
  <1>1. /\ AtomicTypeOK
        /\ atomic.count \in Nat /\ atomic.type \in SetTypes
        /\ atomic.type \in atomic.written /\ atomic.string \in Strings
        /\ \A p \in AtomicProcs : aproc[p] \in R
        /\ \A p \in AtomicProcs : aproc[p].old \in Nat
    BY AtomicFields DEF SoundInv, Stored
  <1>2. ASSUME NEW p \in AtomicProcs, SetBegins(p)
        PROVE  SoundInv'
    <2>1. /\ UNCHANGED <<atomic, strings>> /\ aops' \in Nat
          /\ overlap' = [overlap EXCEPT ![p] = {}] /\ overlap'[p] = {}
          /\ aproc[p].pc = "idle"
      BY <1>1, <1>2 DEF SetBegins, AtomicBegin, Doing, AtomicTypeOK
    <2>2. CASE UNCHANGED aproc
      <3>1. DoNext(p, aproc[p])
        BY <2>2, <1>1 DEF DoNext, AtomicTypeOK
      <3>2. Fits(aproc[p], overlap'[p], atomic'.written, atomic.count)
        BY <2>1 DEF Fits
      <3> QED
        BY <2>1, <3>1, <3>2, <1>1, SameAtomic, OneProcess DEF AtomicTypeOK
    <2>3. ASSUME NEW t \in AtomicTypes, t # "table",
                 DoNext(p, [AtomicIdle EXCEPT !.pc = "store", !.type = t,
                                              !.old = atomic.count])
          PROVE  SoundInv'
      <3> DEFINE r == [AtomicIdle EXCEPT !.pc = "store", !.type = t,
                                         !.old = atomic.count]
      <3>1. t \in SetTypes
        BY <2>3, AtomicAssumption DEF SetTypes
      <3>2. r \in R /\ r.pc = "store" /\ r.old = atomic.count
        BY <1>1, <3>1, IdleType DEF Steps, AtomicIdle
      <3> HIDE DEF r
      <3>3. Fits(r, overlap'[p], atomic'.written, atomic.count)
        BY <1>1, <2>1, <3>2 DEF Fits
      <3>4. DoNext(p, r)
        BY <2>3 DEF r
      <3> QED
        BY <2>1, <3>2, <3>3, <3>4, <1>1, SameAtomic, OneProcess
        DEF AtomicTypeOK
    <2> QED
      BY <1>2, <2>2, <2>3 DEF SetBegins
  <1>3. ASSUME NEW p \in AtomicProcs, SetStores(p)
        PROVE  SoundInv'
    <2> DEFINE r == [aproc[p] EXCEPT !.pc = "update"]
    <2>1. /\ r \in R /\ r.pc = "update" /\ r.type = aproc[p].type
          /\ r.old = aproc[p].old /\ aproc[p].type \in SetTypes
      BY <1>1 DEF Steps
    <2>2. /\ aproc[p].pc = "store" /\ DoNext(p, r)
          /\ UNCHANGED <<strings, aops, overlap>>
          /\ atomic' = [atomic EXCEPT !.written = @ \cup {aproc[p].type},
                                      !.string = atomic.string]
      BY <1>3, <1>1 DEF SetStores, Doing, AtomicTypeOK
    <2>4. KeepsFields /\ aproc[p].type \in atomic'.written
      BY <1>1, <2>1, <2>2 DEF KeepsFields, AtomicTypeOK
    <2>3. /\ aproc[p].old <= atomic.count
          /\ aproc[p].old = atomic.count => overlap[p] = {}
      BY <2>2 DEF SoundInv, Counted
    <2> HIDE DEF r
    <2>5. Fits(r, overlap'[p], atomic'.written, atomic.count)
      BY <2>1, <2>2, <2>3, <2>4 DEF Fits
    <2> QED
      BY <1>1, <2>1, <2>2, <2>4, <2>5, OneProcess DEF AtomicTypeOK
  <1>4. ASSUME NEW p \in AtomicProcs, SetAllocates(p)
        PROVE  SoundInv'
    <2>1. PICK s \in (1..MaxStrings) \ strings :
            /\ strings' = strings \cup {s}
            /\ \/ DoNext(p, AtomicIdle)
               \/ /\ aproc[p].type = "string"
                  /\ DoNext(p, [aproc[p] EXCEPT !.pc = "exchange", !.str = s])
      BY <1>4 DEF SetAllocates
    <2>2. /\ aproc[p].pc = "store" /\ strings' \subseteq 1..MaxStrings
          /\ UNCHANGED <<atomic, aops, overlap>>
      BY <1>4, <2>1, <1>1 DEF SetAllocates, Doing, AtomicTypeOK
    <2>3. CASE DoNext(p, AtomicIdle)
      BY <1>1, <2>2, <2>3, IdleType, IdleFits, SameAtomic, OneProcess
      DEF AtomicTypeOK
    <2>4. CASE /\ aproc[p].type = "string"
               /\ DoNext(p, [aproc[p] EXCEPT !.pc = "exchange", !.str = s])
      <3> DEFINE r == [aproc[p] EXCEPT !.pc = "exchange", !.str = s]
      <3>0. s \in Strings
        BY AtomicAssumption DEF Strings
      <3>1. /\ r \in R /\ r.pc = "exchange" /\ r.type = aproc[p].type
            /\ r.old = aproc[p].old
        BY <1>1, <3>0 DEF Steps
      <3>2. /\ aproc[p].old <= atomic.count
            /\ aproc[p].old = atomic.count => overlap[p] = {}
        BY <2>2 DEF SoundInv, Counted
      <3> HIDE DEF r
      <3>3. Fits(r, overlap'[p], atomic'.written, atomic.count)
        BY <2>2, <2>4, <3>1, <3>2 DEF Fits
      <3>4. DoNext(p, r)
        BY <2>4 DEF r
      <3> QED
        BY <1>1, <2>2, <3>1, <3>3, <3>4, SameAtomic, OneProcess
        DEF AtomicTypeOK
    <2> QED
      BY <2>1, <2>3, <2>4
  <1>5. ASSUME NEW p \in AtomicProcs, SetExchanges(p)
        PROVE  SoundInv'
    <2> DEFINE r == [aproc[p] EXCEPT
                       !.pc = IF atomic.string = NIL THEN "update" ELSE "free",
                       !.str = atomic.string]
    <2>1. /\ r \in R /\ r.pc \in {"update", "free"} /\ r.type = aproc[p].type
          /\ r.old = aproc[p].old /\ aproc[p].str \in Strings
      BY <1>1 DEF Steps
    <2>2. /\ aproc[p].pc = "exchange" /\ DoNext(p, r)
          /\ UNCHANGED <<strings, aops, overlap>>
          /\ atomic' = [atomic EXCEPT !.written = @ \cup {"string"},
                                      !.string = aproc[p].str]
      BY <1>5, <1>1 DEF SetExchanges, Doing, AtomicTypeOK
    <2>3. /\ aproc[p].old <= atomic.count
          /\ aproc[p].old = atomic.count => overlap[p] = {}
          /\ aproc[p].type = "string" /\ {"string"} \subseteq SetTypes
      BY <2>2 DEF SoundInv, Counted, Stored, SetTypes, AllAtomicTypes
    <2>4. KeepsFields /\ "string" \in atomic'.written
      BY <1>1, <2>1, <2>2, <2>3 DEF KeepsFields, AtomicTypeOK
    <2> HIDE DEF r
    <2>5. Fits(r, overlap'[p], atomic'.written, atomic.count)
      BY <2>1, <2>2, <2>3, <2>4 DEF Fits
    <2> QED
      BY <1>1, <2>1, <2>2, <2>4, <2>5, OneProcess DEF AtomicTypeOK
  <1>6. ASSUME NEW p \in AtomicProcs, SetFrees(p)
        PROVE  SoundInv'
    <2> DEFINE r == [aproc[p] EXCEPT !.pc = "update", !.str = NIL]
    <2>1. /\ r \in R /\ r.pc = "update" /\ r.type = aproc[p].type
          /\ r.old = aproc[p].old
      BY <1>1, IdleType DEF Steps, AtomicIdle
    <2>2. /\ aproc[p].pc = "free" /\ DoNext(p, r)
          /\ strings' \subseteq 1..MaxStrings
          /\ UNCHANGED <<atomic, aops, overlap>>
      BY <1>6, <1>1 DEF SetFrees, Freed, Doing, AtomicTypeOK
    <2>3. /\ aproc[p].old <= atomic.count
          /\ aproc[p].old = atomic.count => overlap[p] = {}
          /\ aproc[p].type = "string" /\ "string" \in atomic.written
      BY <2>2 DEF SoundInv, Counted, Stored
    <2> HIDE DEF r
    <2>4. Fits(r, overlap'[p], atomic'.written, atomic.count)
      BY <2>1, <2>2, <2>3 DEF Fits
    <2> QED
      BY <1>1, <2>1, <2>2, <2>4, SameAtomic, OneProcess DEF AtomicTypeOK
  <1>7. ASSUME NEW p \in AtomicProcs, SetUpdates(p)
        PROVE  SoundInv'
    <2>1. /\ aproc[p].pc = "update" /\ DoNext(p, AtomicIdle)
          /\ UNCHANGED <<strings, aops>>
      BY <1>7 DEF SetUpdates, Doing
    <2>2. CASE UNCHANGED <<atomic, overlap>>
      BY <1>1, <2>1, <2>2, IdleType, IdleFits, SameAtomic, OneProcess
      DEF AtomicTypeOK
    <2>3. CASE /\ atomic.count = aproc[p].old
               /\ atomic' = UpdateType(atomic, p)
               /\ overlap' = [q \in AtomicProcs |->
                                IF q = p THEN {} ELSE overlap[q] \cup {p}]
      <3>1. /\ atomic'.count = atomic.count + 1
            /\ atomic'.type = aproc[p].type
            /\ atomic'.written = atomic.written
            /\ atomic' \in [live : BOOLEAN, count : Nat, type : SetTypes,
                            string : Strings, written : SUBSET SetTypes,
                            fresh : Strings]
        <4>1. /\ aproc[p].type \in SetTypes /\ aproc[p].old + 1 \in Nat
              /\ atomic' = [atomic EXCEPT !.type = aproc[p].type,
                                          !.count = aproc[p].old + 1]
          BY <1>1, <2>3 DEF UpdateType
        <4> QED
          BY <1>1, <2>3, <4>1 DEF AtomicTypeOK
      <3>2. /\ aproc'[p] = AtomicIdle
            /\ \A q \in AtomicProcs : q # p => aproc'[q] = aproc[q]
            /\ aproc' \in [AtomicProcs -> R]
        BY <1>1, <2>1, IdleType DEF AtomicTypeOK, DoNext
      <3>3. AtomicTypeOK'
        BY <1>1, <2>1, <2>3, <3>1, <3>2 DEF AtomicTypeOK
      <3>4. Stored'
        BY <2>1, <3>1, <3>2, IdleType DEF SoundInv, Stored
      <3>5. Counted'
        <4> SUFFICES ASSUME NEW q \in AtomicProcs,
                            aproc'[q].pc \in {"store", "exchange", "free",
                                              "update"}
                     PROVE  aproc'[q].old < atomic'.count
          BY <1>1, <3>1, <3>2, IdleType DEF Counted
        <4> QED
          BY <1>1, <3>1, <3>2, IdleType DEF SoundInv, Counted
      <3> QED
        BY <3>3, <3>4, <3>5 DEF SoundInv
    <2> QED
      BY <1>7, <2>2, <2>3 DEF SetUpdates
  <1>8. ASSUME NEW p \in AtomicProcs, NEW pc \in {"get", "add"},
               NEW t \in atomic.written,
               DoNext(p, [AtomicIdle EXCEPT !.pc = pc, !.type = t]),
               UNCHANGED <<atomic, strings, overlap>>, aops' \in Nat
        PROVE  SoundInv'
    <2> DEFINE r == [AtomicIdle EXCEPT !.pc = pc, !.type = t]
    <2>1. r \in R /\ r.pc = pc /\ r.type = t
      BY <1>1, IdleType DEF Steps, AtomicIdle, AtomicTypeOK
    <2> HIDE DEF r
    <2>2. Fits(r, overlap'[p], atomic'.written, atomic.count)
      BY <1>8, <2>1 DEF Fits
    <2>3. DoNext(p, r)
      BY <1>8 DEF r
    <2> QED
      BY <1>1, <1>8, <2>1, <2>2, <2>3, SameAtomic, OneProcess DEF AtomicTypeOK
  <1>9. ASSUME NEW p \in AtomicProcs, DoNext(p, AtomicIdle),
               UNCHANGED <<atomic, strings, overlap>>, aops' \in Nat
        PROVE  SoundInv'
    BY <1>1, <1>9, IdleType, IdleFits, SameAtomic, OneProcess
    DEF AtomicTypeOK
  <1>10. ASSUME NEW p \in AtomicProcs, GetBegins(p) \/ IncrementBegins(p)
         PROVE  SoundInv'
    <2>1. /\ aops' \in Nat /\ UNCHANGED <<atomic, strings, overlap>>
      BY <1>1, <1>10
      DEF GetBegins, IncrementBegins, AtomicBegin, AtomicTypeOK
    <2> QED
      BY <1>1, <1>8, <1>9, <1>10, <2>1 DEF GetBegins, IncrementBegins
  <1>11. ASSUME NEW p \in AtomicProcs, GetReads(p)
         PROVE  SoundInv'
    <2> DEFINE r == [aproc[p] EXCEPT !.pc = "copy", !.str = atomic.string]
    <2>1. /\ r \in R /\ r.pc = "copy" /\ r.type = aproc[p].type
      BY <1>1 DEF Steps
    <2>2. /\ aproc[p].pc = "get"
          /\ DoNext(p, r) \/ DoNext(p, AtomicIdle)
          /\ UNCHANGED <<atomic, strings, aops, overlap>>
      BY <1>11 DEF GetReads, Doing
    <2>3. aproc[p].type \in atomic.written
      BY <1>11 DEF GetReads, Doing, SoundInv, Stored
    <2> HIDE DEF r
    <2>4. CASE DoNext(p, r)
      <3>1. Fits(r, overlap'[p], atomic'.written, atomic.count)
        BY <2>1, <2>2, <2>3 DEF Fits
      <3> QED
        BY <1>1, <2>1, <2>2, <2>4, <3>1, SameAtomic, OneProcess
        DEF AtomicTypeOK
    <2> QED
      BY <1>1, <1>9, <2>2, <2>4 DEF AtomicTypeOK
  <1>12. ASSUME NEW p \in AtomicProcs, GetCopies(p) \/ IncrementAdds(p)
         PROVE  SoundInv'
    BY <1>1, <1>9, <1>12 DEF GetCopies, IncrementAdds, AtomicTypeOK
  <1>13. CASE AtomicDestroy
    <2>1. /\ strings' \subseteq 1..MaxStrings
          /\ UNCHANGED <<aproc, aops, overlap>>
          /\ atomic' = [atomic EXCEPT !.live = FALSE, !.string = NIL]
      BY <1>13, <1>1 DEF AtomicDestroy, Freed, AtomicTypeOK
    <2>2. /\ atomic'.count = atomic.count /\ atomic'.type = atomic.type
          /\ atomic'.written = atomic.written
          /\ atomic' \in [live : BOOLEAN, count : Nat, type : SetTypes,
                          string : Strings, written : SUBSET SetTypes,
                          fresh : Strings]
      BY <1>1, <2>1, IdleType DEF AtomicTypeOK, AtomicIdle
    <2> QED
      BY <2>1, <2>2 DEF SoundInv, AtomicTypeOK, Stored, Counted
  <1>14. CASE UNCHANGED atomicVars
    BY <1>14 DEF atomicVars, SoundInv, AtomicTypeOK, Stored, Counted
  <1> QED
    BY <1>2, <1>3, <1>4, <1>5, <1>6, <1>7, <1>10, <1>11, <1>12, <1>13, <1>14
    DEF AtomicNext

\* A get or an increment reads a field that a set has stored, however stale the
\* type is that it goes by, and of the sets of Lua_lazy_atomics_value_set that
\* overlap at most one is told that it succeeded.
THEOREM LazyAtomicSound == AtomicSpec => []AtomicSound
  <1>1. SoundInv => AtomicSound
    BY DEF SoundInv, Stored, Counted, AtomicSound, AtomicReadsStored,
           AtomicSetsExclude, Doing
  <1> QED
    BY <1>1, SoundInit, SoundStep, PTL DEF AtomicSpec

-----------------------------------------------------------------------------
(* Strings.                                                                *)

\* What fresh memory held is never a string in use.
LEMMA Garbage ==
  ASSUME SoundInv
  PROVE  GARBAGE \notin strings /\ NIL \notin strings /\ GARBAGE # NIL
  BY AtomicAssumption DEF SoundInv, AtomicTypeOK, GARBAGE, NIL

\* The value owns what fresh memory held, if it was not cleared.
LEMMA StringInit == AtomicInit => OwnedInv
  <1> SUFFICES ASSUME AtomicInit PROVE OwnedInv
    OBVIOUS
  <1>1. SoundInv
    BY SoundInit
  <1>2. PICK s \in AtomicFresh :
          atomic.string = s /\ atomic.fresh = s /\ atomic.live = TRUE
    BY DEF AtomicInit
  <1>3. s = NIL \/ s = GARBAGE
    BY AtomicAssumption
  <1>4. \A p \in AtomicProcs : aproc[p].pc = "idle"
    BY DEF AtomicInit, AtomicIdle
  <1>5. Owned
    BY <1>1, <1>2, <1>3, <1>4, Garbage DEF Owned, Ownable, Holds
  <1> QED
    BY <1>1, <1>2, <1>4, <1>5
    DEF OwnedInv, Accounted, Destroyed, AtomicInit

\* No step changes what fresh memory held.
LEMMA FreshStays ==
  ASSUME SoundInv, AtomicNext
  PROVE  atomic'.fresh = atomic.fresh
  <1>1. atomic \in [live : BOOLEAN, count : Nat, type : SetTypes,
                    string : Strings, written : SUBSET SetTypes,
                    fresh : Strings]
    BY DEF SoundInv, AtomicTypeOK
  <1>2. ASSUME NEW p \in AtomicProcs, SetStores(p) \/ SetExchanges(p)
        PROVE  atomic'.fresh = atomic.fresh
    BY <1>1, <1>2 DEF SetStores, SetExchanges
  <1>3. ASSUME NEW p \in AtomicProcs, SetUpdates(p)
        PROVE  atomic'.fresh = atomic.fresh
    BY <1>1, <1>3 DEF SetUpdates, UpdateType
  <1>4. CASE AtomicDestroy
    BY <1>1, <1>4 DEF AtomicDestroy
  <1> QED
    BY <1>2, <1>3, <1>4
    DEF AtomicNext, SetBegins, SetAllocates, SetFrees, GetBegins, GetReads,
        GetCopies, IncrementBegins, IncrementAdds

\* A step of one process that neither has nor takes a string.
LEMMA NoString ==
  ASSUME OwnedInv, SoundInv', NEW p \in AtomicProcs, NEW r, DoNext(p, r),
         aproc[p].pc \notin {"exchange", "free"},
         r.pc \notin {"exchange", "free"}, atomic.live,
         atomic'.string = atomic.string, atomic'.live = atomic.live,
         atomic'.fresh = atomic.fresh, UNCHANGED <<strings, afault>>
  PROVE  OwnedInv'
  <1>1. /\ aproc'[p] = r
        /\ \A q \in AtomicProcs : q # p => aproc'[q] = aproc[q]
    BY DEF OwnedInv, SoundInv, AtomicTypeOK, DoNext
  <1>2. \A q \in AtomicProcs :
          /\ aproc'[q].pc \in {"exchange", "free"} <=>
               aproc[q].pc \in {"exchange", "free"}
          /\ aproc[q].pc \in {"exchange", "free"} => aproc'[q] = aproc[q]
    BY <1>1
  <1>3. Owned'
    BY <1>2 DEF OwnedInv, Owned, Ownable, Holds
  <1>4. Accounted'
    <2> SUFFICES ASSUME afault' = {}, NEW s \in strings', s # atomic'.string
                 PROVE  \E q \in AtomicProcs : Holds(q)' /\ aproc'[q].str = s
      BY DEF Accounted, OwnedInv
    <2>1. PICK q \in AtomicProcs : Holds(q) /\ aproc[q].str = s
      BY DEF OwnedInv, Accounted
    <2> QED
      BY <1>2, <2>1 DEF Holds
  <1>5. Destroyed'
    BY DEF Destroyed
  <1> QED
    BY <1>3, <1>4, <1>5 DEF OwnedInv

\* Allocating a string for a set; of an empty string nothing keeps it.
LEMMA AllocatesString ==
  ASSUME OwnedInv, SoundInv', NEW p \in AtomicProcs, SetAllocates(p)
  PROVE  OwnedInv'
  <1>1. /\ aproc[p].pc = "store" /\ UNCHANGED <<atomic, aops, overlap>>
        /\ atomic.live
    BY DEF SetAllocates, Doing, OwnedInv, Destroyed
  <1>2. PICK s \in (1..MaxStrings) \ strings :
          /\ strings' = strings \cup {s}
          /\ \/ DoNext(p, AtomicIdle) /\ afault' = afault \cup {"leak"}
             \/ /\ DoNext(p, [aproc[p] EXCEPT !.pc = "exchange", !.str = s])
                /\ UNCHANGED afault
    BY DEF SetAllocates
  <1>3. CASE DoNext(p, AtomicIdle) /\ afault' = afault \cup {"leak"}
    <2>1. /\ aproc'[p] = AtomicIdle
          /\ \A q \in AtomicProcs : q # p => aproc'[q] = aproc[q]
      BY <1>3 DEF OwnedInv, SoundInv, AtomicTypeOK, DoNext
    <2>2. \A q \in AtomicProcs :
            aproc'[q].pc \in {"exchange", "free"} =>
              /\ aproc[q].pc \in {"exchange", "free"}
              /\ aproc'[q] = aproc[q]
      BY <2>1, IdleType
    <2>3. Owned'
      BY <1>1, <1>2, <2>2 DEF OwnedInv, Owned, Ownable, Holds
    <2>4. Accounted' /\ Destroyed'
      BY <1>1, <1>3 DEF OwnedInv, Accounted, Destroyed
    <2> QED
      BY <2>3, <2>4 DEF OwnedInv
  <1>4. CASE /\ DoNext(p, [aproc[p] EXCEPT !.pc = "exchange", !.str = s])
             /\ UNCHANGED afault
    <2>1. /\ aproc'[p].pc = "exchange" /\ aproc'[p].str = s
          /\ \A q \in AtomicProcs : q # p => aproc'[q] = aproc[q]
      BY <1>4 DEF OwnedInv, SoundInv, AtomicTypeOK, DoNext
    <2>2. s # NIL
      BY DEF NIL
    <2>3. Owned'
      <3>1. s # GARBAGE
        BY AtomicAssumption DEF GARBAGE
      <3>2. /\ atomic.string # s
            /\ \A q \in AtomicProcs : Holds(q) => aproc[q].str # s
        BY <1>2, <2>2, <3>1 DEF OwnedInv, Owned, Ownable
      <3>3. Ownable(s)' /\ \A t : Ownable(t) => Ownable(t)'
        BY <1>1, <1>2 DEF Ownable
      <3> QED
        BY <1>1, <2>1, <2>2, <3>2, <3>3 DEF OwnedInv, Owned, Holds
    <2>4. Accounted'
      <3> SUFFICES ASSUME afault' = {}, NEW t \in strings', t # atomic'.string
                   PROVE  \E q \in AtomicProcs : Holds(q)' /\ aproc'[q].str = t
        BY <1>4 DEF Accounted, OwnedInv
      <3>1. CASE t = s
        BY <2>1, <3>1 DEF Holds
      <3>2. CASE t # s
        <4>1. PICK q \in AtomicProcs : Holds(q) /\ aproc[q].str = t
          BY <1>1, <1>2, <1>4, <3>2 DEF OwnedInv, Accounted
        <4> QED
          BY <1>1, <2>1, <4>1 DEF Holds
      <3> QED
        BY <3>1, <3>2
    <2> QED
      BY <1>1, <2>3, <2>4 DEF OwnedInv, Destroyed
  <1> QED
    BY <1>2, <1>3, <1>4

\* Exchanging a string for the one of the value.
LEMMA ExchangesString ==
  ASSUME OwnedInv, SoundInv', NEW p \in AtomicProcs, SetExchanges(p)
  PROVE  OwnedInv'
  <1>1. /\ aproc[p].pc = "exchange" /\ UNCHANGED <<strings, afault>>
        /\ atomic.live /\ Holds(p)
    BY DEF SetExchanges, Doing, OwnedInv, Destroyed, Holds
  <1>2. /\ atomic'.string = aproc[p].str /\ atomic'.live = atomic.live
        /\ atomic'.fresh = atomic.fresh
    BY DEF SetExchanges, OwnedInv, SoundInv, AtomicTypeOK
  <1>3. /\ aproc'[p].pc = IF atomic.string = NIL THEN "update" ELSE "free"
        /\ aproc'[p].str = atomic.string
        /\ \A q \in AtomicProcs : q # p => aproc'[q] = aproc[q]
    BY DEF SetExchanges, OwnedInv, SoundInv, AtomicTypeOK, DoNext
  <1>4. /\ Ownable(aproc[p].str)
        /\ atomic.string # NIL => Ownable(atomic.string)
        /\ aproc[p].str # atomic.string
        /\ \A q \in AtomicProcs : q # p /\ Holds(q) =>
             /\ Ownable(aproc[q].str)
             /\ aproc[q].str # aproc[p].str /\ aproc[q].str # atomic.string
    BY <1>1 DEF OwnedInv, Owned
  <1>0. \A t : Ownable(t) => Ownable(t)'
    BY <1>1, <1>2 DEF Ownable
  <1>5. Owned'
    <2>1. (atomic.string # NIL => Ownable(atomic.string))'
      BY <1>0, <1>1, <1>2, <1>4
    <2>2. ASSUME NEW q \in AtomicProcs, Holds(q)'
          PROVE  Ownable(aproc[q].str)' /\ aproc'[q].str # atomic'.string
      BY <1>0, <1>1, <1>2, <1>3, <1>4, <2>2 DEF Holds
    <2>3. ASSUME NEW q \in AtomicProcs, NEW u \in AtomicProcs,
                 Holds(q)', Holds(u)', q # u
          PROVE  aproc'[q].str # aproc'[u].str
      <3>1. CASE q = p
        BY <1>3, <1>4, <2>3, <3>1 DEF Holds
      <3>2. CASE u = p
        BY <1>3, <1>4, <2>3, <3>2 DEF Holds
      <3>3. CASE q # p /\ u # p
        BY <1>3, <2>3, <3>3 DEF Holds, OwnedInv, Owned
      <3> QED
        BY <3>1, <3>2, <3>3
    <2> QED
      BY <2>1, <2>2, <2>3 DEF Owned
  <1>6. Accounted'
    <2> SUFFICES ASSUME afault' = {}, NEW t \in strings', t # atomic'.string
                 PROVE  \E q \in AtomicProcs : Holds(q)' /\ aproc'[q].str = t
      BY <1>1 DEF Accounted, OwnedInv
    <2>1. CASE t = atomic.string
      <3>1. t # NIL
        BY <1>1, AtomicAssumption DEF OwnedInv, SoundInv, AtomicTypeOK, NIL
      <3> QED
        BY <1>3, <2>1, <3>1 DEF Holds
    <2>2. CASE t # atomic.string
      <3>1. PICK q \in AtomicProcs : Holds(q) /\ aproc[q].str = t
        BY <1>1, <2>2 DEF OwnedInv, Accounted
      <3> QED
        BY <1>2, <1>3, <3>1 DEF Holds
    <2> QED
      BY <2>1, <2>2
  <1> QED
    BY <1>1, <1>2, <1>5, <1>6 DEF OwnedInv, Destroyed

\* Freeing the string that was exchanged: it is in use, and nobody else's,
\* unless it is what fresh memory held.
LEMMA FreesString ==
  ASSUME OwnedInv, SoundInv', NEW p \in AtomicProcs, SetFrees(p)
  PROVE  StringInv'
  <1>1. /\ aproc[p].pc = "free" /\ UNCHANGED <<atomic, aops, overlap>>
        /\ atomic.live /\ Holds(p)
    BY DEF SetFrees, Doing, OwnedInv, Destroyed, Holds
  <1>2. /\ Ownable(aproc[p].str)
        /\ aproc[p].str # atomic.string
        /\ \A q \in AtomicProcs : q # p /\ Holds(q) =>
             Ownable(aproc[q].str) /\ aproc[q].str # aproc[p].str
    BY <1>1 DEF OwnedInv, Owned
  <1>3. CASE aproc[p].str = GARBAGE
    <2>1. atomic.fresh # NIL /\ "foreign" \in afault'
      BY <1>2, <1>3, Garbage DEF OwnedInv, Ownable, SetFrees, Freed
    <2> QED
      BY <1>1, <2>1 DEF StringInv, Spoilt, Destroyed
  <1>4. CASE aproc[p].str # GARBAGE
    <2>1. strings' = strings \ {aproc[p].str} /\ UNCHANGED afault
      BY <1>2, <1>4 DEF SetFrees, Freed, Ownable
    <2>2. /\ aproc'[p].pc = "update"
          /\ \A q \in AtomicProcs : q # p => aproc'[q] = aproc[q]
      BY DEF SetFrees, OwnedInv, SoundInv, AtomicTypeOK, DoNext
    <2>3. Owned'
      <3>1. \A t : Ownable(t) /\ t # aproc[p].str => Ownable(t)'
        BY <1>1, <2>1 DEF Ownable
      <3> QED
        BY <1>1, <1>2, <2>2, <3>1 DEF OwnedInv, Owned, Holds
    <2>4. Accounted'
      <3> SUFFICES ASSUME afault' = {}, NEW t \in strings', t # atomic'.string
                   PROVE  \E q \in AtomicProcs : Holds(q)' /\ aproc'[q].str = t
        BY <2>1 DEF Accounted, OwnedInv
      <3>1. PICK q \in AtomicProcs : Holds(q) /\ aproc[q].str = t
        BY <1>1, <2>1 DEF OwnedInv, Accounted
      <3> QED
        BY <2>1, <2>2, <3>1 DEF Holds
    <2> QED
      BY <1>1, <2>3, <2>4 DEF StringInv, OwnedInv, Destroyed
  <1> QED
    BY <1>3, <1>4

\* Destroying the value frees its string, and then no other is owned.
LEMMA DestroysString ==
  ASSUME OwnedInv, SoundInv', AtomicDestroy
  PROVE  StringInv'
  <1>1. /\ UNCHANGED aproc
        /\ \A p \in AtomicProcs : aproc[p].pc = "idle"
        /\ atomic'.live = FALSE /\ atomic'.string = NIL
        /\ atomic'.fresh = atomic.fresh
    BY DEF AtomicDestroy, Doing, OwnedInv, SoundInv, AtomicTypeOK
  <1>2. Owned' /\ Destroyed'
    BY <1>1 DEF Owned, Destroyed, Holds
  <1>3. CASE atomic.string = GARBAGE
    <2>1. atomic.fresh # NIL /\ "foreign" \in afault'
      BY <1>3, Garbage DEF OwnedInv, Owned, Ownable, AtomicDestroy, Freed
    <2> QED
      BY <1>1, <1>2, <2>1 DEF StringInv, Spoilt
  <1>4. CASE atomic.string # GARBAGE
    <2>1. strings' = strings \ {atomic.string} /\ UNCHANGED afault
      <3>1. CASE atomic.string = NIL
        BY <3>1, Garbage DEF AtomicDestroy, OwnedInv
      <3>2. CASE atomic.string # NIL
        BY <1>4, <3>2 DEF AtomicDestroy, Freed, OwnedInv, Owned, Ownable
      <3> QED
        BY <3>1, <3>2
    <2>2. Accounted'
      BY <1>1, <2>1 DEF OwnedInv, Accounted, Holds
    <2> QED
      BY <1>2, <2>2 DEF StringInv, OwnedInv
  <1> QED
    BY <1>3, <1>4

\* Once what fresh memory held was freed, a destroyed value still has nobody
\* at work on it.
LEMMA SpoiltStep == Spoilt /\ [AtomicNext]_atomicVars => Spoilt'
  <1> SUFFICES ASSUME Spoilt, [AtomicNext]_atomicVars PROVE Spoilt'
    OBVIOUS
  <1>1. CASE UNCHANGED atomicVars
    BY <1>1, SoundStep DEF Spoilt, Destroyed, atomicVars
  <1>2. CASE AtomicNext
    <2>1. SoundInv' /\ atomic'.fresh = atomic.fresh
      BY <1>2, SoundStep, FreshStays DEF Spoilt
    <2>2. "foreign" \in afault'
      BY <1>2
      DEF Spoilt, AtomicNext, SetBegins, SetStores, SetAllocates, SetExchanges,
          SetFrees, SetUpdates, GetBegins, GetReads, GetCopies,
          IncrementBegins, IncrementAdds, AtomicDestroy, Freed
    <2>3. Destroyed'
      <3>1. CASE AtomicDestroy
        BY <3>1
        DEF AtomicDestroy, Destroyed, Doing, Spoilt, SoundInv, AtomicTypeOK
      <3>2. ASSUME NEW p \in AtomicProcs,
                   atomic.live, atomic'.live = atomic.live
            PROVE  Destroyed'
        BY <3>2 DEF Destroyed
      <3>3. ASSUME NEW p \in AtomicProcs,
                   \/ SetBegins(p) \/ SetStores(p) \/ SetAllocates(p)
                   \/ SetExchanges(p) \/ SetFrees(p) \/ SetUpdates(p)
                   \/ GetBegins(p) \/ GetReads(p) \/ GetCopies(p)
                   \/ IncrementBegins(p) \/ IncrementAdds(p)
            PROVE  atomic.live
        <4>1. aproc[p].pc # "idle" => atomic.live
          BY DEF Spoilt, Destroyed
        <4> QED
          BY <3>3, <4>1
          DEF SetBegins, SetStores, SetAllocates, SetExchanges, SetFrees,
              SetUpdates, GetBegins, GetReads, GetCopies, IncrementBegins,
              IncrementAdds, AtomicBegin, Doing
      <3>4. ASSUME NEW p \in AtomicProcs,
                   SetStores(p) \/ SetExchanges(p) \/ SetUpdates(p)
            PROVE  atomic'.live = atomic.live
        BY <3>4
        DEF SetStores, SetExchanges, SetUpdates, UpdateType, Spoilt, SoundInv,
            AtomicTypeOK
      <3>5. ASSUME NEW p \in AtomicProcs,
                   \/ SetBegins(p) \/ SetAllocates(p) \/ SetFrees(p)
                   \/ GetBegins(p) \/ GetReads(p) \/ GetCopies(p)
                   \/ IncrementBegins(p) \/ IncrementAdds(p)
            PROVE  atomic'.live = atomic.live
        BY <3>5
        DEF SetBegins, SetAllocates, SetFrees, GetBegins, GetReads, GetCopies,
            IncrementBegins, IncrementAdds
      <3> QED
        BY <1>2, <3>1, <3>2, <3>3, <3>4, <3>5 DEF AtomicNext
    <2> QED
      BY <2>1, <2>2, <2>3 DEF Spoilt
  <1> QED
    BY <1>1, <1>2

\* Every step leaves each string with one owner, or frees what fresh memory
\* held.
LEMMA OwnedStep == OwnedInv /\ [AtomicNext]_atomicVars => StringInv'
  <1> SUFFICES ASSUME OwnedInv, [AtomicNext]_atomicVars PROVE StringInv'
    OBVIOUS
  <1>1. SoundInv'
    BY SoundStep DEF OwnedInv
  <1>2. ASSUME NEW p \in AtomicProcs, aproc[p].pc # "idle"
        PROVE  atomic.live
    BY <1>2 DEF OwnedInv, Destroyed
  <1>3. ASSUME NEW p \in AtomicProcs, SetBegins(p)
        PROVE  OwnedInv'
    <2>1. /\ aproc[p].pc = "idle" /\ atomic.live
          /\ UNCHANGED <<atomic, strings, afault>>
      BY <1>3 DEF SetBegins, AtomicBegin, Doing
    <2>2. PICK r : DoNext(p, r) /\ r.pc \in {"idle", "store"}
      <3>1. CASE UNCHANGED aproc
        BY <2>1, <3>1 DEF DoNext, OwnedInv, SoundInv, AtomicTypeOK
      <3>2. ASSUME NEW t \in AtomicTypes,
                   DoNext(p, [AtomicIdle EXCEPT !.pc = "store", !.type = t,
                                                !.old = atomic.count])
            PROVE  \E r : DoNext(p, r) /\ r.pc \in {"idle", "store"}
        <4> DEFINE r == [AtomicIdle EXCEPT !.pc = "store", !.type = t,
                                           !.old = atomic.count]
        <4>1. r.pc = "store"
          BY DEF AtomicIdle
        <4> HIDE DEF r
        <4>2. DoNext(p, r)
          BY <3>2 DEF r
        <4> QED
          BY <4>1, <4>2
      <3> QED
        BY <1>3, <3>1, <3>2 DEF SetBegins
    <2> QED
      BY <1>1, <2>1, <2>2, NoString
  <1>4. ASSUME NEW p \in AtomicProcs, SetStores(p)
        PROVE  OwnedInv'
    <2> DEFINE r == [aproc[p] EXCEPT !.pc = "update"]
    <2>1. /\ aproc[p].pc = "store" /\ DoNext(p, r) /\ r.pc = "update"
          /\ UNCHANGED <<strings, afault>>
          /\ atomic'.string = atomic.string /\ atomic'.live = atomic.live
          /\ atomic'.fresh = atomic.fresh
      BY <1>4 DEF SetStores, Doing, OwnedInv, SoundInv, AtomicTypeOK
    <2> HIDE DEF r
    <2> QED
      BY <1>1, <1>2, <2>1, NoString
  <1>5. ASSUME NEW p \in AtomicProcs, SetUpdates(p)
        PROVE  OwnedInv'
    <2>1. /\ aproc[p].pc = "update" /\ DoNext(p, AtomicIdle)
          /\ UNCHANGED <<strings, afault>>
      BY <1>5 DEF SetUpdates, Doing
    <2>2. atomic' = UpdateType(atomic, p) \/ UNCHANGED atomic
      BY <1>5 DEF SetUpdates
    <2>3. /\ atomic'.string = atomic.string /\ atomic'.live = atomic.live
          /\ atomic'.fresh = atomic.fresh
      BY <2>2 DEF UpdateType, OwnedInv, SoundInv, AtomicTypeOK
    <2> QED
      BY <1>1, <1>2, <2>1, <2>3, IdleType, NoString
  <1>6. ASSUME NEW p \in AtomicProcs, GetBegins(p) \/ IncrementBegins(p)
        PROVE  OwnedInv'
    <2>1. /\ aproc[p].pc = "idle" /\ atomic.live
          /\ UNCHANGED <<atomic, strings, afault>>
      BY <1>6 DEF GetBegins, IncrementBegins, AtomicBegin, Doing
    <2> DEFINE g == [AtomicIdle EXCEPT !.pc = "get", !.type = atomic.type]
               a == [AtomicIdle EXCEPT !.pc = "add", !.type = "integer"]
    <2>2. g.pc = "get" /\ a.pc = "add"
      BY DEF AtomicIdle
    <2>3. DoNext(p, g) \/ DoNext(p, a) \/ DoNext(p, AtomicIdle)
      BY <1>6 DEF GetBegins, IncrementBegins
    <2> HIDE DEF g, a
    <2> QED
      BY <1>1, <2>1, <2>2, <2>3, IdleType, NoString
  <1>7. ASSUME NEW p \in AtomicProcs,
               GetReads(p) \/ GetCopies(p) \/ IncrementAdds(p)
        PROVE  OwnedInv'
    <2> DEFINE c == [aproc[p] EXCEPT !.pc = "copy", !.str = atomic.string]
    <2>1. /\ aproc[p].pc \in {"get", "copy", "add"}
          /\ UNCHANGED <<atomic, strings, afault>>
      BY <1>7 DEF GetReads, GetCopies, IncrementAdds, Doing
    <2>2. c.pc = "copy"
      BY DEF OwnedInv, SoundInv, AtomicTypeOK
    <2>3. DoNext(p, c) \/ DoNext(p, AtomicIdle)
      BY <1>7 DEF GetReads, GetCopies, IncrementAdds
    <2> HIDE DEF c
    <2> QED
      BY <1>1, <1>2, <2>1, <2>2, <2>3, IdleType, NoString
  <1>8. CASE UNCHANGED atomicVars
    <2>1. UNCHANGED <<atomic, strings, aproc, afault>>
      BY <1>8 DEF atomicVars
    <2>2. Owned'
      BY <2>1 DEF OwnedInv, Owned, Ownable, Holds
    <2>3. Destroyed'
      BY <2>1 DEF OwnedInv, Destroyed
    <2>4. Accounted'
      BY <2>1 DEF OwnedInv, Accounted, Holds
    <2> QED
      BY <1>1, <2>2, <2>3, <2>4 DEF OwnedInv, StringInv
  <1>9. ASSUME NEW p \in AtomicProcs, SetAllocates(p) \/ SetExchanges(p)
        PROVE  OwnedInv'
    BY <1>1, <1>9, AllocatesString, ExchangesString
  <1>10. ASSUME NEW p \in AtomicProcs, SetFrees(p)
         PROVE  StringInv'
    BY <1>1, <1>10, FreesString
  <1>11. CASE AtomicDestroy
    BY <1>1, <1>11, DestroysString
  <1>12. OwnedInv' => StringInv'
    BY DEF StringInv
  <1> QED
    BY <1>3, <1>4, <1>5, <1>6, <1>7, <1>8, <1>9, <1>10, <1>11, <1>12
    DEF AtomicNext

\* Lua_lazy_atomics_value_set frees a string at most once and only one of this
\* value, however sets overlap, and when Lua_lazy_atomics_value_destroy is done
\* no string is left unless an empty one was refused: whatever the memory held
\* that create took, until that is freed as a string, which is never when it
\* was cleared.
THEOREM LazyAtomicStringsFreed == AtomicSpec => []AtomicStringsFreed
  <1>1. OwnedInv => AtomicStringsFreed
    <2> SUFFICES ASSUME OwnedInv PROVE AtomicStringsFreed
      OBVIOUS
    <2>1. afault \subseteq {"leak"} /\ "foreign" \notin afault
      BY DEF OwnedInv, Accounted
    <2>2. ASSUME ~atomic.live, afault = {} PROVE strings = {}
      <3>1. NIL \notin strings
        BY Garbage DEF OwnedInv
      <3> QED
        BY <2>2, <3>1 DEF OwnedInv, Accounted, Destroyed, Holds
    <2> QED
      BY <2>1, <2>2 DEF AtomicStringsFreed
  <1>2. Spoilt => AtomicStringsFreed
    BY DEF Spoilt, AtomicStringsFreed
  <1>3. AtomicInit => StringInv
    BY StringInit DEF StringInv
  <1>4. StringInv /\ [AtomicNext]_atomicVars => StringInv'
    BY OwnedStep, SpoiltStep DEF StringInv
  <1>5. StringInv => AtomicStringsFreed
    BY <1>1, <1>2 DEF StringInv
  <1> QED
    BY <1>3, <1>4, <1>5, PTL DEF AtomicSpec

(****************************** Lua messages *******************************)

\* The Lua modules of all processes, from their start on.
LuaIpcSpec == LuaIpcInit /\ [][LuaIpcNext]_luaIpcVars

-----------------------------------------------------------------------------
(* The invariant.                                                          *)

LuaData == [st : {"none", "live", "gone"}, origin : LProcs, auto : BOOLEAN,
            dsts : SUBSET LProcs, acks : Nat, woken : Nat]
LuaMsgs == [id : Ids, cmd : {"msg", "resp", "proxy", "proxied"},
            code : {"msg", "resp"}, from : LProcs, to : LProcs, dst : LProcs]

LuaTypeOK ==
  /\ lmsg \in [Ids -> LuaData]
  /\ active \in [Heaps -> Int]
  /\ flight \subseteq LuaMsgs
  /\ lrun \in [LProcs -> {"running", "stopping", "stopped"}]
  /\ lsend \in [LProcs -> SUBSET LProcs]

\* The messages of f that packed data of the processes that share heap h.
LiveOf(f, h) == {i \in Ids : f[i].st = "live" /\ Heap(f[i].origin) = h}
\* The data not used yet, and the processes about to use some.
Unused(f) == {i \in Ids : f[i].st = "none"}
Senders(f) == {q \in LProcs : f[q] # {}}
\* The destinations of message i that the IPC messages f are about.
Pending(f, i) == {m.dst : m \in {n \in f : n.id = i}}

\* The counter of each heap counts its unreleased messages.
Accounts == \A h \in Heaps : active[h] = Cardinality(LiveOf(lmsg, h))

\* A message is about unreleased data and one of its destinations, no two are
\* about the same, and messages and answers go the right way.
Addressed ==
  /\ \A m \in flight :
       /\ lmsg[m.id].st = "live" /\ m.dst \in lmsg[m.id].dsts
       /\ m.cmd = "msg" => m.from = lmsg[m.id].origin /\ m.to = m.dst
       /\ m.cmd = "resp" => m.to = lmsg[m.id].origin
       /\ m.cmd = "proxied" =>
            m.to = IF m.code = "msg" THEN m.dst ELSE lmsg[m.id].origin
  /\ \A m, n \in flight : m.id = n.id /\ m.dst = n.dst => m = n

\* The answers that came and those still to come are no more than the
\* destinations, so that the last one finds none behind it.
Owed ==
  \A i \in Ids :
    /\ lmsg[i].acks + Cardinality(Pending(flight, i))
         <= Cardinality(lmsg[i].dsts)
    /\ lmsg[i].auto => Cardinality(lmsg[i].dsts) = 1

\* The coroutine is woken with the release, and when all have answered.
Woken ==
  \A i \in Ids :
    /\ lmsg[i].st # "gone" => lmsg[i].woken = 0
    /\ lmsg[i].woken <= 1
    /\ lmsg[i].woken = 1 => lmsg[i].acks = Cardinality(lmsg[i].dsts)

\* A process between looking at the states and sending is running, and there
\* is data for it to use.
Reserved ==
  /\ \A p \in LProcs : lsend[p] # {} => lrun[p] = "running"
  /\ Cardinality(Unused(lmsg)) >= Cardinality(Senders(lsend))

Faultless ==
  lfault \cap {"released twice", "not the origin", "cancelled"} = {}

\* Who stopped has released its data.
Stopped ==
  \A i \in Ids : lmsg[i].st = "live" => lrun[lmsg[i].origin] # "stopped"

LuaInv == /\ LuaTypeOK /\ Accounts /\ Addressed /\ Owed /\ Woken
          /\ Reserved /\ Faultless /\ Stopped /\ LuaProxiesFreed

-----------------------------------------------------------------------------
(* Counting.                                                               *)

\* There are finitely many processes and messages.
LEMMA LuaFinite ==
  /\ IsFiniteSet(LProcs) /\ IsFiniteSet(Ids) /\ LProcs \subseteq Int
  /\ LMaster \in LProcs /\ LManager \in LProcs
  <1>1. /\ NLuaWorkers \in Nat /\ MaxLuaMsgs \in Nat /\ -2 \in Int
        /\ NLuaWorkers - 1 \in Int
    BY LuaIpcAssumption
  <1>2. IsFiniteSet(-2..(NLuaWorkers - 1))
    BY <1>1, FS_Interval
  <1>3. LProcs \subseteq -2..(NLuaWorkers - 1) \cup {-1, -2}
    BY <1>1 DEF LProcs, LMaster, LManager, LWorkers
  <1>4. IsFiniteSet(((-2..(NLuaWorkers - 1)) \cup {-1}) \cup {-2})
    BY <1>2, FS_AddElement
  <1>5. IsFiniteSet(LProcs)
    BY <1>3, <1>4, FS_Subset
  <1>6. IsFiniteSet(Ids)
    BY <1>1, FS_Interval DEF Ids
  <1> QED
    BY <1>1, <1>5, <1>6 DEF LProcs, LMaster, LManager, LWorkers

\* So every set of them has a number of elements.
LEMMA LuaCounts ==
  /\ \A S \in SUBSET LProcs : IsFiniteSet(S) /\ Cardinality(S) \in Nat
  /\ \A S \in SUBSET Ids : IsFiniteSet(S) /\ Cardinality(S) \in Nat
  BY LuaFinite, FS_Subset, FS_CardinalityType

\* The destinations of messages on their way are processes.
LEMMA PendingType ==
  ASSUME NEW f \in SUBSET LuaMsgs, NEW i
  PROVE  /\ Pending(f, i) \subseteq LProcs
         /\ IsFiniteSet(Pending(f, i)) /\ Cardinality(Pending(f, i)) \in Nat
  <1>1. Pending(f, i) \subseteq LProcs
    BY DEF Pending, LuaMsgs
  <1> QED
    BY <1>1, LuaCounts

\* Fewer pending destinations are no more answers to come.
LEMMA FewerPending ==
  ASSUME NEW f \in SUBSET LuaMsgs, NEW g \in SUBSET LuaMsgs, NEW i,
         Pending(g, i) \subseteq Pending(f, i)
  PROVE  Cardinality(Pending(g, i)) <= Cardinality(Pending(f, i))
  BY PendingType, FS_Subset

\* The fields of the data and of the messages.
LEMMA LuaFields ==
  ASSUME LuaTypeOK
  PROVE  /\ \A i \in Ids :
              /\ lmsg[i] \in LuaData /\ lmsg[i].origin \in LProcs
              /\ lmsg[i].auto \in BOOLEAN /\ lmsg[i].dsts \subseteq LProcs
              /\ lmsg[i].acks \in Nat /\ lmsg[i].woken \in Nat
              /\ Cardinality(lmsg[i].dsts) \in Nat
              /\ Cardinality(Pending(flight, i)) \in Nat
         /\ \A m \in flight :
              /\ m \in LuaMsgs /\ m.id \in Ids /\ m.dst \in LProcs
              /\ m.to \in LProcs /\ m.from \in LProcs
  <1>1. \A i \in Ids : lmsg[i] \in LuaData
    BY DEF LuaTypeOK
  <1>2. \A i \in Ids :
          /\ lmsg[i].origin \in LProcs /\ lmsg[i].auto \in BOOLEAN
          /\ lmsg[i].dsts \in SUBSET LProcs
          /\ lmsg[i].acks \in Nat /\ lmsg[i].woken \in Nat
    BY <1>1 DEF LuaData
  <1>3. \A i \in Ids : Cardinality(lmsg[i].dsts) \in Nat
    BY <1>2, LuaCounts
  <1>4. \A i \in Ids : Cardinality(Pending(flight, i)) \in Nat
    BY PendingType DEF LuaTypeOK
  <1>5. \A m \in flight : m \in LuaMsgs
    BY DEF LuaTypeOK
  <1>6. \A m \in flight : /\ m.id \in Ids /\ m.dst \in LProcs
                          /\ m.to \in LProcs /\ m.from \in LProcs
    BY <1>5 DEF LuaMsgs
  <1> QED
    BY <1>1, <1>2, <1>3, <1>4, <1>5, <1>6

\* The invariant holds at the start.
LEMMA LuaInit == LuaIpcInit => LuaInv
  <1> SUFFICES ASSUME LuaIpcInit PROVE LuaInv
    OBVIOUS
  <1>1. /\ \A i \in Ids :
             /\ lmsg[i].st = "none" /\ lmsg[i].auto = FALSE
             /\ lmsg[i].dsts = {} /\ lmsg[i].acks = 0 /\ lmsg[i].woken = 0
        /\ flight = {} /\ proxies = {} /\ lfault = {}
    BY DEF LuaIpcInit, Unsent
  <1>2. LuaTypeOK
    <2>1. Unsent \in LuaData
      BY LuaFinite DEF Unsent, LuaData
    <2> QED
      BY <2>1 DEF LuaTypeOK, LuaIpcInit
  <1>3. Accounts
    <2>1. \A h \in Heaps : LiveOf(lmsg, h) = {} /\ active[h] = 0
      BY <1>1 DEF LiveOf, LuaIpcInit
    <2> QED
      BY <2>1, FS_EmptySet DEF Accounts
  <1>4. Owed
    <2>1. \A i \in Ids : Pending(flight, i) = {}
      BY <1>1 DEF Pending
    <2>2. \A i \in Ids : lmsg[i].acks + Cardinality(Pending(flight, i))
                           <= Cardinality(lmsg[i].dsts)
      BY <1>1, <2>1, FS_EmptySet
    <2>3. \A i \in Ids : ~lmsg[i].auto
      BY <1>1, Zenon
    <2> QED
      BY <2>2, <2>3, Zenon DEF Owed
  <1>5. Woken
    BY <1>1 DEF Woken
  <1>6. Reserved
    <2>1. Senders(lsend) = {} /\ \A p \in LProcs : lsend[p] = {}
      BY DEF Senders, LuaIpcInit
    <2>2. Cardinality(Unused(lmsg)) \in Nat
      BY LuaCounts DEF Unused
    <2> QED
      BY <2>1, <2>2, FS_EmptySet DEF Reserved
  <1>7. Addressed /\ Faultless /\ Stopped /\ LuaProxiesFreed
    BY <1>1 DEF Addressed, Faultless, Stopped, LuaProxiesFreed
  <1> QED
    BY <1>2, <1>3, <1>4, <1>5, <1>6, <1>7 DEF LuaInv

-----------------------------------------------------------------------------
(* Messages that are passed on.                                            *)

\* Looking at the states, stopping to take messages and unpacking.
LEMMA QuietStep ==
  ASSUME LuaInv, NEW p \in LProcs, LuaCheck(p) \/ LuaStop(p) \/ LuaUnpack(p)
  PROVE  LuaInv'
  <1>1. UNCHANGED <<lmsg, active, flight, proxies, lfault>>
    BY DEF LuaCheck, LuaStop, LuaUnpack
  <1>2. LuaTypeOK /\ LuaTypeOK'
    <2>1. LuaTypeOK
      BY DEF LuaInv
    <2>2. lrun' \in [LProcs -> {"running", "stopping", "stopped"}]
      BY <2>1 DEF LuaCheck, LuaStop, LuaUnpack, LuaTypeOK
    <2>3. lsend' \in [LProcs -> SUBSET LProcs]
      <3>1. CASE LuaCheck(p)
        <4>1. PICK ds \in Destinations(p) : lsend' = [lsend EXCEPT ![p] = ds]
          BY <3>1 DEF LuaCheck
        <4>2. ds \subseteq LProcs
          BY DEF Destinations, LProcs
        <4> QED
          BY <2>1, <4>1, <4>2 DEF LuaTypeOK
      <3> QED
        BY <2>1, <3>1 DEF LuaStop, LuaUnpack, LuaTypeOK
    <2> QED
      BY <1>1, <2>1, <2>2, <2>3 DEF LuaTypeOK
  <1>3. Accounts' /\ Addressed' /\ Owed' /\ Woken' /\ Faultless'
    BY <1>1 DEF LuaInv, Accounts, Addressed, Owed, Woken, Faultless
  <1>4. \A q \in LProcs : lrun'[q] = "stopped" <=> lrun[q] = "stopped"
    BY <1>2 DEF LuaCheck, LuaStop, LuaUnpack, LuaTypeOK
  <1>5. Stopped'
    BY <1>1, <1>2, <1>4, LuaFields DEF LuaInv, Stopped
  <1>6. LuaProxiesFreed'
    BY <1>1, <1>4 DEF LuaInv, LuaProxiesFreed
  <1>7. Reserved'
    <2>1. CASE LuaCheck(p)
      <3>1. PICK ds \in Destinations(p) \ {{}} :
              lsend' = [lsend EXCEPT ![p] = ds]
        BY <2>1 DEF LuaCheck
      <3>2. /\ lrun[p] = "running" /\ UNCHANGED lrun /\ lsend[p] = {}
            /\ Cardinality(Unused(lmsg)) > Cardinality(Senders(lsend))
        BY <2>1 DEF LuaCheck, Free, Unused, Senders
      <3>3. Senders(lsend') = Senders(lsend) \cup {p} /\ p \notin Senders(lsend)
        BY <1>2, <3>1, <3>2 DEF Senders, LuaTypeOK
      <3>4. /\ IsFiniteSet(Senders(lsend))
            /\ Cardinality(Senders(lsend)) \in Nat
            /\ Cardinality(Unused(lmsg)) \in Nat
        BY LuaCounts DEF Senders, Unused
      <3>5. Cardinality(Senders(lsend')) = Cardinality(Senders(lsend)) + 1
        BY <3>3, <3>4, FS_AddElement
      <3>6. Cardinality(Unused(lmsg')) >= Cardinality(Senders(lsend'))
        BY <1>1, <3>2, <3>4, <3>5
      <3>7. \A q \in LProcs : lsend'[q] # {} => lrun'[q] = "running"
        BY <1>2, <3>1, <3>2 DEF LuaInv, Reserved, LuaTypeOK
      <3> QED
        BY <3>6, <3>7 DEF Reserved
    <2>2. CASE LuaStop(p) \/ LuaUnpack(p)
      <3>1. UNCHANGED lsend
        BY <2>2 DEF LuaStop, LuaUnpack
      <3>2. \A q \in LProcs : lsend[q] # {} => lrun'[q] = lrun[q]
        BY <1>2, <2>2 DEF LuaStop, LuaUnpack, Free, LuaTypeOK
      <3> QED
        BY <1>1, <3>1, <3>2 DEF LuaInv, Reserved
    <2> QED
      BY <2>1, <2>2
  <1> QED
    BY <1>2, <1>3, <1>5, <1>6, <1>7 DEF LuaInv

\* A message of f is replaced by one about the same destination, or dropped.
LEMMA ReplacedPending ==
  ASSUME NEW f, NEW m \in f, NEW N, \A n \in N : n.id = m.id /\ n.dst = m.dst,
         \A a, b \in f : a.id = b.id /\ a.dst = b.dst => a = b
  PROVE  LET g == (f \ {m}) \cup N IN
         /\ \A i : Pending(g, i) \subseteq Pending(f, i)
         /\ N = {} => Pending(g, m.id) = Pending(f, m.id) \ {m.dst}
         /\ m.dst \in Pending(f, m.id)
  BY DEF Pending

\* A message goes the right way.
Goes(m, origin) ==
  /\ m.cmd = "msg" => m.from = origin /\ m.to = m.dst
  /\ m.cmd = "resp" => m.to = origin
  /\ m.cmd = "proxied" => m.to = IF m.code = "msg" THEN m.dst ELSE origin

\* The messages that are in shared memory.
ByShm(m) == m.cmd \in {"proxy", "proxied"}

\* A process takes a message and sends on one about the same destination.
LEMMA PassedOn ==
  ASSUME LuaInv, NEW m \in flight, NEW n \in LuaMsgs, Replaced(m, {n}),
         n.id = m.id, n.dst = m.dst, Goes(n, lmsg[m.id].origin),
         ByShm(m) <=> ByShm(n),
         UNCHANGED <<lmsg, active, proxies, lrun, lsend, lfault>>
  PROVE  LuaInv'
  <1> DEFINE N == {k \in {n} : ~LuaRefuses(k.to)}
  <1>1. flight' = (flight \ {m}) \cup N /\ N \subseteq {n}
    BY DEF Replaced
  <1>2. LuaTypeOK /\ LuaTypeOK'
    BY <1>1 DEF LuaInv, LuaTypeOK
  <1> HIDE DEF N
  <1>3. Addressed'
    <2>1. \A k \in flight' : k = n \/ (k \in flight /\ k # m)
      BY <1>1
    <2>2. \A a, b \in flight : a.id = b.id /\ a.dst = b.dst => a = b
      BY DEF LuaInv, Addressed
    <2>3. \A a, b \in flight' : a.id = b.id /\ a.dst = b.dst => a = b
      BY <2>1, <2>2
    <2>4. lmsg[m.id].st = "live" /\ m.dst \in lmsg[m.id].dsts
      BY DEF LuaInv, Addressed
    <2>5. \A k \in flight' :
            /\ lmsg[k.id].st = "live" /\ k.dst \in lmsg[k.id].dsts
            /\ Goes(k, lmsg[k.id].origin)
      BY <2>1, <2>4 DEF LuaInv, Addressed, Goes
    <2> QED
      BY <2>3, <2>5 DEF Addressed, Goes
  <1>4. Owed'
    <2>1. \A i : Pending(flight', i) \subseteq Pending(flight, i)
      <3>1. \A k \in N : k.id = m.id /\ k.dst = m.dst
        BY <1>1
      <3>2. \A a, b \in flight : a.id = b.id /\ a.dst = b.dst => a = b
        BY DEF LuaInv, Addressed
      <3> QED
        BY <1>1, <3>1, <3>2, ReplacedPending, Zenon
    <2>2. \A i \in Ids : Cardinality(Pending(flight', i))
                           <= Cardinality(Pending(flight, i))
      BY <1>2, <2>1, FewerPending DEF LuaTypeOK
    <2>3. \A i \in Ids : Cardinality(Pending(flight', i)) \in Nat
      BY <1>2, PendingType DEF LuaTypeOK
    <2> QED
      BY <1>2, <2>2, <2>3, LuaFields DEF LuaInv, Owed
  <1>5. LuaProxiesFreed'
    <2> SUFFICES ASSUME \A p \in LProcs : lrun[p] # "stopped"
                 PROVE  proxies = {<<k.id, k.dst>> :
                                     k \in {x \in flight' : ByShm(x)}}
      BY DEF LuaProxiesFreed, ByShm
    <2>1. proxies = {<<k.id, k.dst>> : k \in {x \in flight : ByShm(x)}}
      BY DEF LuaInv, LuaProxiesFreed, ByShm
    <2>2. N = {n}
      BY DEF N, LuaRefuses, LuaMsgs
    <2> QED
      BY <1>1, <2>1, <2>2
  <1>6. Accounts' /\ Woken' /\ Reserved' /\ Faultless' /\ Stopped'
    BY DEF LuaInv, Accounts, Woken, Reserved, Faultless, Stopped
  <1> QED
    BY <1>2, <1>3, <1>4, <1>5, <1>6 DEF LuaInv

-----------------------------------------------------------------------------
(* Answers, sends and stops.                                               *)

\* The sender takes an answer: the last one releases the data and wakes it.
LEMMA AnsweredStep ==
  ASSUME LuaInv, NEW p \in LProcs, NEW m \in flight, Replaced(m, {}),
         Answered(p, m.id), p = lmsg[m.id].origin,
         proxies' = IF ByShm(m) THEN proxies \ {<<m.id, m.dst>>} ELSE proxies,
         UNCHANGED <<lrun, lsend>>
  PROVE  LuaInv'
  <1> DEFINE i == m.id
             acks == lmsg[i].acks + 1
             last == lmsg[i].auto \/ acks = Cardinality(lmsg[i].dsts)
  <1>1. /\ LuaTypeOK /\ i \in Ids /\ lmsg[i] \in LuaData
        /\ lmsg[i].st = "live" /\ lmsg[i].woken = 0
        /\ lmsg[i].acks \in Nat /\ acks \in Nat
        /\ lmsg[i].dsts \subseteq LProcs
        /\ Cardinality(lmsg[i].dsts) \in Nat
    BY LuaFields DEF LuaInv, Addressed, Woken
  <1>2. /\ flight' = flight \ {m}
        /\ lmsg' = [lmsg EXCEPT ![i].acks = acks,
                                ![i].woken = IF last THEN @ + 1 ELSE @,
                                ![i].st = IF last THEN "gone" ELSE @]
        /\ IF last THEN Released(p, i) ELSE UNCHANGED <<active, lfault>>
    BY DEF Replaced, Answered
  <1>3. last \in BOOLEAN
    OBVIOUS
  <1> HIDE DEF last
  <1>4. /\ \A j \in Ids : j # i => lmsg'[j] = lmsg[j]
        /\ lmsg'[i].acks = acks /\ lmsg'[i].dsts = lmsg[i].dsts
        /\ lmsg'[i].auto = lmsg[i].auto /\ lmsg'[i].origin = lmsg[i].origin
        /\ last => lmsg'[i].st = "gone" /\ lmsg'[i].woken = 1
        /\ ~last => lmsg'[i].st = "live" /\ lmsg'[i].woken = 0
        /\ lmsg' \in [Ids -> LuaData]
    <2> DEFINE d == [lmsg[i] EXCEPT !.acks = acks,
                                    !.woken = IF last THEN @ + 1 ELSE @,
                                    !.st = IF last THEN "gone" ELSE @]
    <2>1. lmsg' = [lmsg EXCEPT ![i] = d]
      BY <1>1, <1>2 DEF LuaTypeOK
    <2>2. /\ d \in LuaData /\ d.acks = acks /\ d.dsts = lmsg[i].dsts
          /\ d.auto = lmsg[i].auto /\ d.origin = lmsg[i].origin
          /\ last => d.st = "gone" /\ d.woken = 1
          /\ ~last => d.st = "live" /\ d.woken = 0
      <3>1. CASE last
        <4>1. d = [lmsg[i] EXCEPT !.acks = acks, !.woken = 1, !.st = "gone"]
          BY <1>1, <3>1 DEF LuaData
        <4> HIDE DEF d
        <4> QED
          BY <1>1, <3>1, <4>1 DEF LuaData
      <3>2. CASE ~last
        <4>1. d = [lmsg[i] EXCEPT !.acks = acks]
          BY <1>1, <3>2 DEF LuaData
        <4> QED
          BY <1>1, <3>2, <4>1 DEF LuaData
      <3> QED
        BY <3>1, <3>2
    <2> HIDE DEF d
    <2> QED
      BY <1>1, <2>1, <2>2 DEF LuaTypeOK
  <1>5. \A a, b \in flight : a.id = b.id /\ a.dst = b.dst => a = b
    BY DEF LuaInv, Addressed
  <1>6. /\ \A j : Pending(flight', j) \subseteq Pending(flight, j)
        /\ Pending(flight', i) = Pending(flight, i) \ {m.dst}
        /\ m.dst \in Pending(flight, i)
    BY <1>2, <1>5 DEF Pending
  <1>7. /\ IsFiniteSet(Pending(flight, i)) /\ flight' \subseteq LuaMsgs
        /\ \A j \in Ids : Cardinality(Pending(flight, j)) \in Nat
        /\ \A j \in Ids : Cardinality(Pending(flight', j)) \in Nat
    BY <1>1, <1>2, PendingType DEF LuaTypeOK
  <1>8. Cardinality(Pending(flight', i)) = Cardinality(Pending(flight, i)) - 1
    BY <1>6, <1>7, FS_RemoveElement
  <1>9. Owed'
    <2>1. acks + Cardinality(Pending(flight', i)) <= Cardinality(lmsg[i].dsts)
      BY <1>1, <1>7, <1>8 DEF LuaInv, Owed
    <2>2. ASSUME NEW j \in Ids, j # i
          PROVE  lmsg[j].acks + Cardinality(Pending(flight', j))
                   <= Cardinality(lmsg[j].dsts)
      <3>1. Cardinality(Pending(flight', j)) <= Cardinality(Pending(flight, j))
        BY <1>1, <1>6, <1>7, FewerPending DEF LuaTypeOK
      <3> QED
        BY <1>1, <1>7, <3>1, LuaFields DEF LuaInv, Owed
    <2>3. \A j \in Ids : lmsg'[j].acks + Cardinality(Pending(flight', j))
                           <= Cardinality(lmsg'[j].dsts)
      BY <1>4, <2>1, <2>2
    <2>4. \A j \in Ids : lmsg'[j].auto = lmsg[j].auto
                           /\ lmsg'[j].dsts = lmsg[j].dsts
      BY <1>4
    <2>5. \A j \in Ids : lmsg'[j].auto => Cardinality(lmsg'[j].dsts) = 1
      BY <2>4 DEF LuaInv, Owed
    <2> QED
      BY <2>3, <2>5 DEF Owed
  <1>10. last => /\ acks = Cardinality(lmsg[i].dsts)
                 /\ Pending(flight', i) = {}
    <2> SUFFICES ASSUME last
                 PROVE  /\ acks = Cardinality(lmsg[i].dsts)
                        /\ Pending(flight', i) = {}
      OBVIOUS
    <2>1. acks + Cardinality(Pending(flight', i)) <= Cardinality(lmsg[i].dsts)
      BY <1>4, <1>9, <1>1 DEF Owed
    <2>2. acks = Cardinality(lmsg[i].dsts)
      <3>1. CASE lmsg[i].auto
        <4>1. Cardinality(lmsg[i].dsts) = 1
          BY <1>1, <3>1 DEF LuaInv, Owed
        <4> QED
          BY <1>1, <1>7, <2>1, <4>1
      <3> QED
        BY <3>1 DEF last
    <2>3. Cardinality(Pending(flight', i)) = 0
      BY <1>1, <1>7, <2>1, <2>2
    <2>4. IsFiniteSet(Pending(flight', i))
      BY <1>7, PendingType
    <2> QED
      BY <2>2, <2>3, <2>4, FS_EmptySet
  <1>11. Woken'
    BY <1>4, <1>10 DEF LuaInv, Woken
  <1>12. Addressed'
    <2>1. \A k \in flight' : k \in flight /\ (last => k.id # i)
      BY <1>2, <1>10 DEF Pending
    <2>2. \A k \in flight' :
            /\ lmsg'[k.id].st = lmsg[k.id].st
            /\ lmsg'[k.id].dsts = lmsg[k.id].dsts
            /\ lmsg'[k.id].origin = lmsg[k.id].origin
      <3> SUFFICES ASSUME NEW k \in flight'
                   PROVE  /\ lmsg'[k.id].st = lmsg[k.id].st
                          /\ lmsg'[k.id].dsts = lmsg[k.id].dsts
                          /\ lmsg'[k.id].origin = lmsg[k.id].origin
        OBVIOUS
      <3>1. k.id \in Ids
        BY <1>1, <2>1, LuaFields
      <3> QED
        BY <1>1, <1>4, <2>1, <3>1
    <2> QED
      BY <1>5, <2>1, <2>2 DEF LuaInv, Addressed
  <1>13. Accounts' /\ active' \in [Heaps -> Int]
    <2>1. CASE last
      <3>1. active' = [active EXCEPT ![Heap(p)] = @ - 1]
        BY <1>2, <2>1 DEF Released
      <3>2. Heap(p) \in Heaps
        BY DEF Heap, Heaps
      <3>3. i \in LiveOf(lmsg, Heap(p))
        BY <1>1 DEF LiveOf
      <3>4. LiveOf(lmsg', Heap(p)) = LiveOf(lmsg, Heap(p)) \ {i}
        BY <1>1, <1>4, <2>1 DEF LiveOf
      <3>5. \A h \in Heaps : h # Heap(p) => LiveOf(lmsg', h) = LiveOf(lmsg, h)
        BY <1>1, <1>4, <2>1 DEF LiveOf
      <3>6. /\ IsFiniteSet(LiveOf(lmsg, Heap(p)))
            /\ Cardinality(LiveOf(lmsg, Heap(p))) \in Nat
        BY LuaCounts DEF LiveOf
      <3>7. Cardinality(LiveOf(lmsg', Heap(p)))
              = Cardinality(LiveOf(lmsg, Heap(p))) - 1
        BY <3>3, <3>4, <3>6, FS_RemoveElement
      <3>8. active \in [Heaps -> Int]
        BY <1>1 DEF LuaTypeOK
      <3> QED
        BY <3>1, <3>2, <3>5, <3>6, <3>7, <3>8 DEF LuaInv, Accounts
    <2>2. CASE ~last
      <3>1. \A h : LiveOf(lmsg', h) = LiveOf(lmsg, h)
        BY <1>1, <1>4, <2>2 DEF LiveOf
      <3> QED
        BY <1>1, <1>2, <2>2, <3>1 DEF LuaInv, Accounts, LuaTypeOK
    <2> QED
      BY <2>1, <2>2
  <1>14. LuaTypeOK'
    BY <1>1, <1>4, <1>7, <1>13 DEF LuaTypeOK
  <1>15. Reserved'
    <2>1. Unused(lmsg') = Unused(lmsg)
      BY <1>1, <1>4 DEF Unused
    <2> QED
      BY <2>1 DEF LuaInv, Reserved
  <1>16. Faultless'
    BY <1>1, <1>2 DEF LuaInv, Faultless, Released, Live
  <1>17. Stopped'
    BY <1>1, <1>4 DEF LuaInv, Stopped
  <1>18. LuaProxiesFreed'
    <2> SUFFICES ASSUME \A q \in LProcs : lrun[q] # "stopped"
                 PROVE  proxies' = {<<k.id, k.dst>> :
                                     k \in {x \in flight' : ByShm(x)}}
      BY DEF LuaProxiesFreed, ByShm
    <2>1. proxies = {<<k.id, k.dst>> : k \in {x \in flight : ByShm(x)}}
      BY DEF LuaInv, LuaProxiesFreed, ByShm
    <2>2. CASE ~ByShm(m)
      BY <1>2, <2>1, <2>2
    <2>3. CASE ByShm(m)
      <3>1. proxies' = proxies \ {<<m.id, m.dst>>}
        BY <2>3
      <3>2. \A k \in flight : <<k.id, k.dst>> = <<m.id, m.dst>> => k = m
        BY <1>5
      <3> QED
        BY <1>2, <2>1, <3>1, <3>2
    <2> QED
      BY <2>2, <2>3
  <1> QED
    BY <1>9, <1>11, <1>12, <1>13, <1>14, <1>15, <1>16, <1>17, <1>18 DEF LuaInv

\* A process sends what it packed, up to the first destination that refuses.
LEMMA SendStep ==
  ASSUME LuaInv, NEW p \in LProcs, LuaSend(p)
  PROVE  LuaInv'
  <1> DEFINE i == CHOOSE j \in Ids : lmsg[j].st = "none"
             ds == lsend[p]
             one == Cardinality(ds) = 1
             via(d) == IF ByProxy(p, d) THEN LManager ELSE d
             to == {d \in ds : \A e \in ds : e <= d => ~LuaRefuses(via(e))}
             undone == one /\ to = {} /\ \A d \in ds : ByProxy(p, d)
             new == [Unsent EXCEPT !.st = IF undone THEN "gone" ELSE "live",
                                   !.origin = p, !.auto = one, !.dsts = ds]
             sent(d) == IF ByProxy(p, d)
                        THEN Msg(i, "proxy", "msg", p, LManager, d)
                        ELSE Msg(i, "msg", "msg", p, d, d)
  <1>1. /\ lmsg' = [lmsg EXCEPT ![i] = new]
        /\ active' = [active EXCEPT ![Heap(p)] = IF undone THEN @ ELSE @ + 1]
        /\ flight' = flight \cup {sent(d) : d \in to}
        /\ proxies' = proxies \cup
                        {<<i, d>> : d \in {e \in to : ByProxy(p, e)}}
        /\ lsend' = [lsend EXCEPT ![p] = {}]
        /\ UNCHANGED <<lrun, lfault>>
    BY DEF LuaSend
  <1>2. /\ LuaTypeOK /\ ds # {} /\ ds \subseteq LProcs
        /\ to \subseteq ds /\ lrun[p] = "running"
        /\ undone => to = {}
        /\ one \in BOOLEAN /\ undone \in BOOLEAN
    BY DEF LuaInv, LuaSend, LuaTypeOK, Reserved
  <1>3. /\ p \in Senders(lsend) /\ Senders(lsend') = Senders(lsend) \ {p}
        /\ IsFiniteSet(Senders(lsend)) /\ Cardinality(Senders(lsend)) \in Nat
        /\ IsFiniteSet(Unused(lmsg)) /\ Cardinality(Unused(lmsg)) \in Nat
    <2>1. p \in Senders(lsend) /\ Senders(lsend') = Senders(lsend) \ {p}
      BY <1>1, <1>2 DEF Senders, LuaTypeOK
    <2> QED
      BY <2>1, LuaCounts DEF Senders, Unused
  <1>4. Unused(lmsg) # {}
    <2>1. Cardinality(Senders(lsend)) # 0
      BY <1>3, FS_EmptySet
    <2> QED
      BY <1>3, <2>1, FS_EmptySet DEF LuaInv, Reserved
  <1>5. i \in Ids /\ lmsg[i].st = "none"
    BY <1>4 DEF Unused
  <1>6. \A m \in flight : m.id \in Ids /\ m.id # i
    BY <1>2, <1>5, LuaFields DEF LuaInv, Addressed
  <1>7. /\ new \in LuaData /\ new.origin = p /\ new.auto = one /\ new.dsts = ds
        /\ new.acks = 0 /\ new.woken = 0
        /\ undone => new.st = "gone"
        /\ ~undone => new.st = "live"
    BY <1>2, LuaFinite DEF Unsent, LuaData
  <1>8. \A d \in to :
          /\ sent(d) \in LuaMsgs /\ sent(d).id = i /\ sent(d).dst = d
          /\ Goes(sent(d), p) /\ (ByShm(sent(d)) <=> ByProxy(p, d))
    BY <1>2, <1>5, LuaFinite DEF Msg, LuaMsgs, Goes, ByShm
  <1> HIDE DEF i, one, undone, new, sent, to
  <1>9. /\ lmsg'[i] = new /\ \A j \in Ids : j # i => lmsg'[j] = lmsg[j]
        /\ lmsg' \in [Ids -> LuaData]
    BY <1>1, <1>2, <1>5, <1>7 DEF LuaTypeOK
  <1>10. /\ Pending(flight', i) = to
         /\ \A j \in Ids : j # i => Pending(flight', j) = Pending(flight, j)
    <2>1. \A m \in flight' : m \in flight \/ \E d \in to : m = sent(d)
      BY <1>1
    <2>2. flight \subseteq flight' /\ \A d \in to : sent(d) \in flight'
      BY <1>1
    <2>3. Pending(flight', i) = to
      BY <2>1, <2>2, <1>6, <1>8 DEF Pending
    <2>4. \A j \in Ids : j # i => Pending(flight', j) = Pending(flight, j)
      BY <2>1, <2>2, <1>6, <1>8 DEF Pending
    <2> QED
      BY <2>3, <2>4
  <1>11. Accounts' /\ active' \in [Heaps -> Int]
    <2>1. Heap(p) \in Heaps /\ active \in [Heaps -> Int]
      BY <1>2 DEF Heap, Heaps, LuaTypeOK
    <2>2. CASE undone
      <3>1. \A h : LiveOf(lmsg', h) = LiveOf(lmsg, h)
        BY <1>5, <1>7, <1>9, <2>2 DEF LiveOf
      <3>2. \A h \in Heaps : active'[h] = active[h]
        BY <1>1, <2>1, <2>2
      <3>3. active' \in [Heaps -> Int]
        BY <1>1, <2>1, <2>2
      <3> QED
        BY <3>1, <3>2, <3>3 DEF LuaInv, Accounts
    <2>3. CASE ~undone
      <3>1. active' = [active EXCEPT ![Heap(p)] = @ + 1]
        BY <1>1, <2>3
      <3>2. i \notin LiveOf(lmsg, Heap(p))
        BY <1>5 DEF LiveOf
      <3>3. LiveOf(lmsg', Heap(p)) = LiveOf(lmsg, Heap(p)) \cup {i}
        BY <1>5, <1>7, <1>9, <2>3 DEF LiveOf
      <3>4. \A h \in Heaps : h # Heap(p) => LiveOf(lmsg', h) = LiveOf(lmsg, h)
        BY <1>5, <1>7, <1>9, <2>3 DEF LiveOf
      <3>5. /\ IsFiniteSet(LiveOf(lmsg, Heap(p)))
            /\ Cardinality(LiveOf(lmsg, Heap(p))) \in Nat
        BY LuaCounts DEF LiveOf
      <3>6. Cardinality(LiveOf(lmsg', Heap(p)))
              = Cardinality(LiveOf(lmsg, Heap(p))) + 1
        BY <3>2, <3>3, <3>5, FS_AddElement
      <3> QED
        BY <2>1, <3>1, <3>4, <3>5, <3>6 DEF LuaInv, Accounts
    <2> QED
      BY <1>2, <2>2, <2>3
  <1>12. LuaTypeOK'
    <2>1. flight' \subseteq LuaMsgs
      BY <1>1, <1>2, <1>8 DEF LuaTypeOK
    <2>2. lsend' \in [LProcs -> SUBSET LProcs]
      BY <1>1, <1>2 DEF LuaTypeOK
    <2> QED
      BY <1>1, <1>2, <1>9, <1>11, <2>1, <2>2 DEF LuaTypeOK
  <1>13. Addressed'
    <2>1. \A m \in flight' :
            \/ m \in flight /\ m.id \in Ids /\ m.id # i
               /\ lmsg'[m.id] = lmsg[m.id]
            \/ \E d \in to : m = sent(d)
      BY <1>1, <1>6, <1>9
    <2>2. \A d \in to : new.st = "live" /\ d \in new.dsts
      BY <1>2, <1>7
    <2>3. \A m \in flight' :
            /\ lmsg'[m.id].st = "live" /\ m.dst \in lmsg'[m.id].dsts
            /\ Goes(m, lmsg'[m.id].origin)
      <3> SUFFICES ASSUME NEW m \in flight'
                   PROVE  /\ lmsg'[m.id].st = "live"
                          /\ m.dst \in lmsg'[m.id].dsts
                          /\ Goes(m, lmsg'[m.id].origin)
        OBVIOUS
      <3>1. CASE m \in flight /\ lmsg'[m.id] = lmsg[m.id]
        BY <3>1 DEF LuaInv, Addressed, Goes
      <3>2. ASSUME NEW d \in to, m = sent(d)
            PROVE  /\ lmsg'[m.id].st = "live"
                   /\ m.dst \in lmsg'[m.id].dsts
                   /\ Goes(m, lmsg'[m.id].origin)
        BY <1>7, <1>8, <1>9, <2>2, <3>2
      <3> QED
        BY <2>1, <3>1, <3>2
    <2>4. \A m, n \in flight' : m.id = n.id /\ m.dst = n.dst => m = n
      <3>1. \A m, n \in flight : m.id = n.id /\ m.dst = n.dst => m = n
        BY DEF LuaInv, Addressed
      <3> QED
        BY <1>8, <2>1, <3>1
    <2> QED
      BY <2>3, <2>4 DEF Addressed, Goes
  <1>14. Owed'
    <2>1. Cardinality(to) <= Cardinality(ds) /\ Cardinality(to) \in Nat
          /\ Cardinality(ds) \in Nat
      <3>1. IsFiniteSet(ds) /\ to \in SUBSET LProcs /\ to \in SUBSET ds
        BY <1>2, LuaCounts
      <3> QED
        BY <1>2, <3>1, LuaCounts, FS_Subset
    <2>2. 0 + Cardinality(to) <= Cardinality(ds)
      BY <2>1
    <2>3. \A j \in Ids : lmsg'[j].acks + Cardinality(Pending(flight', j))
                           <= Cardinality(lmsg'[j].dsts)
      BY <1>7, <1>9, <1>10, <2>2 DEF LuaInv, Owed
    <2>4. new.auto => Cardinality(new.dsts) = 1
      BY <1>7 DEF one
    <2>5. \A j \in Ids : lmsg'[j].auto => Cardinality(lmsg'[j].dsts) = 1
      BY <1>9, <2>4 DEF LuaInv, Owed
    <2> QED
      BY <2>3, <2>5 DEF Owed
  <1>15. Woken'
    BY <1>7, <1>9 DEF LuaInv, Woken
  <1>16. Reserved'
    <2>1. Unused(lmsg') = Unused(lmsg) \ {i} /\ i \in Unused(lmsg)
      BY <1>2, <1>5, <1>7, <1>9 DEF Unused
    <2>2. Cardinality(Unused(lmsg')) = Cardinality(Unused(lmsg)) - 1
      BY <1>3, <2>1, FS_RemoveElement
    <2>3. Cardinality(Senders(lsend')) = Cardinality(Senders(lsend)) - 1
      BY <1>3, FS_RemoveElement
    <2>4. Cardinality(Unused(lmsg')) >= Cardinality(Senders(lsend'))
      BY <1>3, <2>2, <2>3 DEF LuaInv, Reserved
    <2>5. \A q \in LProcs : lsend'[q] # {} => lrun'[q] = "running"
      BY <1>1, <1>2 DEF LuaInv, Reserved, LuaTypeOK
    <2> QED
      BY <2>4, <2>5 DEF Reserved
  <1>17. Faultless' /\ Stopped'
    BY <1>1, <1>2, <1>7, <1>9 DEF LuaInv, Faultless, Stopped
  <1>18. LuaProxiesFreed'
    <2> SUFFICES ASSUME \A q \in LProcs : lrun[q] # "stopped"
                 PROVE  proxies' = {<<k.id, k.dst>> :
                                     k \in {x \in flight' : ByShm(x)}}
      BY <1>1 DEF LuaProxiesFreed, ByShm
    <2>1. proxies = {<<k.id, k.dst>> : k \in {x \in flight : ByShm(x)}}
      BY DEF LuaInv, LuaProxiesFreed, ByShm
    <2> DEFINE P(F) == {<<k.id, k.dst>> : k \in {x \in F : ByShm(x)}}
               S == {sent(d) : d \in to}
    <2>2. P(S) = {<<i, d>> : d \in {e \in to : ByProxy(p, e)}}
      BY <1>8
    <2>3. P(flight \cup S) = P(flight) \cup P(S)
      OBVIOUS
    <2> QED
      BY <1>1, <2>1, <2>2, <2>3
  <1> QED
    BY <1>11, <1>12, <1>13, <1>14, <1>15, <1>16, <1>17, <1>18 DEF LuaInv

\* A process ends, and drops what is left in its output buffer.
LEMMA StoppedStep ==
  ASSUME LuaInv, NEW p \in LProcs, LuaStopped(p)
  PROVE  LuaInv'
  <1>1. /\ lrun[p] = "stopping" /\ lsend[p] = {} /\ ~(active[Heap(p)] > 0)
        /\ lrun' = [lrun EXCEPT ![p] = "stopped"]
        /\ UNCHANGED <<lmsg, active, proxies, lsend>>
    BY DEF LuaStopped, Free, InTransit
  <1>2. PICK buffered \in SUBSET {m \in flight : m.from = p} :
          /\ flight' = flight \ buffered
          /\ lfault' = lfault \cup
               {IF m.cmd = "msg" THEN "cancelled" ELSE "confused" :
                  m \in {n \in buffered : n.cmd # "resp"}}
    BY DEF LuaStopped
  <1>3. LuaTypeOK /\ LuaTypeOK'
    BY <1>1, <1>2 DEF LuaInv, LuaTypeOK
  <1>4. \A j \in Ids : lmsg[j].st = "live" => lmsg[j].origin # p
    <2>1. /\ Heap(p) \in Heaps /\ IsFiniteSet(LiveOf(lmsg, Heap(p)))
          /\ Cardinality(LiveOf(lmsg, Heap(p))) \in Nat
      BY LuaCounts DEF LiveOf, Heap, Heaps
    <2>2. Cardinality(LiveOf(lmsg, Heap(p))) = 0
      BY <1>1, <2>1 DEF LuaInv, Accounts
    <2>3. LiveOf(lmsg, Heap(p)) = {}
      BY <2>1, <2>2, FS_EmptySet
    <2> QED
      BY <2>3 DEF LiveOf
  <1>5. Faultless'
    <2>1. \A m \in buffered : m.cmd # "msg"
      BY <1>3, <1>4, LuaFields DEF LuaInv, Addressed
    <2> QED
      BY <1>2, <2>1 DEF LuaInv, Faultless
  <1>6. Owed'
    <2>1. \A j \in Ids : Pending(flight', j) \subseteq Pending(flight, j)
      BY <1>2 DEF Pending
    <2>2. \A j \in Ids : Cardinality(Pending(flight', j))
                           <= Cardinality(Pending(flight, j))
      BY <1>3, <2>1, FewerPending DEF LuaTypeOK
    <2>3. \A j \in Ids : Cardinality(Pending(flight', j)) \in Nat
      BY <1>3, PendingType DEF LuaTypeOK
    <2> QED
      BY <1>1, <1>3, <2>2, <2>3, LuaFields DEF LuaInv, Owed
  <1>7. Stopped'
    BY <1>1, <1>3, <1>4, LuaFields DEF LuaInv, Stopped, LuaTypeOK
  <1>8. Reserved'
    BY <1>1, <1>3 DEF LuaInv, Reserved, LuaTypeOK
  <1>9. LuaProxiesFreed'
    BY <1>1, <1>3 DEF LuaProxiesFreed, LuaTypeOK
  <1>10. Addressed' /\ Accounts' /\ Woken'
    BY <1>1, <1>2 DEF LuaInv, Addressed, Accounts, Woken
  <1> QED
    BY <1>3, <1>5, <1>6, <1>7, <1>8, <1>9, <1>10 DEF LuaInv

-----------------------------------------------------------------------------
(* The steps together.                                                     *)

\* A process takes a message and answers it.
LEMMA MessageStep ==
  ASSUME LuaInv, NEW p \in LProcs, LuaMessage(p)
  PROVE  LuaInv'
  <1>1. PICK m \in flight :
          /\ m.to = p /\ m.cmd = "msg"
          /\ Replaced(m, {Msg(m.id, "resp", "resp", p, lmsg[m.id].origin, p)})
    BY DEF LuaMessage, Gets
  <1> DEFINE n == Msg(m.id, "resp", "resp", p, lmsg[m.id].origin, p)
  <1>2. m.dst = p /\ m.id \in Ids /\ lmsg[m.id].origin \in LProcs
    BY <1>1, LuaFields DEF LuaInv, Addressed
  <1>3. /\ n \in LuaMsgs /\ n.id = m.id /\ n.dst = m.dst
        /\ Goes(n, lmsg[m.id].origin) /\ ~ByShm(m) /\ ~ByShm(n)
    BY <1>1, <1>2 DEF Msg, LuaMsgs, Goes, ByShm
  <1>4. UNCHANGED <<lmsg, active, proxies, lrun, lsend, lfault>>
    BY DEF LuaMessage
  <1> HIDE DEF n
  <1>5. Replaced(m, {n})
    BY <1>1 DEF n
  <1> QED
    BY <1>3, <1>4, <1>5, PassedOn

\* The manager passes on messages and answers.
LEMMA ProxyStep ==
  ASSUME LuaInv, LuaProxy
  PROVE  LuaInv'
  <1>1. PICK m \in flight :
          /\ m.cmd = "proxy"
          /\ Replaced(m, {Msg(m.id, "proxied", m.code, LManager,
                              IF m.code = "msg" THEN m.dst
                              ELSE lmsg[m.id].origin, m.dst)})
    BY DEF LuaProxy, Gets
  <1> DEFINE n == Msg(m.id, "proxied", m.code, LManager,
                      IF m.code = "msg" THEN m.dst ELSE lmsg[m.id].origin,
                      m.dst)
  <1>2. /\ m \in LuaMsgs /\ m.id \in Ids /\ lmsg[m.id].origin \in LProcs
        /\ m.code \in {"msg", "resp"} /\ m.dst \in LProcs
    BY LuaFields DEF LuaInv, LuaMsgs
  <1>3. /\ n \in LuaMsgs /\ n.id = m.id /\ n.dst = m.dst
        /\ Goes(n, lmsg[m.id].origin) /\ ByShm(m) /\ ByShm(n)
    BY <1>1, <1>2, LuaFinite DEF Msg, LuaMsgs, Goes, ByShm
  <1>4. UNCHANGED <<lmsg, active, proxies, lrun, lsend, lfault>>
    BY DEF LuaProxy
  <1> HIDE DEF n
  <1>5. Replaced(m, {n})
    BY <1>1 DEF n
  <1> QED
    BY <1>3, <1>4, <1>5, PassedOn

\* A process takes a message or an answer that the manager passed on.
LEMMA ProxyReceiveStep ==
  ASSUME LuaInv, NEW p \in LProcs, LuaProxyReceive(p)
  PROVE  LuaInv'
  <1>1. PICK m \in flight :
          /\ m.to = p /\ m.cmd = "proxied"
          /\ IF m.code = "msg"
             THEN /\ Replaced(m, {Msg(m.id, "proxy", "resp", p, LManager,
                                     m.dst)})
                  /\ UNCHANGED <<lmsg, active, proxies, lfault>>
             ELSE /\ Replaced(m, {}) /\ Answered(p, m.id)
                  /\ proxies' = proxies \ {<<m.id, m.dst>>}
    BY DEF LuaProxyReceive, Gets
  <1>2. UNCHANGED <<lrun, lsend>> /\ ByShm(m)
    BY <1>1 DEF LuaProxyReceive, ByShm
  <1>3. CASE m.code = "msg"
    <2> DEFINE n == Msg(m.id, "proxy", "resp", p, LManager, m.dst)
    <2>1. m.id \in Ids /\ m.dst \in LProcs
      BY LuaFields DEF LuaInv
    <2>2. /\ n \in LuaMsgs /\ n.id = m.id /\ n.dst = m.dst
          /\ Goes(n, lmsg[m.id].origin) /\ ByShm(n)
      BY <2>1, LuaFinite DEF Msg, LuaMsgs, Goes, ByShm
    <2> HIDE DEF n
    <2>3. Replaced(m, {n})
      BY <1>1, <1>3 DEF n
    <2> QED
      BY <1>1, <1>2, <1>3, <2>2, <2>3, PassedOn
  <1>4. CASE m.code # "msg"
    <2>1. p = lmsg[m.id].origin
      BY <1>1, <1>4 DEF LuaInv, Addressed
    <2> QED
      BY <1>1, <1>2, <1>4, <2>1, AnsweredStep
  <1> QED
    BY <1>3, <1>4

\* Every step keeps the invariant.
LEMMA LuaStep == LuaInv /\ [LuaIpcNext]_luaIpcVars => LuaInv'
  <1> SUFFICES ASSUME LuaInv, [LuaIpcNext]_luaIpcVars PROVE LuaInv'
    OBVIOUS
  <1>1. ASSUME NEW p \in LProcs, LuaResponse(p)
        PROVE  LuaInv'
    <2>1. PICK m \in flight :
            m.to = p /\ m.cmd = "resp" /\ Replaced(m, {}) /\ Answered(p, m.id)
      BY <1>1 DEF LuaResponse, Gets
    <2>2. p = lmsg[m.id].origin /\ ~ByShm(m)
      BY <2>1 DEF LuaInv, Addressed, ByShm
    <2>3. UNCHANGED <<proxies, lrun, lsend>>
      BY <1>1 DEF LuaResponse
    <2> QED
      BY <2>1, <2>2, <2>3, AnsweredStep
  <1>2. CASE UNCHANGED luaIpcVars
    BY <1>2 DEF luaIpcVars, LuaInv, LuaTypeOK, Accounts, Addressed, Owed, Woken,
                Reserved, Faultless, Stopped, LuaProxiesFreed
  <1> QED
    BY <1>1, <1>2, QuietStep, SendStep, MessageStep, ProxyReceiveStep,
       StoppedStep, ProxyStep DEF LuaIpcNext, LuaIpcStep

\* However answers, proxies and stops interleave, the data of a Lua message is
\* released once and by the process that packed it, the counter that delays
\* the stop counts what is not, the sender is woken once and after all have
\* answered, no proxy message is lost while nobody stops, and no process stops
\* while an answer is owed to it.
THEOREM LuaMessagesExactlyOnce == LuaIpcSpec => []LuaExactlyOnce
  <1>1. LuaInv => LuaExactlyOnce
    <2> SUFFICES ASSUME LuaInv PROVE LuaExactlyOnce
      OBVIOUS
    <2>1. LuaReleasedOnce
      BY DEF LuaInv, LuaReleasedOnce, Faultless, Accounts, LiveOf, Live
    <2>2. LuaWokenOnce
      BY DEF LuaInv, LuaWokenOnce, Woken, Addressed
    <2>3. LuaProxiesFreed /\ LuaStoppedOwesNothing
      BY DEF LuaInv, LuaStoppedOwesNothing, Stopped, Faultless, Live
    <2> QED
      BY <2>1, <2>2, <2>3 DEF LuaExactlyOnce
  <1> QED
    BY <1>1, LuaInit, LuaStep, PTL DEF LuaIpcSpec
=============================================================================
