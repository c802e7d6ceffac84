---------------------------- MODULE LazyAtomics -----------------------------
(***************************************************************************)
(* A lazy atomic (lazy_atomics.c): a value in shared memory whose type     *)
(* changes at run time.  Each type has a field of its own; "typemix" holds *)
(* the type of the value together with a counter of its updates.  A set    *)
(* stores the field and then changes typemix by compare-and-swap; a get    *)
(* reads the type and then the field.  Booleans, floating-point numbers    *)
(* and pointers are stored and read alike and are the type "scalar" here.  *)
(***************************************************************************)
EXTENDS Integers, FiniteSets

CONSTANTS
  AtomicProcs,    \* processes and threads that hold the atomic
  AtomicTypes,    \* types of the values they set
  AtomicFresh,    \* what memory of the slab that was never set may hold
  MaxAtomicOps,   \* bound on the operations begun
  MaxStrings      \* bound on the shared strings in use at a time

VARIABLES
  atomic,         \* the shared value
  strings,        \* the shared strings in use
  aproc,          \* what each process does
  aops,           \* operations begun
  overlap,        \* history: who updated typemix since the process read it
  afault          \* history: what went wrong with shared memory

atomicVars == <<atomic, strings, aproc, aops, overlap, afault>>

NIL == 0
GARBAGE == MaxStrings + 1
AllAtomicTypes == {"nil", "scalar", "integer", "string"}

ASSUME AtomicAssumption ==
  /\ AtomicTypes \subseteq AllAtomicTypes \cup {"empty", "table"}
  /\ AtomicFresh \subseteq {NIL, GARBAGE} /\ AtomicFresh # {}
  /\ MaxAtomicOps \in Nat /\ MaxStrings \in Nat

AtomicIdle == [pc |-> "idle", type |-> "nil", old |-> 0, str |-> NIL]
Doing(p, pc) == aproc[p].pc = pc

\* Lua_lazy_atomics_value_create without a value, as atomics.lua calls it; the
\* others are given its address by gxcopy.  Only typemix is written: the field
\* of the strings keeps what the memory held, "fresh" (a history field).
AtomicInit ==
  /\ \E s \in AtomicFresh :
       atomic = [live |-> TRUE, count |-> 0, type |-> "nil", string |-> s,
                 written |-> {"nil"}, fresh |-> s]
  /\ strings = {} /\ aops = 0 /\ afault = {}
  /\ aproc = [p \in AtomicProcs |-> AtomicIdle]
  /\ overlap = [p \in AtomicProcs |-> {}]

DoNext(p, next) == aproc' = [aproc EXCEPT ![p] = next]

AtomicBegin(p) == Doing(p, "idle") /\ atomic.live /\ aops < MaxAtomicOps
                    /\ aops' = aops + 1

\* Lua_lazy_atomics_value_set reads typemix, and refuses what it cannot hold.
SetBegins(p) ==
  /\ AtomicBegin(p)
  /\ \E t \in AtomicTypes :
       /\ t \in {"string", "empty"} => Cardinality(strings) < MaxStrings
       /\ IF t = "table" THEN UNCHANGED aproc
          ELSE DoNext(p, [AtomicIdle EXCEPT !.pc = "store", !.type = t,
                                    !.old = atomic.count])
  /\ overlap' = [overlap EXCEPT ![p] = {}]
  /\ UNCHANGED <<atomic, strings, afault>>

\* Mutant: an integer is stored in the field of the numbers.
SetStores_WrongField(p) ==
  /\ Doing(p, "store") /\ aproc[p].type \notin {"string", "empty"}
  /\ atomic' = [atomic EXCEPT !.written = @ \cup
        {IF aproc[p].type = "integer" THEN "scalar" ELSE aproc[p].type}]
  /\ DoNext(p, [aproc[p] EXCEPT !.pc = "update"])
  /\ UNCHANGED <<strings, aops, overlap, afault>>
\* ... and stores the field of the type.
SetStores(p) ==
  /\ Doing(p, "store") /\ aproc[p].type \notin {"string", "empty"}
  /\ atomic' = [atomic EXCEPT !.written = @ \cup {aproc[p].type}]
  /\ DoNext(p, [aproc[p] EXCEPT !.pc = "update"])
  /\ UNCHANGED <<strings, aops, overlap, afault>>

\* A string is copied to a block of the slab and exchanged for the old one.
\* Of an empty string the block is allocated and the set refused.
SetAllocates(p) ==
  /\ Doing(p, "store") /\ aproc[p].type \in {"string", "empty"}
  /\ \E s \in (1..MaxStrings) \ strings :
       /\ strings' = strings \cup {s}
       /\ IF aproc[p].type = "empty"
          THEN DoNext(p, AtomicIdle) /\ afault' = afault \cup {"leak"}
          ELSE /\ DoNext(p, [aproc[p] EXCEPT !.pc = "exchange", !.str = s])
               /\ UNCHANGED afault
  /\ UNCHANGED <<atomic, aops, overlap>>
\* Mutant: the string that was there is not freed.
SetExchanges_Keeps(p) ==
  /\ Doing(p, "exchange")
  /\ atomic' = [atomic EXCEPT !.string = aproc[p].str,
                              !.written = @ \cup {"string"}]
  /\ DoNext(p, [aproc[p] EXCEPT !.pc = "update", !.str = NIL])
  /\ UNCHANGED <<strings, aops, overlap, afault>>
SetExchanges(p) ==
  /\ Doing(p, "exchange")
  /\ atomic' = [atomic EXCEPT !.string = aproc[p].str,
                              !.written = @ \cup {"string"}]
  /\ DoNext(p, [aproc[p] EXCEPT
               !.pc = IF atomic.string = NIL THEN "update" ELSE "free",
               !.str = atomic.string])
  /\ UNCHANGED <<strings, aops, overlap, afault>>

\* shuso_shared_slab_free of a string that was exchanged or destroyed.  What
\* fresh memory held may be the address of a block in use by now, or of none.
Freed(s) ==
  IF s = GARBAGE
  THEN /\ strings' \in {strings} \cup {strings \ {t} : t \in strings}
       /\ afault' = afault \cup {"foreign"}
  ELSE /\ strings' = strings \ {s}
       /\ afault' = IF s \in strings THEN afault ELSE afault \cup {"twice"}
SetFrees(p) ==
  /\ Doing(p, "free") /\ Freed(aproc[p].str)
  /\ DoNext(p, [aproc[p] EXCEPT !.pc = "update", !.str = NIL])
  /\ UNCHANGED <<atomic, aops, overlap>>

\* Mutant: typemix holds the type alone, without a counter.
UpdateType_NoCount(a, p) == [a EXCEPT !.type = aproc[p].type]
\* update_type_safely
UpdateType(a, p) ==
  [a EXCEPT !.type = aproc[p].type, !.count = aproc[p].old + 1]
SetUpdates(p) ==
  /\ Doing(p, "update")
  /\ IF atomic.count = aproc[p].old
     THEN /\ atomic' = UpdateType(atomic, p)
          /\ overlap' = [q \in AtomicProcs |->
                           IF q = p THEN {} ELSE overlap[q] \cup {p}]
     ELSE UNCHANGED <<atomic, overlap>>
  /\ DoNext(p, AtomicIdle)
  /\ UNCHANGED <<strings, aops, afault>>

\* Lua_lazy_atomics_value_get: the type, then the field, then its bytes.
GetBegins(p) ==
  /\ AtomicBegin(p)
  /\ DoNext(p, [AtomicIdle EXCEPT !.pc = "get", !.type = atomic.type])
  /\ UNCHANGED <<atomic, strings, overlap, afault>>
GetReads(p) ==
  /\ Doing(p, "get")
  /\ DoNext(p, IF aproc[p].type = "string"
             THEN [aproc[p] EXCEPT !.pc = "copy", !.str = atomic.string]
             ELSE AtomicIdle)
  /\ UNCHANGED <<atomic, strings, aops, overlap, afault>>
GetCopies(p) == Doing(p, "copy") /\ DoNext(p, AtomicIdle)
                  /\ UNCHANGED <<atomic, strings, aops, overlap, afault>>

\* Lua_lazy_atomics_value_increment: the type is read, then the integer.
IncrementBegins(p) ==
  /\ AtomicBegin(p)
  /\ DoNext(p, IF atomic.type = "integer"
             THEN [AtomicIdle EXCEPT !.pc = "add", !.type = "integer"] ELSE AtomicIdle)
  /\ UNCHANGED <<atomic, strings, overlap, afault>>
IncrementAdds(p) == Doing(p, "add") /\ DoNext(p, AtomicIdle)
                      /\ UNCHANGED <<atomic, strings, aops, overlap, afault>>

\* Lua_lazy_atomics_value_destroy, by the last process that uses the value: it
\* "assumes the value is no longer in use".
AtomicDestroy ==
  /\ atomic.live /\ \A p \in AtomicProcs : Doing(p, "idle")
  /\ IF atomic.string = NIL THEN UNCHANGED <<strings, afault>>
     ELSE Freed(atomic.string)
  /\ atomic' = [atomic EXCEPT !.live = FALSE, !.string = NIL]
  /\ UNCHANGED <<aproc, aops, overlap>>

AtomicNext ==
  \/ \E p \in AtomicProcs :
       \/ SetBegins(p) \/ SetStores(p) \/ SetAllocates(p) \/ SetExchanges(p)
       \/ SetFrees(p) \/ SetUpdates(p) \/ GetBegins(p) \/ GetReads(p)
       \/ GetCopies(p) \/ IncrementBegins(p) \/ IncrementAdds(p)
  \/ AtomicDestroy
-----------------------------------------------------------------------------
(* Properties.                                                             *)

\* However sets overlap, every shared string is freed at most once, only
\* strings of this atomic are, and without empty strings none is left when
\* the value is destroyed.  Of memory that held something else create clears
\* typemix alone, and the first set of a string or destroy frees what it held:
\* from then on nothing is claimed, but with cleared memory it never happens.
AtomicStringsFreed ==
  /\ atomic.fresh = NIL => "foreign" \notin afault
  /\ "foreign" \notin afault =>
       /\ afault \subseteq {"leak"}
       /\ ~atomic.live /\ afault = {} => strings = {}

\* A get or an increment that saw a type, however stale, reads a field that a
\* set has stored.
AtomicReadsStored ==
  \A p \in AtomicProcs :
    aproc[p].pc \in {"get", "copy", "add"} => aproc[p].type \in atomic.written

\* Of two sets that overlap, at most one is told that it succeeded.
AtomicSetsExclude ==
  \A p \in AtomicProcs :
    Doing(p, "update") /\ atomic.count = aproc[p].old => overlap[p] = {}

\* "so even if the type value is stale, the stale data is still present"
\* (comment in Lua_lazy_atomics_value_get): the string a get copies is in use.
AtomicStaleDataPresent ==
  \A p \in AtomicProcs : Doing(p, "copy") => aproc[p].str \in strings

\* A reader finds the field of the type it saw stored, and of the sets that
\* overlap one succeeds.
AtomicSound == AtomicReadsStored /\ AtomicSetsExclude
=============================================================================
