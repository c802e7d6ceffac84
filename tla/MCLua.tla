------------------------------- MODULE MCLua --------------------------------
(***************************************************************************)
(* How Lua states of different processes share data: lazy atomics, Lua     *)
(* messages, and the copying and packing of Lua values.  Which one is used *)
(* is chosen at the start; the others stay as they are.                    *)
(***************************************************************************)
EXTENDS LazyAtomics, LuaIpc, LuaCopy, TLC

CONSTANT Parts
VARIABLE which
vars == <<atomicVars, luaIpcVars, copyVars, which>>

-----------------------------------------------------------------------------
(* Source heaps of three objects, which the first one can reach, with      *)
(* cycles, shared objects, metatables and packages, and a coroutine, which *)
(* cannot be copied.                                                       *)

Obj(kind, items, meta, pkg) ==
  [kind |-> kind, items |-> items, meta |-> meta, pkg |-> pkg,
   preload |-> 0, metafn |-> FALSE]
Scalar == <<"scalar", 1>>
Ref(o) == <<"ref", o>>
\* With an int of 2 bits, 1 fits and 2 does not.
Values == {<<"int", 1>>, <<"int", 2>>, Ref(1), Ref(2), Ref(3)}
OwnItems == {<<>>, <<Ref(1), Ref(3)>>}

FirstObjects ==
  {Obj("table", <<a, b>>, m, "no") : a \in Values, b \in Values, m \in {0, 2, 3}}
SecondObjects ==
  {[Obj(k, s, 0, "no") EXCEPT !.metafn = f] :
     k \in {"table", "function", "userdata"}, s \in OwnItems, f \in BOOLEAN}
  \cup {[Obj("table", s, 0, p) EXCEPT !.preload = q] :
          p \in {"loaded", "direct"}, s \in OwnItems, q \in {0, 3}}
ThirdObjects ==
  {Obj("table", s, 0, "no") : s \in {<<>>, <<Scalar, Ref(1)>>, <<Ref(2), Ref(3)>>}}
  \cup {Obj("function", <<Ref(x)>>, 0, "no") : x \in {2, 4}}
  \cup {Obj("cfunction", <<Scalar>>, 0, "no"), Obj("thread", <<>>, 0, "no"),
        Obj("globals", <<>>, 0, "loaded")}

\* A metatable is a table.
MCHeaps ==
  {h \in {<<a, b, c, Obj("thread", <<>>, 0, "no")>> :
            a \in FirstObjects, b \in SecondObjects, c \in ThirdObjects} :
     h[1].meta # 0 => h[h[1].meta].kind = "table"}
SomeHeap == CHOOSE h \in LuaHeaps : TRUE
-----------------------------------------------------------------------------
Init ==
  /\ which \in Parts
  /\ AtomicInit /\ LuaIpcInit
  /\ CopyInit /\ (which # "copy" => heap = SomeHeap)
Atomic == which = "atomic" /\ AtomicNext /\ UNCHANGED <<luaIpcVars, copyVars>>
Ipc == which = "ipc" /\ LuaIpcNext /\ UNCHANGED <<atomicVars, copyVars>>
Copy == which = "copy" /\ CopyNext /\ UNCHANGED <<atomicVars, luaIpcVars>>
Next == (Atomic \/ Ipc \/ Copy) /\ UNCHANGED which

\* Every process goes on with its event loop.
Fairness ==
  \A p \in LProcs :
    WF_vars(/\ which = "ipc" /\ LuaIpcStep(p)
            /\ UNCHANGED <<atomicVars, copyVars, which>>)
Spec == Init /\ [][Next]_vars /\ Fairness
=============================================================================
