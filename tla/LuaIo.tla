------------------------------- MODULE LuaIo --------------------------------
(***************************************************************************)
(* IO operations called from Lua (io_lua.c).  The handler of the coroutine *)
(* in C hands the result to the coroutine in Lua: on its stack if the      *)
(* operation was done at once and Lua is still running in the call, by     *)
(* resuming it if it has yielded meanwhile (io.lua).                       *)
(***************************************************************************)
EXTENDS Io

VARIABLES
  ld,          \* shuso_lua_io_data_t: [op, complete, partial, buf, ref]
  running      \* the coroutine in Lua runs (it called, or it was resumed)

luaIoVars == <<io, at, upd, xfer, ops, ld, running>>

\* The part of the operations that Lua has.
LuaOps == {"read", "write", "accept", "connect", "close"}

\* Lua_shuso_io_create
LuaIoInit ==
  /\ IoInit({{"r", "w"}}, FALSE)
  /\ ld = [op |-> "none", complete |-> TRUE, partial |-> FALSE,
           buf |-> FALSE, ref |-> FALSE]
  /\ running = TRUE

\* lua_io_set_op_partial, called right before read or write
LuaSetPartial ==
  /\ at = "handler" /\ running /\ ~ld.partial
  /\ ld' = [ld EXCEPT !.partial = TRUE]
  /\ UNCHANGED <<io, at, upd, xfer, ops, running>>

\* LUA_IO_OP_INIT, and the part of the operation that is its own
LuaStarted(op) ==
  [ld EXCEPT !.op = op, !.complete = FALSE,
             !.partial = IF op \in BufOps THEN FALSE ELSE @,
             !.buf = @ \/ op = "read",
             !.ref = @ \/ op \in {"write", "accept"}]
LuaOp(op, v) ==
  /\ at = "handler" /\ running /\ ld.complete
  /\ Start(op, v, op \in BufOps /\ ld.partial)
  /\ ld' = LuaStarted(op)
  /\ running' = FALSE

\* lua_io_op_wait
LuaWait(w) ==
  /\ at = "handler" /\ running /\ ld.complete
  /\ Wait(w)
  /\ ld' = LuaStarted("none")
  /\ running' = FALSE

\* Mutant: an operation that failed keeps its buffer.
lua_io_handler_Keeps ==
  /\ at = "handler" /\ ~running
  /\ ld' = [ld EXCEPT !.op = "none", !.complete = TRUE,
              !.buf = @ /\ (io.error \/ ld.op # "read"),
              !.ref = @ /\ ~io.error /\ ld.op \notin {"write", "accept"}]
  /\ running' = TRUE
  /\ UNCHANGED <<io, at, upd, xfer, ops>>
\* lua_io_handler
lua_io_handler ==
  /\ at = "handler" /\ ~running
  /\ ld' = [ld EXCEPT !.op = "none", !.complete = TRUE,
              !.buf = @ /\ ~io.error /\ ld.op # "read",
              !.ref = @ /\ ~io.error /\ ld.op \notin {"write", "accept"}]
  /\ running' = TRUE
  /\ UNCHANGED <<io, at, upd, xfer, ops>>

\* The coroutine in Lua is finished.
LuaReturn ==
  /\ at = "handler" /\ running
  /\ Return("end")
  /\ UNCHANGED <<ld, running>>

\* Lua_shuso_io_gc: at the end of the Lua state, or when the coroutine is
\* finished and its reference gone.
LuaGc ==
  /\ at \in {"loop", "end"}
  /\ io' = Aborted(io) /\ at' = "end"
  /\ ld' = [ld EXCEPT !.ref = FALSE]
  /\ UNCHANGED <<upd, xfer, ops, running>>

LuaIoNext ==
  \/ IoSystem /\ UNCHANGED <<ld, running>>
  \/ LuaSetPartial
  \/ \E op \in LuaOps, v \in IoVectors : Len(v) = 1 /\ LuaOp(op, v)
  \/ \E w \in Polls : LuaWait(w)
  \/ lua_io_handler
  \/ LuaReturn
  \/ LuaGc
-----------------------------------------------------------------------------
(* Properties.                                                             *)

\* The handler runs once for every operation, and only for one that is under
\* way (the assertion of lua_io_handler), whether the operation is done at
\* once, after an event, or after several; and the operation that Lua waits
\* for is the one that runs.
LuaOneCompletion ==
  /\ at = "handler" /\ ~running => ~ld.complete
  /\ at \in {"loop", "call"} =>
       /\ ~ld.complete
       /\ io.watch \notin Polls => ld.op = io.op

\* Between operations the io object holds no buffer (the assertion of
\* lua_io_op_read) and no reference that would keep Lua data alive.
LuaIdleHoldsNothing == running => ~ld.buf /\ ~ld.ref

\* Every operation of a coroutine driven from Lua completes once, and leaves
\* nothing of itself behind.
LuaIoExact == LuaOneCompletion /\ LuaIdleHoldsNothing
=============================================================================
