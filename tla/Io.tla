--------------------------------- MODULE Io ---------------------------------
(***************************************************************************)
(* The IO coroutines (io.c) over the event loop (io_libev.c).  A coroutine *)
(* starts an operation; the system call is made at once, and the handler   *)
(* runs when it is done.  A call that would block, or that moved only a    *)
(* part of what was asked for, arms the watcher, whose event repeats it.   *)
(*                                                                         *)
(* Operations are taken in classes: "read" and "write" move one buffer     *)
(* (read, recv, recvfrom; write, send, sendto), "readv" and "writev" a     *)
(* vector (and the vector of recvmsg and sendmsg).  A buffer is a vector   *)
(* of one entry.  An entry is [base, len]: base is its place in the whole  *)
(* of what is to be moved, so that a byte moved twice or out of turn shows.*)
(*                                                                         *)
(* The copy of io.c:169 runs past the end of the temporary vector when the *)
(* cut entry is not the first.  That is undefined: either the process dies *)
(* of it ("overrun"), or nothing in use was overwritten and it goes on.    *)
(***************************************************************************)
EXTENDS Integers, Sequences, FiniteSets

CONSTANTS
  IoVectors,   \* the vectors asked for: sequences of lengths
  IoErrors,    \* whether calls fail
  MaxOps       \* bound on the operations of one coroutine

VARIABLES
  io,          \* the shuso_io_t
  at,          \* where the thread is, see At
  upd,         \* a handler is on the stack: its caller updates the watcher
  xfer,        \* history: [total, next, skew] of the operation
  ops          \* history: operations started

ioVars == <<io, at, upd, xfer, ops>>

BufOps == {"read", "write"}
VecOps == {"readv", "writev"}
ReadOps == {"read", "readv"}
\* shuso_io_opcode_t, shuso_io_watch_type_t
IoOps == BufOps \cup VecOps \cup {"accept", "connect", "close"}
Polls == {"poll_r", "poll_w", "poll_rw"}
Watches == {"none", "finish", "retry"} \cup Polls
\* In the event loop, in a system call, about to run the handler or the
\* error handler, stopped by SIGABRT, dead of an overrun, or done with.
At == {"loop", "call", "handler", "errh", "abort", "overrun", "end"}

ASSUME IoAssumption ==
  /\ \A v \in IoVectors : v \in Seq(Nat \ {0}) /\ Len(v) > 0
  /\ IoErrors \in BOOLEAN /\ MaxOps \in Nat

Sum(v) == LET s[i \in 0..Len(v)] == IF i = 0 THEN 0 ELSE s[i - 1] + v[i]
          IN  s[Len(v)]
Entries(v) == [i \in DOMAIN v |-> [base |-> Sum(SubSeq(v, 1, i - 1)),
                                   len |-> v[i]]]
Left(iov) == Sum([i \in DOMAIN iov |-> iov[i].len])
-----------------------------------------------------------------------------
(* The watcher.                                                            *)

\* Mutant: a watcher is started when needed and never stopped.
watch_update_Starts(x) == [x EXCEPT !.active = @ \/ x.watch # "none"]
\* shuso_io_ev_watch_update
watch_update(x) == [x EXCEPT !.active = x.watch # "none"]
Armed(x, w) == watch_update([x EXCEPT !.watch = w])

\* __shuso_io_init_socket, for reading, writing or both
IoNew(rw, catches) ==
  [op |-> "none", iov |-> <<>>, tmp |-> FALSE, repeat |-> FALSE,
   result |-> 0, error |-> FALSE, watch |-> "none", active |-> FALSE,
   closed |-> {}, rw |-> rw, catches |-> catches]

\* shuso_io_run_handler: with an error handler the watcher is left alone.
RunHandler(x) ==
  IF x.catches /\ x.result = -1
  THEN at' = "errh" /\ upd' = upd
  ELSE at' = "handler" /\ upd' = TRUE

\* The handlers on the stack return, up to the event loop.
Returned(x) == IF upd THEN watch_update(x) ELSE x
-----------------------------------------------------------------------------
(* Moving bytes.                                                           *)

\* The first entry that n bytes do not fill, or Len(iov) + 1.
Reached(iov, n) ==
  CHOOSE i \in 1..(Len(iov) + 1) :
    /\ Left(SubSeq(iov, 1, i - 1)) <= n
    /\ i <= Len(iov) => Left(SubSeq(iov, 1, i)) > n

\* io_iovec_update_on_incomplete_op, in the middle of an entry: the rest is
\* copied to a temporary vector and its first entry cut.  Once there is a
\* temporary vector the entry is not cut any more, so that what has been
\* moved of it is moved again.
Incomplete(x, i, off) ==
  LET rest == SubSeq(x.iov, i, Len(x.iov))
      cut == [rest EXCEPT ![1].len = @ - off, ![1].base = @ + off]
  IN  [x EXCEPT !.iov = IF x.tmp THEN rest ELSE cut, !.tmp = TRUE]

\* io_iovec_op_update_and_check_completion: [io, done].  Bytes that end at
\* the end of an entry leave nothing unaccounted for.
VecUpdate(x, n) ==
  LET i == Reached(x.iov, n)
      off == n - Left(SubSeq(x.iov, 1, i - 1))
  IN  IF off > 0 THEN [io |-> Incomplete(x, i, off), done |-> FALSE]
      ELSE [io |-> x, done |-> TRUE]

\* Mutant: the buffer is shortened, but its start is not moved.
BufUpdate_SameStart(x, n) ==
  LET e == [base |-> x.iov[1].base, len |-> x.iov[1].len - n]
  IN  [io |-> [x EXCEPT !.iov = <<e>>], done |-> e.len = 0]
BufUpdate(x, n) ==
  LET e == [base |-> x.iov[1].base + n, len |-> x.iov[1].len - n]
  IN  [io |-> [x EXCEPT !.iov = <<e>>], done |-> e.len = 0]

\* shuso_io_op_update_and_check_completion
Update(x, n) ==
  CASE x.op \in BufOps -> BufUpdate(x, n)
    [] x.op \in VecOps -> VecUpdate(x, n)
    [] OTHER -> [io |-> x, done |-> TRUE]

\* shuso_io_update_fd_closed_status_from_op_result
Closed(x, n) ==
  LET dir == IF x.op \in ReadOps THEN "r" ELSE "w"
  IN  IF x.op \in BufOps \cup VecOps
      THEN [x EXCEPT !.closed = IF n = 0 THEN @ \cup {dir} ELSE @ \ {dir}]
      ELSE x

\* shuso_io_op_cleanup
Cleanup(x) == IF x.op \in VecOps THEN [x EXCEPT !.tmp = FALSE] ELSE x

\* n bytes end in the middle of an entry, whose rest needs a temporary vector.
NeedsTemporary(x, n) ==
  /\ x.op \in VecOps /\ x.repeat /\ ~x.tmp
  /\ n > Left(SubSeq(x.iov, 1, Reached(x.iov, n) - 1))

\* What a call that moves n bytes takes from the vector it was given.
Moved(iov, n) ==
  IF n = 0 THEN xfer
  ELSE [xfer EXCEPT !.next = iov[1].base + n,
                    !.skew = @ \/ iov[1].base # xfer.next]
-----------------------------------------------------------------------------
(* System calls: shuso_io_ev_operation.  A call that a signal interrupts   *)
(* is made again, so no outcome stands for it.                             *)

CallDone(n) ==
  LET x == Closed(io, n)
      u == IF n # 0 /\ io.repeat THEN Update(x, n)
           ELSE [io |-> x, done |-> TRUE]
      y == [u.io EXCEPT !.result = @ + n]
  IN  IF ~u.done
      THEN io' = Armed(y, "retry") /\ at' = "loop" /\ upd' = FALSE
      ELSE io' = Cleanup(y) /\ RunHandler(Cleanup(y))

CallFailed ==
  LET y == Cleanup([Closed(io, -1) EXCEPT !.result = -1, !.error = TRUE])
  IN  io' = y /\ RunHandler(y)

CallMoves ==
  /\ at = "call" /\ io.op \in BufOps \cup VecOps
  /\ io.result <= xfer.total   \* bound: moved again at most once
  /\ \E n \in (IF io.op \in ReadOps THEN 0 ELSE 1)..Left(io.iov) :
       CallDone(n) /\ xfer' = Moved(io.iov, n)
  /\ UNCHANGED ops

\* malloc fails in io_iovec_update_on_incomplete_op: the operation is over with
\* an error, and with the result -1 to which the bytes are then added.
CallNoMemory ==
  /\ at = "call" /\ IoErrors
  /\ \E n \in 1..Left(io.iov) :
       /\ NeedsTemporary(io, n)
       /\ LET y == Cleanup([Closed(io, n) EXCEPT !.result = n - 1,
                                                !.error = TRUE])
          IN  io' = y /\ RunHandler(y)
       /\ xfer' = Moved(io.iov, n)
  /\ UNCHANGED ops

\* The copy to the temporary vector has the bound iovcnt + iovcnt_offset where
\* there are iovcnt - iovcnt_offset entries, and kills the process.
CallOverruns ==
  /\ at = "call"
  /\ \E n \in 1..Left(io.iov) :
       NeedsTemporary(io, n) /\ Reached(io.iov, n) > 1
  /\ at' = "overrun"
  /\ UNCHANGED <<io, upd, xfer, ops>>

\* accept and close; the descriptor of accept is of no interest here.
CallPlain ==
  /\ at = "call" /\ io.op \in {"accept", "close"}
  /\ CallDone(0)
  /\ UNCHANGED <<xfer, ops>>

\* EAGAIN
CallBlocks ==
  /\ at = "call" /\ io.op \in IoOps \ {"connect", "close"}
  /\ io' = Armed(Closed(io, -1), "retry")
  /\ at' = "loop" /\ upd' = FALSE
  /\ UNCHANGED <<xfer, ops>>

\* shuso_io_ev_connect: in progress, or finished (SO_ERROR).
CallConnect ==
  /\ at = "call" /\ io.op = "connect"
  /\ \/ /\ io.watch # "finish"
        /\ io' = Armed(io, "finish") /\ at' = "loop" /\ upd' = FALSE
     \/ /\ LET x == IF io.watch = "finish" THEN Armed(io, "none") ELSE io
           IN  io' = x /\ RunHandler(x)
  /\ UNCHANGED <<xfer, ops>>

CallFails ==
  /\ at = "call" /\ IoErrors
  /\ IF io.watch = "finish"
     THEN LET y == [Armed(io, "none") EXCEPT !.result = -1, !.error = TRUE]
          IN  io' = y /\ RunHandler(y)
     ELSE CallFailed
  /\ UNCHANGED <<xfer, ops>>
-----------------------------------------------------------------------------
(* The event loop: shuso_io_ev_watcher_handler.                            *)

\* ev_opcode_retry_match_event_type
RetryMatch(op, ev) ==
  CASE op \in ReadOps -> "r" \in ev
    [] op \in {"write", "writev"} -> "w" \in ev
    [] OTHER -> TRUE
\* ev_watch_poll_match_event_type: of two events only "r" is looked at.
PollMatch(w, ev) ==
  w \in IF "r" \in ev THEN {"poll_r", "poll_rw"} ELSE {"poll_w", "poll_rw"}

\* An event that matches nothing is dropped; the loop reports it again.
Event(ev) ==
  /\ at = "loop" /\ io.active
  /\ CASE io.watch = "none" ->
            at' = "abort" /\ UNCHANGED <<io, upd>>
       [] io.watch = "finish" ->
            /\ IF "w" \in ev THEN at' = "call" ELSE at' = at
            /\ UNCHANGED <<io, upd>>
       [] io.watch = "retry" ->
            /\ IF RetryMatch(io.op, ev)
               THEN at' = "call" /\ io' = [io EXCEPT !.watch = "none"]
               ELSE UNCHANGED <<at, io>>
            /\ upd' = FALSE
       [] io.watch \in Polls ->
            IF PollMatch(io.watch, ev)
            THEN /\ io' = [io EXCEPT !.watch = "none"]
                 /\ RunHandler(io)
            ELSE UNCHANGED <<io, at, upd>>
  /\ UNCHANGED <<xfer, ops>>
-----------------------------------------------------------------------------
(* What a coroutine does.                                                  *)

\* io_op_run_new: the watch of an operation that was given up is kept.
Start(op, v, partial) ==
  /\ ops < MaxOps /\ ops' = ops + 1
  /\ io' = [io EXCEPT !.op = op, !.result = 0, !.error = FALSE,
              !.repeat = ~partial, !.iov = Entries(v),
              !.tmp = IF op \in VecOps THEN FALSE ELSE @]
  /\ xfer' = [total |-> Sum(v), next |-> 0, skew |-> FALSE]
  /\ at' = "call"
  /\ UNCHANGED upd

\* shuso_io_wait
Wait(w) ==
  /\ ops < MaxOps /\ ops' = ops + 1
  /\ io' = [Armed(io, w) EXCEPT !.error = FALSE, !.result = 0]
  /\ at' = "loop" /\ upd' = FALSE
  /\ UNCHANGED xfer

\* SHUSO_IO_CORO_END, or the end of the error handler
Return(to) ==
  /\ io' = Returned(io)
  /\ at' = to /\ upd' = FALSE
  /\ UNCHANGED <<xfer, ops>>

\* shuso_io_stop: the handler hears of it, then shuso_io_abort.  The
\* coroutine ends when it sees the error.
Aborted(x) == [Armed(Cleanup(x), "none") EXCEPT !.error = TRUE, !.result = -1]
IoStop ==
  /\ at = "loop"
  /\ io' = Aborted(io)
  /\ at' = "end" /\ upd' = FALSE
  /\ UNCHANGED <<xfer, ops>>

IoInit(rws, catches) ==
  /\ \E rw \in rws : io = IoNew(rw, catches)
  /\ at = "handler" /\ upd = TRUE
  /\ xfer = [total |-> 0, next |-> 0, skew |-> FALSE]
  /\ ops = 0

Operation(readvs) ==
  \/ \E op \in BufOps, v \in IoVectors, p \in BOOLEAN :
       Len(v) = 1 /\ Start(op, v, p)
  \/ \E op \in readvs, v \in IoVectors, p \in BOOLEAN : Start(op, v, p)
  \/ \E op \in {"accept", "connect", "close"} : Start(op, <<1>>, FALSE)

\* The event loop and the system.
IoSystem ==
  \/ CallMoves \/ CallNoMemory \/ CallOverruns
  \/ CallPlain \/ CallBlocks \/ CallConnect \/ CallFails
  \/ \E ev \in (SUBSET {"r", "w"}) \ {{}} : ev \subseteq io.rw /\ Event(ev)

\* A coroutine that starts one operation after the other.
IoClient ==
  /\ at = "handler"
  /\ \/ Operation(VecOps)
     \/ \E w \in Polls : Wait(w)
     \/ Return("end")
IoNext == IoSystem \/ IoClient \/ IoStop
-----------------------------------------------------------------------------
(* Properties.                                                             *)

IoTypeOK ==
  /\ io.op \in IoOps \cup {"none"} /\ io.watch \in Watches /\ at \in At
  /\ io.active \in BOOLEAN /\ io.tmp \in BOOLEAN /\ io.error \in BOOLEAN
  /\ io.closed \subseteq {"r", "w"} /\ upd \in BOOLEAN
  /\ io.result \in -1..(2 * xfer.total)

Moving(S) == io.op \in S /\ ~io.error
\* However a read or a write of one buffer is cut up and interrupted, no
\* byte is moved twice or left out, and the coroutine resumes with the
\* number of bytes moved: all of them, unless it asked for a part or the
\* other end has closed.
IoBufExact ==
  /\ io.op \in BufOps => ~xfer.skew
  /\ at = "handler" /\ Moving(BufOps) /\ io.result > 0 =>
     /\ io.result = xfer.next
     /\ io.repeat /\ io.closed = {} => xfer.next = xfer.total

\* The same of vectors (the comment of
\* io_iovec_op_update_and_check_completion: an operation is complete when
\* there is no more of the vector to move, or an error).
IoVecComplete ==
  at = "handler" /\ Moving(VecOps) /\ io.repeat /\ io.closed = {}
    /\ io.result > 0 => xfer.next = xfer.total

\* In the event loop the watcher is active exactly when the coroutine waits
\* for it, so a blocked operation is woken and a finished one is not: the
\* "should never happen" of shuso_io_ev_watcher_handler.  This is of
\* coroutines without an error handler.
IoWatched ==
  ~io.catches =>
    /\ at = "loop" => (io.active <=> io.watch # "none")
    /\ at = "end" => ~io.active
    /\ at # "abort"

\* The temporary vector of an interrupted operation is freed before the
\* coroutine goes on, so that no operation starts with, or ends leaving,
\* the memory of another.
IoTemporaryFreed ==
  at \in {"handler", "errh", "end"} => ~io.tmp

\* The bytes of a buffer are moved exactly once and no memory of an
\* interrupted operation is left behind, whatever blocks, is interrupted or
\* comes in parts, and though a vector's copy may fail or overrun (in a
\* process that survives it).  The bytes of a vector are not: they may be
\* moved again, or taken for moved.
IoExact == IoTypeOK /\ IoBufExact /\ IoTemporaryFreed
=============================================================================
