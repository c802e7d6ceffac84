----------------------------- MODULE FdPassing ------------------------------
(***************************************************************************)
(* Descriptors sent from one process to another (ipc.c): the sender queues *)
(* a message per descriptor and resumes the coroutine that sends them; the *)
(* receiver's coroutine gives each to the receiver whose number (its ref)  *)
(* the message carries, or closes it.  Receivers may have a timeout.       *)
(*                                                                         *)
(* "io" is the sender's shuso_io_t.  The socket between the two processes  *)
(* holds WireMax messages; one message is moved whole.                     *)
(***************************************************************************)
EXTENDS Io, Buffer

CONSTANTS
  WireMax,     \* messages the socket holds
  MaxFds,      \* bound on the descriptors sent
  MaxRefs,     \* bound on the receivers at a time
  MaxStarts    \* bound on the receivers started

VARIABLES
  fdbuf,       \* send->fd_msg_buf: links with the number of the descriptor
  fdstage,       \* ipc_send_fd_coroutine: "start", or "sent" after its yield
  msg,         \* io->msg: the link that sendmsg is given
  wire,        \* the socket: descriptors, in order
  got,         \* descriptors received: [fd, to], to = NoRef when closed
  rx,          \* the receiving coroutine runs
  refs,        \* fd_receivers: ref -> the receiver started, 0 if none
  slot,        \* fd_receivers["timer"]: [owner, ref] of the last timer
  timers,      \* active timers: [owner, ref]
  started,     \* history: receivers started
  ended,       \* history: [owner, by] of receivers that ended
  fault        \* history: "blocked", "error", "freed", "clobbered"

fdVars == <<io, at, upd, xfer, ops, fdbuf, fdstage, msg, wire, got, rx, refs,
            slot, timers, started, ended, fault>>
sendVars == <<io, at, upd, xfer, ops, fdbuf, fdstage, msg>>
recvVars == <<got, rx, refs, slot, timers, started, ended>>

NoRef == 0
NoTimer == [owner |-> 0, ref |-> NoRef]

ASSUME FdAssumption ==
  /\ WireMax \in Nat /\ MaxFds \in Nat /\ MaxStarts \in Nat
  /\ MaxRefs \in Nat \ {0}

\* shuso_ipc_channel_local_init, _start
FdInit ==
  /\ io = IoNew({"w"}, FALSE) /\ at = "loop" /\ upd = FALSE
  /\ xfer = [total |-> 0, next |-> 0, skew |-> FALSE] /\ ops = 0
  /\ fdbuf = buffer_init("heap") /\ fdstage = "start" /\ msg = NoLink
  /\ wire = <<>> /\ got = <<>> /\ rx = TRUE
  /\ refs = [r \in 1..MaxRefs |-> 0]
  /\ slot = NoTimer /\ timers = {} /\ started = 0 /\ ended = {}
  /\ fault = {}
-----------------------------------------------------------------------------
(* The sender.                                                             *)

\* shuso_ipc_send_fd: queue, and run the coroutine wherever it stands.
shuso_ipc_send_fd ==
  /\ at = "loop" /\ Len(fdbuf.link) < MaxFds
  /\ fdbuf' = buffer_add(fdbuf, Len(fdbuf.link) + 1)
  /\ RunHandler(io)
  /\ fault' = fault \cup (IF io.watch = "retry" THEN {"blocked"} ELSE {})
  /\ UNCHANGED <<io, xfer, ops, fdstage, msg, wire, recvVars>>

\* ipc_send_fd_coroutine, up to its next yield or its end
SendNext(b) ==
  IF ~io.error /\ buffer_next(b) # NoLink
  THEN /\ msg' = buffer_next(b) /\ fdstage' = "sent"
       /\ io' = [io EXCEPT !.op = "writev", !.result = 0, !.error = FALSE,
                           !.repeat = TRUE, !.iov = Entries(<<1>>),
                           !.tmp = FALSE]
       /\ xfer' = [total |-> 1, next |-> 0, skew |-> FALSE]
       /\ at' = "call" /\ UNCHANGED <<upd, ops>>
  ELSE /\ fdstage' = "start" /\ UNCHANGED msg
       /\ Return("loop")
\* Mutant: a message that was sent is freed and stays queued.
ipc_send_fd_coroutine_Queued ==
  /\ at = "handler"
  /\ LET b == IF fdstage = "sent" THEN buffer_free(fdbuf, fdbuf.first)
              ELSE fdbuf
     IN  fdbuf' = b /\ SendNext(b)
  /\ UNCHANGED <<wire, recvVars, fault>>
ipc_send_fd_coroutine ==
  /\ at = "handler"
  /\ LET b == IF fdstage = "sent"
              THEN buffer_free(buffer_dequeue(fdbuf), fdbuf.first) ELSE fdbuf
     IN  fdbuf' = b /\ SendNext(b)
  /\ UNCHANGED <<wire, recvVars, fault>>

SendMsg ==
  /\ Len(wire) < WireMax
  /\ CallMoves
  /\ wire' = Append(wire, fdbuf.link[msg].data)
  /\ fault' = fault \cup (IF fdbuf.link[msg].live THEN {} ELSE {"freed"})
  /\ UNCHANGED <<fdbuf, fdstage, msg, recvVars>>
SendBlocks ==
  /\ Len(wire) = WireMax
  /\ CallBlocks
  /\ UNCHANGED <<fdbuf, fdstage, msg, wire, recvVars, fault>>
SendFails ==
  /\ CallFails
  /\ fault' = fault \cup {"error"}
  /\ UNCHANGED <<fdbuf, fdstage, msg, wire, recvVars>>
SendEvent ==
  /\ Len(wire) < WireMax
  /\ Event({"w"})
  /\ UNCHANGED <<fdbuf, fdstage, msg, wire, recvVars, fault>>
-----------------------------------------------------------------------------
(* The receiver.  A descriptor is sent for the receiver at ref 1.          *)

\* ipc_receive_msg_fd_coroutine, ipc_handle_received_socket
FdReceive ==
  /\ rx /\ wire # <<>>
  /\ got' = Append(got, [fd |-> Head(wire), to |-> refs[1]])
  /\ wire' = Tail(wire)
  /\ UNCHANGED <<sendVars, rx, refs, slot, timers, started, ended, fault>>
\* An error of recvmsg, or shuso_ipc_channel_local_stop, ends the coroutine.
\* The stop looks for receivers to cancel among the keys that are tables;
\* no key is.
FdReceiveEnds ==
  /\ rx /\ rx' = FALSE
  /\ UNCHANGED <<sendVars, wire, got, refs, slot, timers, started, ended,
                 fault>>

\* shuso_ipc_receive_fd_start: luaL_ref gives the number that was free last,
\* the timer goes to the one slot of the table.
FreeRefs == {r \in DOMAIN refs : refs[r] = 0}
shuso_ipc_receive_fd_start(timeout) ==
  /\ started < MaxStarts /\ FreeRefs # {}
  /\ LET r == CHOOSE x \in FreeRefs : \A y \in FreeRefs : x <= y
         t == [owner |-> started + 1, ref |-> r]
     IN  /\ refs' = [refs EXCEPT ![r] = started + 1]
         /\ slot' = IF timeout THEN t ELSE slot
         /\ timers' = IF timeout THEN timers \cup {t} ELSE timers
  /\ fault' = fault \cup (IF timeout /\ slot \in timers
                          THEN {"clobbered"} ELSE {})
  /\ started' = started + 1
  /\ UNCHANGED <<sendVars, wire, got, rx, ended>>

\* shuso_ipc_receive_fd_stop_generic, without callback: the timer it stops is
\* the one in the slot.
Finish(r, by) ==
  /\ refs' = [refs EXCEPT ![r] = 0]
  /\ timers' = timers \ {slot, by}
  /\ ended' = ended \cup {[owner |-> refs[r], by |-> by.owner]}
shuso_ipc_receive_fd_finish(r) ==
  /\ refs[r] # 0
  /\ Finish(r, NoTimer)
  /\ UNCHANGED <<sendVars, wire, got, rx, slot, started, fault>>
\* ipc_receive_fd_timeout_cb: its timer is not active any more.
ipc_receive_fd_timeout_cb(t) ==
  /\ t \in timers
  /\ IF refs[t.ref] # 0 THEN Finish(t.ref, t)
     ELSE timers' = timers \ {t} /\ UNCHANGED <<refs, ended>>
  /\ UNCHANGED <<sendVars, wire, got, rx, slot, started, fault>>

FdNext ==
  \/ shuso_ipc_send_fd \/ ipc_send_fd_coroutine
  \/ SendMsg \/ SendBlocks \/ SendFails \/ SendEvent
  \/ FdReceive \/ FdReceiveEnds
  \/ \E timeout \in BOOLEAN : shuso_ipc_receive_fd_start(timeout)
  \/ \E r \in 1..MaxRefs : shuso_ipc_receive_fd_finish(r)
  \/ \E t \in timers : ipc_receive_fd_timeout_cb(t)
-----------------------------------------------------------------------------
(* Properties.                                                             *)

\* As long as no call failed and none was made while the one before was
\* blocked, the descriptors handed over are received, on the wire or queued,
\* each once and in order; the one that is being sent may be both queued and
\* on the wire.
FdExactlyOnce ==
  fault \cap {"blocked", "error", "freed"} = {} =>
    LET there == [i \in DOMAIN got |-> got[i].fd] \o wire
        rest == Queued(fdbuf)
    IN  /\ \A i \in DOMAIN there : there[i] = i
        /\ \A i \in DOMAIN rest : rest[i] = Len(fdbuf.link) - Len(rest) + i
        /\ Len(fdbuf.link) \in {Len(there) + Len(rest),
                                Len(there) + Len(rest) - 1}

\* No message is sent from freed memory unless a send was attempted while
\* another was blocked: only that resumes the coroutine behind the back of
\* the watcher (shuso_io_resume in shuso_ipc_send_fd).
FdMessageLive == "freed" \in fault => "blocked" \in fault

\* While no timer was started over an active one, a timeout ends the receiver
\* it was started for, and a receiver that ended has no timer left to end
\* another that was given its number.
FdTimeoutOwn ==
  "clobbered" \notin fault =>
    /\ \A e \in ended : e.by \in {0, e.owner}
    /\ \A t \in timers : refs[t.ref] = t.owner

\* Descriptors arrive once and in order, nothing is sent from freed memory,
\* and a timeout ends only its own receiver, but for the faults named above.
FdDelivered == FdExactlyOnce /\ FdMessageLive /\ FdTimeoutOwn
=============================================================================
