------------------------------ MODULE IpcRing -------------------------------
(***************************************************************************)
(* The inbox of one process: the ring buffer shuso_ipc_ringbuf_t that any  *)
(* number of other processes and threads write to, its eventfd notice, the *)
(* notice coroutine and ipc_receive on the reading side, and per writer    *)
(* the output buffer and retry timer shuso_ipc_send falls back on.         *)
(*                                                                         *)
(* Every action makes at most one access to an atomic of the ring, in the  *)
(* order of src/src/ipc.c; all of them are sequentially consistent C11     *)
(* atomics.  A message is the pair <<w, k>>: the k-th message of writer w. *)
(* Its one-byte code and its pointer are stored separately, so both are    *)
(* represented by the message they belong to and a torn read shows up as a *)
(* code and a pointer of different messages.                               *)
(***************************************************************************)
EXTENDS Integers, Sequences, FiniteSets

CONSTANTS Writers,   \* processes and threads that send to this ring
          RingSize,  \* slots of the ring (256 in ipc.h)
          MaxSend,   \* bound: messages each writer sends
          Window     \* bound: messages of a writer its client lets be unread

ASSUME RingAssumption == /\ RingSize \in Nat \ {0}
                         /\ MaxSend \in Nat
                         /\ Window \in Nat

VARIABLES
  next_read, next_write_reserve, next_write_release, full, code, ptr, \* ring
  notice,      \* the destination's eventfd counter is not zero
  dst_state,   \* the destination's runstate, as far as a sender looks at it
  rpc, read_index, rcode, rptr, rreserve,   \* the reading thread
  pc, wmsg, windex, wread, retrying,        \* each writing thread
  outbuf,      \* S->ipc.buf of each writer, restricted to this destination
  send_retry,  \* the writer's retry timer is active
  submitted,   \* history: messages of w given to shuso_ipc_send
  received     \* history: number of the last message of w that was handled

ring   == <<next_read, next_write_reserve, next_write_release, full, code, ptr>>
reader == <<rpc, read_index, rcode, rptr, rreserve>>
writer == <<pc, wmsg, windex, wread, retrying, outbuf, send_retry>>
vars   == <<ring, notice, dst_state, reader, writer, submitted, received>>

NIL == <<>>     \* SHUTTLESOCK_IPC_CMD_NIL, and the zeroed pointer slots

Msgs  == Writers \X (1..MaxSend)
Slots == 0..(RingSize - 1)
Slot(i) == i % RingSize      \* the (uint8_t) cast of an index

ReaderSteps == {"off", "wait", "check", "readcode", "readptr", "clear",
                "advance", "handle", "iffull", "reset", "assert1", "assert2",
                "clearfull", "aborted"}
WriterSteps == {"idle", "full1", "inc", "load", "full2", "setfull",
                "ptr", "code", "release", "notice"}

(***************************************************************************)
(* shuso_ipc_channel_shared_create: zeroed memory, empty eventfd.  The     *)
(* destination has been given its channel and is STARTING; its thread has  *)
(* not started reading.                                                    *)
(***************************************************************************)
Init ==
  /\ next_read = 0 /\ next_write_reserve = 0 /\ next_write_release = 0
  /\ full = FALSE
  /\ code = [i \in Slots |-> NIL]
  /\ ptr  = [i \in Slots |-> NIL]
  /\ notice = FALSE
  /\ dst_state = "STARTING"
  /\ rpc = "off" /\ read_index = 0 /\ rcode = NIL /\ rptr = NIL /\ rreserve = 0
  /\ pc       = [w \in Writers |-> "idle"]
  /\ wmsg     = [w \in Writers |-> NIL]
  /\ windex   = [w \in Writers |-> 0]
  /\ wread    = [w \in Writers |-> 0]
  /\ retrying = [w \in Writers |-> FALSE]
  /\ outbuf   = [w \in Writers |-> <<>>]
  /\ send_retry = [w \in Writers |-> FALSE]
  /\ submitted = [w \in Writers |-> 0]
  /\ received  = [w \in Writers |-> 0]

-----------------------------------------------------------------------------
(***************************** a writing thread ****************************)

Goto(w, step) == pc' = [pc EXCEPT ![w] = step]

\* Mutant: the retry timer is not started.
OutbufAppend_NoTimer(w, m) ==
  /\ outbuf' = [outbuf EXCEPT ![w] = Append(@, m)]
  /\ UNCHANGED send_retry

\* ipc_send_outbuf_append: queue the message and make sure the timer runs.
OutbufAppend(w, m) ==
  /\ outbuf' = [outbuf EXCEPT ![w] = Append(@, m)]
  /\ send_retry' = [send_retry EXCEPT ![w] = TRUE]

\* Mutant: a message may overtake the ones already buffered.
Submit_Overtakes(w) ==
  LET m == <<w, submitted[w] + 1>> IN
  /\ pc[w] = "idle"
  /\ submitted[w] < MaxSend
  /\ submitted[w] - received[w] < Window
  /\ submitted' = [submitted EXCEPT ![w] = @ + 1]
  /\ \/ /\ dst_state = "STARTING"
        /\ OutbufAppend(w, m)
        /\ UNCHANGED <<pc, wmsg, retrying>>
     \/ /\ dst_state # "STARTING"
        /\ Goto(w, "full1")
        /\ wmsg' = [wmsg EXCEPT ![w] = m]
        /\ retrying' = [retrying EXCEPT ![w] = FALSE]
        /\ UNCHANGED <<outbuf, send_retry>>
  /\ UNCHANGED <<ring, notice, dst_state, reader, windex, wread, received>>

\* shuso_ipc_send: append behind what is already buffered, or when the
\* destination is still starting; otherwise try to send directly.
Submit(w) ==
  LET m == <<w, submitted[w] + 1>> IN
  /\ pc[w] = "idle"
  /\ submitted[w] < MaxSend
  /\ submitted[w] - received[w] < Window
  /\ submitted' = [submitted EXCEPT ![w] = @ + 1]
  /\ \/ /\ outbuf[w] # <<>> \/ dst_state = "STARTING"
        /\ OutbufAppend(w, m)
        /\ UNCHANGED <<pc, wmsg, retrying>>
     \/ /\ outbuf[w] = <<>> /\ dst_state # "STARTING"
        /\ Goto(w, "full1")
        /\ wmsg' = [wmsg EXCEPT ![w] = m]
        /\ retrying' = [retrying EXCEPT ![w] = FALSE]
        /\ UNCHANGED <<outbuf, send_retry>>
  /\ UNCHANGED <<ring, notice, dst_state, reader, windex, wread, received>>

\* ipc_send_retry_cb fires: the loop takes the first buffered message.
Retry(w) ==
  /\ pc[w] = "idle" /\ send_retry[w] /\ outbuf[w] # <<>>
  /\ Goto(w, "full1")
  /\ wmsg' = [wmsg EXCEPT ![w] = Head(outbuf[w])]
  /\ retrying' = [retrying EXCEPT ![w] = TRUE]
  /\ UNCHANGED <<ring, notice, dst_state, reader, windex, wread, outbuf,
                 send_retry, submitted, received>>

\* Mutant: a message that finds the ring full is forgotten.
SendFailed_Drops(w) == Goto(w, "idle") /\ UNCHANGED <<outbuf, send_retry>>

\* ipc_send_direct returned false: shuso_ipc_send buffers the message, the
\* retry callback leaves it where it is and rearms the timer.
SendFailed(w) ==
  /\ Goto(w, "idle")
  /\ IF retrying[w] THEN UNCHANGED <<outbuf, send_retry>>
                    ELSE OutbufAppend(w, wmsg[w])

\* ipc_send_direct returned true: the retry loop drops the buffered message
\* and goes on with the next one.
SendSucceeded(w) ==
  /\ UNCHANGED <<send_retry, retrying>>
  /\ \/ /\ ~retrying[w]
        /\ Goto(w, "idle")
        /\ UNCHANGED <<outbuf, wmsg>>
     \/ /\ retrying[w]
        /\ outbuf' = [outbuf EXCEPT ![w] = Tail(@)]
        /\ \/ /\ Len(outbuf[w]) = 1
              /\ Goto(w, "idle")
              /\ UNCHANGED wmsg
           \/ /\ Len(outbuf[w]) > 1
              /\ Goto(w, "full1")
              /\ wmsg' = [wmsg EXCEPT ![w] = outbuf[w][2]]

\* ipc_reserve_write_index: if(dstbuf->full) return false
CheckFull(w) ==
  /\ pc[w] = "full1"
  /\ \/ full /\ SendFailed(w)
     \/ ~full /\ Goto(w, "inc") /\ UNCHANGED <<outbuf, send_retry>>
  /\ UNCHANGED <<ring, notice, dst_state, reader, wmsg, windex, wread,
                 retrying, submitted, received>>

\* Mutant: the index before the reserved one.
ReserveIndex_OneBefore(w) ==
  /\ pc[w] = "inc"
  /\ windex' = [windex EXCEPT ![w] = next_write_reserve - 1]
  /\ next_write_reserve' = next_write_reserve + 1
  /\ Goto(w, "load")
  /\ UNCHANGED <<next_read, next_write_release, full, code, ptr, notice,
                 dst_state, reader, wmsg, wread, retrying, outbuf, send_retry,
                 submitted, received>>

\* next = dstbuf->index.next_write_reserve++
ReserveIndex(w) ==
  /\ pc[w] = "inc"
  /\ windex' = [windex EXCEPT ![w] = next_write_reserve]
  /\ next_write_reserve' = next_write_reserve + 1
  /\ Goto(w, "load")
  /\ UNCHANGED <<next_read, next_write_release, full, code, ptr, notice,
                 dst_state, reader, wmsg, wread, retrying, outbuf, send_retry,
                 submitted, received>>

\* next_read = dstbuf->index.next_read
LoadNextRead(w) ==
  /\ pc[w] = "load"
  /\ wread' = [wread EXCEPT ![w] = next_read]
  /\ Goto(w, "full2")
  /\ UNCHANGED <<ring, notice, dst_state, reader, wmsg, windex, retrying,
                 outbuf, send_retry, submitted, received>>

\* Mutant: one message too few.
NoRoom_OneLess(w) == windex[w] - wread[w] >= RingSize - 1

\* the second if(dstbuf->full), and the comparison with the ring's capacity
NoRoom(w) == windex[w] - wread[w] > RingSize - 1

CheckRoom(w) ==
  /\ pc[w] = "full2"
  /\ \/ full /\ SendFailed(w)
     \/ /\ ~full
        /\ Goto(w, IF NoRoom(w) THEN "setfull" ELSE "ptr")
        /\ UNCHANGED <<outbuf, send_retry>>
  /\ UNCHANGED <<ring, notice, dst_state, reader, wmsg, windex, wread,
                 retrying, submitted, received>>

\* atomic_compare_exchange_strong(&dstbuf->full, false, true); return false
SetFull(w) ==
  /\ pc[w] = "setfull"
  /\ full' = TRUE
  /\ SendFailed(w)
  /\ UNCHANGED <<next_read, next_write_reserve, next_write_release, code, ptr,
                 notice, dst_state, reader, wmsg, windex, wread, retrying,
                 submitted, received>>

\* Mutant: the code is stored in place of the pointer.
WritePtr_CodeFirst(w) ==
  /\ pc[w] = "ptr"
  /\ code' = [code EXCEPT ![Slot(windex[w])] = wmsg[w]]
  /\ Goto(w, "code")
  /\ UNCHANGED <<next_read, next_write_reserve, next_write_release, full, ptr,
                 notice, dst_state, reader, wmsg, windex, wread, retrying,
                 outbuf, send_retry, submitted, received>>

\* buf->ptr[next] = ptr
WritePtr(w) ==
  /\ pc[w] = "ptr"
  /\ ptr' = [ptr EXCEPT ![Slot(windex[w])] = wmsg[w]]
  /\ Goto(w, "code")
  /\ UNCHANGED <<next_read, next_write_reserve, next_write_release, full, code,
                 notice, dst_state, reader, wmsg, windex, wread, retrying,
                 outbuf, send_retry, submitted, received>>

\* buf->code[next] = code
WriteCode(w) ==
  /\ pc[w] = "code"
  /\ code' = [code EXCEPT ![Slot(windex[w])] = wmsg[w]]
  /\ Goto(w, "release")
  /\ UNCHANGED <<next_read, next_write_reserve, next_write_release, full, ptr,
                 notice, dst_state, reader, wmsg, windex, wread, retrying,
                 outbuf, send_retry, submitted, received>>

\* ipc_release_write_index
ReleaseIndex(w) ==
  /\ pc[w] = "release"
  /\ next_write_release' = next_write_release + 1
  /\ Goto(w, "notice")
  /\ UNCHANGED <<next_read, next_write_reserve, full, code, ptr, notice,
                 dst_state, reader, wmsg, windex, wread, retrying, outbuf,
                 send_retry, submitted, received>>

\* shuso_io_resume of the notice coroutine: write 1 to the eventfd; return true
SendNotice(w) ==
  /\ pc[w] = "notice"
  /\ notice' = TRUE
  /\ SendSucceeded(w)
  /\ UNCHANGED <<ring, dst_state, reader, windex, wread, submitted, received>>

-----------------------------------------------------------------------------
(**************************** the reading thread ***************************)

\* shuso_ipc_channel_local_start: the notice coroutine starts reading.
StartReader ==
  /\ rpc = "off"
  /\ rpc' = "wait"
  /\ UNCHANGED <<ring, notice, dst_state, read_index, rcode, rptr, rreserve,
                 writer, submitted, received>>

\* *S->process->state = SHUSO_STATE_RUNNING, once the channel is started.
BecomeRunning ==
  /\ rpc # "off" /\ dst_state = "STARTING"
  /\ dst_state' = "RUNNING"
  /\ UNCHANGED <<ring, notice, reader, writer, submitted, received>>

\* ipc_receive_notice_coroutine: the eventfd is read, which zeroes it, and
\* ipc_receive loads its starting index.
TakeNotice ==
  /\ rpc = "wait" /\ notice
  /\ notice' = FALSE
  /\ read_index' = next_read
  /\ rpc' = "check"
  /\ UNCHANGED <<ring, dst_state, rcode, rptr, rreserve, writer, submitted,
                 received>>

\* while(read_index < in->index.next_write_release)
CheckReleased ==
  /\ rpc = "check"
  /\ rpc' = IF read_index < next_write_release THEN "readcode" ELSE "iffull"
  /\ UNCHANGED <<ring, notice, dst_state, read_index, rcode, rptr, rreserve,
                 writer, submitted, received>>

\* code = in->code[i]
ReadCode ==
  /\ rpc = "readcode"
  /\ rcode' = code[Slot(read_index)]
  /\ rpc' = "readptr"
  /\ UNCHANGED <<ring, notice, dst_state, read_index, rptr, rreserve, writer,
                 submitted, received>>

\* Mutant: a NIL code is taken for a message.
ReadPtr_NoNilCheck ==
  /\ rpc = "readptr"
  /\ rptr' = ptr[Slot(read_index)]
  /\ rpc' = "clear"
  /\ UNCHANGED <<ring, notice, dst_state, read_index, rcode, rreserve, writer,
                 submitted, received>>

\* ptr = in->ptr[i]; a NIL code is read again: its writer has reserved the
\* slot and not stored to it yet.
ReadPtr ==
  /\ rpc = "readptr"
  /\ rptr' = ptr[Slot(read_index)]
  /\ rpc' = IF rcode = NIL THEN "check" ELSE "clear"
  /\ UNCHANGED <<ring, notice, dst_state, read_index, rcode, rreserve, writer,
                 submitted, received>>

\* in->code[i] = SHUTTLESOCK_IPC_CMD_NIL; read_index++
ClearSlot ==
  /\ rpc = "clear"
  /\ code' = [code EXCEPT ![Slot(read_index)] = NIL]
  /\ read_index' = read_index + 1
  /\ rpc' = "advance"
  /\ UNCHANGED <<next_read, next_write_reserve, next_write_release, full, ptr,
                 notice, dst_state, rcode, rptr, rreserve, writer, submitted,
                 received>>

\* atomic_fetch_add(&in->index.next_read, 1)
AdvanceRead ==
  /\ rpc = "advance"
  /\ next_read' = next_read + 1
  /\ rpc' = "handle"
  /\ UNCHANGED <<next_write_reserve, next_write_release, full, code, ptr,
                 notice, dst_state, read_index, rcode, rptr, rreserve, writer,
                 submitted, received>>

\* ipc_handlers[code].receive(S, code, ptr)
Handle ==
  /\ rpc = "handle"
  /\ received' = [received EXCEPT ![rptr[1]] = rptr[2]]
  /\ rpc' = "check"
  /\ UNCHANGED <<ring, notice, dst_state, read_index, rcode, rptr, rreserve,
                 writer, submitted>>

\* Mutant: the flag is cleared and next_write_reserve is not reset.
IfFull_NoReset ==
  /\ rpc = "iffull"
  /\ rpc' = IF full THEN "clearfull" ELSE "wait"
  /\ UNCHANGED <<ring, notice, dst_state, read_index, rcode, rptr, rreserve,
                 writer, submitted, received>>

\* if(in->full), else back to reading the eventfd
IfFull ==
  /\ rpc = "iffull"
  /\ rpc' = IF full THEN "reset" ELSE "wait"
  /\ UNCHANGED <<ring, notice, dst_state, read_index, rcode, rptr, rreserve,
                 writer, submitted, received>>

\* in->index.next_write_reserve = in->index.next_read
ResetReserve ==
  /\ rpc = "reset"
  /\ next_write_reserve' = next_read
  /\ rpc' = "assert1"
  /\ UNCHANGED <<next_read, next_write_release, full, code, ptr, notice,
                 dst_state, read_index, rcode, rptr, rreserve, writer,
                 submitted, received>>

\* assert(in->index.next_write_reserve == in->index.next_write_release): one
\* load per step.  A failing assertion aborts the reading process.
AssertLoad ==
  /\ rpc = "assert1"
  /\ rreserve' = next_write_reserve
  /\ rpc' = "assert2"
  /\ UNCHANGED <<ring, notice, dst_state, read_index, rcode, rptr, writer,
                 submitted, received>>

AssertCompare ==
  /\ rpc = "assert2"
  /\ rpc' = IF rreserve = next_write_release THEN "clearfull" ELSE "aborted"
  /\ UNCHANGED <<ring, notice, dst_state, read_index, rcode, rptr, rreserve,
                 writer, submitted, received>>

\* in->full = false; return true
ClearFull ==
  /\ rpc = "clearfull"
  /\ full' = FALSE
  /\ rpc' = "wait"
  /\ UNCHANGED <<next_read, next_write_reserve, next_write_release, code, ptr,
                 notice, dst_state, read_index, rcode, rptr, rreserve, writer,
                 submitted, received>>

-----------------------------------------------------------------------------
SendStep(w) ==
  \/ CheckFull(w) \/ ReserveIndex(w) \/ LoadNextRead(w) \/ CheckRoom(w)
  \/ SetFull(w) \/ WritePtr(w) \/ WriteCode(w) \/ ReleaseIndex(w)
  \/ SendNotice(w)

ReadStep ==
  \/ StartReader \/ TakeNotice \/ CheckReleased \/ ReadCode \/ ReadPtr
  \/ ClearSlot \/ AdvanceRead \/ Handle \/ IfFull \/ ResetReserve
  \/ AssertLoad \/ AssertCompare \/ ClearFull

Next == \/ \E w \in Writers : Submit(w) \/ Retry(w) \/ SendStep(w)
        \/ ReadStep
        \/ BecomeRunning

Spec == Init /\ [][Next]_vars

\* The scheduler runs every thread, libev fires an active repeating timer,
\* and nobody is obliged to send.
Fairness == /\ \A w \in Writers : WF_vars(SendStep(w)) /\ WF_vars(Retry(w))
            /\ WF_vars(ReadStep)
            /\ WF_vars(BecomeRunning)

FairSpec == Spec /\ Fairness

-----------------------------------------------------------------------------
(******************************** properties *******************************)

RingType ==
  /\ next_read \in Nat /\ next_write_reserve \in Nat
  /\ next_write_release \in Nat
  /\ full \in BOOLEAN
  /\ code \in [Slots -> Msgs \cup {NIL}]
  /\ ptr \in [Slots -> Msgs \cup {NIL}]

ReaderType ==
  /\ notice \in BOOLEAN
  /\ dst_state \in {"STARTING", "RUNNING"}
  /\ rpc \in ReaderSteps
  /\ read_index \in Nat /\ rreserve \in Nat
  /\ rcode \in Msgs \cup {NIL} /\ rptr \in Msgs \cup {NIL}

WriterType ==
  /\ pc \in [Writers -> WriterSteps]
  /\ wmsg \in [Writers -> Msgs \cup {NIL}]
  /\ windex \in [Writers -> Nat] /\ wread \in [Writers -> Nat]
  /\ retrying \in [Writers -> BOOLEAN]
  /\ outbuf \in [Writers -> Seq(Msgs)]
  /\ send_retry \in [Writers -> BOOLEAN]

HistoryType ==
  /\ submitted \in [Writers -> 0..MaxSend]
  /\ received \in [Writers -> 0..MaxSend]

\* Type invariant.  An index is an int64_t that only grows, a slot holds a
\* whole message or NIL, and what a handler is given names a real message.
TypeOK == RingType /\ ReaderType /\ WriterType /\ HistoryType

\* A writer that is about to store its message finds a slot the reader has
\* emptied, and no other writer is storing to it: ipc_reserve_write_index
\* never hands out a slot that is still in use.
SlotIsFree ==
  \A w \in Writers : pc[w] \in {"ptr", "code"} =>
    /\ code[Slot(windex[w])] = NIL
    /\ \A v \in Writers \ {w} :
         pc[v] \in {"ptr", "code"} => Slot(windex[v]) # Slot(windex[w])

\* The code and the pointer ipc_receive hands to a handler were sent
\* together, although they are loaded from two arrays in two steps.
NotTorn == rpc = "handle" => rcode = rptr /\ rptr # NIL

\* The next message the handler is given is the sender's next one: the
\* sequence check that the IPC tests make in ipc_echo_receive.
InOrder == rpc = "handle" => rptr[2] = received[rptr[1]] + 1

\* The ring, the output buffer and the retry timer together are a channel:
\* what the handler has seen of a sender only ever grows by that sender's
\* next message, across wrap-around, a full ring, buffering and retries.
Channel == INSTANCE IpcChannel WITH sent <- submitted, got <- received
ImplementsChannel == Channel!Spec

\* ... and nothing that shuso_ipc_send accepted waits forever.
ImplementsFairChannel == Channel!FairSpec

\* As long as the senders' clients keep no more messages unread than the
\* ring has slots, ipc_reserve_write_index never finds it full: the next_read
\* it compares with is loaded after the index is reserved.
NeverFull == ~full

\* The assertion of ipc_receive: when the reader resets next_write_reserve,
\* everything that was reserved has been released and read.
ReserveMatchesRelease == rpc # "aborted"

\* "the reader resets it when it clears the 'full' flag": a ring that was
\* marked full is opened again.
FullIsCleared == full ~> (~full \/ rpc = "aborted")
=============================================================================
