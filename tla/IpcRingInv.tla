----------------------------- MODULE IpcRingInv -----------------------------
(***************************************************************************)
(* Two inductive invariants of the ring.                                   *)
(*                                                                         *)
(* StoredInv holds whatever the writers and the full flag do.              *)
(*                                                                         *)
(* SingleWriterInv is about a ring with one writer, such as the master's   *)
(* ring, which only the manager writes to.  With one writer the message at *)
(* index i is that writer's message i + 1.                                 *)
(***************************************************************************)
EXTENDS IpcRing

\* The pointer of a slot is stored before its code, so a reader that has
\* seen a code finds a pointer that some sender stored, in every
\* interleaving and even while the ring is being reset.
PointerStored ==
  /\ \A w \in Writers : pc[w] # "idle" => wmsg[w] # NIL
  /\ \A w \in Writers : pc[w] = "code" => ptr[Slot(windex[w])] # NIL
  /\ \A i \in Slots : code[i] # NIL => ptr[i] # NIL
  /\ rpc = "readptr" /\ rcode # NIL => ptr[Slot(read_index)] # NIL
  /\ rpc \in {"clear", "advance", "handle"} => rptr # NIL

StoredInv == TypeOK /\ PointerStored

Storing == {"load", "full2", "setfull", "ptr", "code", "release"}
Resetting == {"assert1", "assert2", "clearfull", "aborted"}

\* First index whose slot still holds a message, and the first one past the
\* slots whose code has been stored.
FirstUnread == IF rpc = "advance" THEN next_read + 1 ELSE next_read
FirstUnwritten(w) ==
  IF pc[w] = "release" THEN next_write_release + 1 ELSE next_write_release

\* Messages of w that ipc_send_direct has returned true for.
Accepted(w) ==
  IF pc[w] = "notice" THEN next_write_release - 1 ELSE next_write_release

\* The ring holds at most RingSize messages, and a writer that got past the
\* capacity check has room for one more.
CountersInv(w) ==
  /\ next_read <= next_write_release
  /\ next_write_release - next_read <= RingSize
  /\ wread[w] <= next_read
  /\ pc[w] \in {"ptr", "code", "release"} =>
       next_write_release - next_read <= RingSize - 1

\* Where next_write_reserve stands: the full flag excludes a writer inside
\* ipc_send_direct, and the reader only resets it while the flag is up.
ReserveInv(w) ==
  /\ full => pc[w] \in {"idle", "full1"}
  /\ pc[w] \in Storing => /\ windex[w] = next_write_release
                          /\ next_write_reserve = next_write_release + 1
  /\ pc[w] \notin Storing =>
       next_write_reserve = IF rpc \in Resetting THEN next_read
                            ELSE IF full THEN next_write_release + 1
                            ELSE next_write_release
  /\ rpc \in Resetting \cup {"reset"} => full
  /\ rpc = "assert2" => rreserve = next_read
  /\ rpc = "clearfull" => next_read = next_write_release

\* What the reading thread has in its hands.
ReaderInv(w) ==
  /\ rpc \in {"check", "readcode", "readptr", "clear", "handle"} =>
       read_index = next_read
  /\ rpc = "advance" => read_index = next_read + 1
  /\ rpc \in {"readcode", "readptr", "clear", "advance"} =>
       next_read < next_write_release
  /\ rpc \in {"readptr", "clear", "advance"} => rcode = <<w, next_read + 1>>
  /\ rpc \in {"clear", "advance"} => rptr = <<w, next_read + 1>>
  /\ rpc = "handle" => /\ next_read > 0
                       /\ rcode = <<w, next_read>>
                       /\ rptr = <<w, next_read>>

\* The slots between the reader and the writer hold the released messages in
\* order; all the others are NIL.
SlotsInv(w) ==
  /\ \A i \in FirstUnread..(FirstUnwritten(w) - 1) : code[Slot(i)] = <<w, i + 1>>
  /\ \A i \in next_read..(next_write_release - 1) : ptr[Slot(i)] = <<w, i + 1>>
  /\ pc[w] \in {"code", "release"} =>
       ptr[Slot(windex[w])] = <<w, next_write_release + 1>>
  /\ \A i \in FirstUnwritten(w)..(FirstUnread + RingSize - 1) :
       code[Slot(i)] = NIL

\* The output buffer continues the sequence the ring has accepted.
OutbufInv(w) ==
  /\ pc[w] # "idle" => wmsg[w] = <<w, Accepted(w) + 1>>
  /\ pc[w] # "idle" /\ ~retrying[w] => /\ outbuf[w] = <<>>
                                       /\ submitted[w] = Accepted(w) + 1
  /\ pc[w] # "idle" /\ retrying[w] => outbuf[w] # <<>>
  /\ pc[w] = "idle" \/ retrying[w] =>
       /\ submitted[w] = Accepted(w) + Len(outbuf[w])
       /\ \A j \in 1..Len(outbuf[w]) : outbuf[w][j] = <<w, Accepted(w) + j>>

HistoryInv(w) ==
  received[w] = IF rpc = "handle" THEN next_read - 1 ELSE next_read

WriterInv(w) == /\ CountersInv(w) /\ ReserveInv(w) /\ ReaderInv(w)
                /\ SlotsInv(w) /\ OutbufInv(w) /\ HistoryInv(w)

\* Everything the code relies on between two steps of a ring that one writer
\* fills, wraps around, finds full and retries.
SingleWriterInv == StoredInv /\ \A w \in Writers : WriterInv(w)
=============================================================================
