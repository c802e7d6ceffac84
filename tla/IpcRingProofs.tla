--------------------------- MODULE IpcRingProofs ----------------------------
(***************************************************************************)
(* Proofs about the ring.  For every number of writers, every ring size    *)
(* and every number of messages: its types, and that no handler is called  *)
(* with a pointer nobody stored.  For one writer: SingleWriterInv is       *)
(* inductive, the slots and pairs the two threads share are never torn,    *)
(* and the ring with its output buffer implements the abstract channel.    *)
(***************************************************************************)
EXTENDS IpcRingInv, TLAPS

(* A message is a pair, the NIL of an empty slot is not. *)
LEMMA MsgNotNil == \A m \in Msgs : m # NIL
  BY DEF Msgs, NIL

(* The (uint8_t) cast of an index is a slot of the ring. *)
LEMMA SlotInRange == \A i \in Nat : Slot(i) \in Slots
  BY RingAssumption, SMT DEF Slot, Slots

(* The zeroed ring satisfies the invariant. *)
LEMMA StoredInit == Init => StoredInv
  <1> SUFFICES ASSUME Init PROVE StoredInv
    OBVIOUS
  <1>1. RingType
    BY RingAssumption DEF Init, RingType
  <1>2. ReaderType
    BY DEF Init, ReaderType, ReaderSteps
  <1>3. WriterType
    BY DEF Init, WriterType, WriterSteps
  <1>4. HistoryType
    BY RingAssumption DEF Init, HistoryType
  <1>5. PointerStored
    BY DEF Init, PointerStored
  <1> QED
    BY <1>1, <1>2, <1>3, <1>4, <1>5 DEF StoredInv, TypeOK
(* Appending to the output buffer keeps it a sequence of messages. *)
LEMMA OutbufAppendType ==
  ASSUME WriterType, NEW w \in Writers, NEW m \in Msgs, OutbufAppend(w, m)
  PROVE  /\ outbuf' \in [Writers -> Seq(Msgs)]
         /\ send_retry' \in [Writers -> BOOLEAN]
  <1>1. Append(outbuf[w], m) \in Seq(Msgs)
    BY DEF WriterType
  <1> QED
    BY <1>1 DEF OutbufAppend, WriterType

(* The failing return of ipc_send_direct keeps the types of its caller. *)
LEMMA SendFailedType ==
  ASSUME WriterType, NEW w \in Writers, wmsg[w] \in Msgs, SendFailed(w)
  PROVE  /\ pc' = [pc EXCEPT ![w] = "idle"]
         /\ outbuf' \in [Writers -> Seq(Msgs)]
         /\ send_retry' \in [Writers -> BOOLEAN]
  BY OutbufAppendType DEF SendFailed, Goto, WriterType

(* The successful return: the retry loop drops the first buffered message *)
(* and takes the second one, if there is one.                             *)
LEMMA SendSucceededType ==
  ASSUME WriterType, NEW w \in Writers, SendSucceeded(w)
  PROVE  /\ \/ pc' = [pc EXCEPT ![w] = "idle"] /\ wmsg' = wmsg
            \/ /\ pc' = [pc EXCEPT ![w] = "full1"]
               /\ \E m \in Msgs : wmsg' = [wmsg EXCEPT ![w] = m]
         /\ outbuf' \in [Writers -> Seq(Msgs)]
         /\ send_retry' = send_retry /\ retrying' = retrying
  <1> DEFINE q == outbuf[w]
  <1>1. q \in Seq(Msgs)
    BY DEF WriterType
  <1>2. Len(q) > 1 => q[2] \in Msgs
    BY <1>1
  <1>3. q # <<>> => Tail(q) \in Seq(Msgs)
    BY <1>1
  <1>4. Len(q) = 1 \/ Len(q) > 1 => q # <<>>
    BY <1>1
  <1>5. CASE ~retrying[w]
    BY <1>5 DEF SendSucceeded, Goto, WriterType
  <1>6. CASE retrying[w]
    <2>a. /\ outbuf' = [outbuf EXCEPT ![w] = Tail(q)]
          /\ Len(q) = 1 \/ Len(q) > 1
      BY <1>6 DEF SendSucceeded
    <2>1. q # <<>>
      BY <2>a, <1>4
    <2>2. outbuf' \in [Writers -> Seq(Msgs)]
      BY <2>a, <2>1, <1>3 DEF WriterType
    <2>3. CASE Len(q) = 1
      BY <1>6, <2>3, <2>2 DEF SendSucceeded, Goto
    <2>4. CASE Len(q) > 1
      <3>1. wmsg' = [wmsg EXCEPT ![w] = q[2]] /\ pc' = [pc EXCEPT ![w] = "full1"]
        BY <1>6, <2>4, <1>1 DEF SendSucceeded, Goto
      <3> QED
        BY <1>6, <2>4, <1>2, <2>2, <3>1 DEF SendSucceeded
    <2> QED
      BY <2>a, <2>3, <2>4
  <1> QED
    BY <1>5, <1>6

(* Every step of every thread keeps the types and stores pointers first. *)
LEMMA StoredNext == StoredInv /\ [Next]_vars => StoredInv'
  <1> SUFFICES ASSUME StoredInv, [Next]_vars PROVE StoredInv'
    OBVIOUS
  <1> USE DEF StoredInv, TypeOK
  <1>1. ASSUME NEW w \in Writers, Submit(w) PROVE StoredInv'
    <2>a. <<w, submitted[w] + 1>> \in Msgs
      BY <1>1, RingAssumption DEF Submit, HistoryType, Msgs
    <2>b. \/ /\ OutbufAppend(w, <<w, submitted[w] + 1>>)
             /\ UNCHANGED <<pc, wmsg, retrying>>
          \/ /\ pc' = [pc EXCEPT ![w] = "full1"]
             /\ wmsg' = [wmsg EXCEPT ![w] = <<w, submitted[w] + 1>>]
             /\ retrying' = [retrying EXCEPT ![w] = FALSE]
             /\ UNCHANGED <<outbuf, send_retry>>
      BY <1>1 DEF Submit, Goto
    <2>c. UNCHANGED <<windex, wread>>
      BY <1>1 DEF Submit
    <2>1. RingType' /\ ReaderType'
      BY <1>1 DEF Submit, ring, reader, writer, RingType, ReaderType
    <2>2. WriterType'
      BY <2>a, <2>b, <2>c, OutbufAppendType, ZenonT(60) DEF WriterType, WriterSteps
    <2>3. HistoryType'
      BY <1>1, <2>a, OutbufAppendType, RingAssumption
         DEF Submit, Goto, ring, reader, writer, HistoryType
    <2>4. PointerStored'
      BY <1>1, MsgNotNil, SlotInRange, <2>a, OutbufAppendType, RingAssumption
         DEF Submit, Goto, ring, reader, writer, PointerStored, RingType,
             ReaderType, WriterType
    <2> QED
      BY <2>1, <2>2, <2>3, <2>4
  <1>2. ASSUME NEW w \in Writers, Retry(w) PROVE StoredInv'
    <2>a. Head(outbuf[w]) \in Msgs
      BY <1>2 DEF Retry, WriterType
    <2>1. RingType' /\ ReaderType' /\ HistoryType'
      BY <1>2
         DEF Retry, ring, reader, writer, RingType, ReaderType, HistoryType
    <2>2. WriterType'
      BY <1>2, <2>a
         DEF Retry, Goto, ring, reader, writer, WriterType, RingType,
             WriterSteps
    <2>3. PointerStored'
      BY <1>2, MsgNotNil, SlotInRange, <2>a
         DEF Retry, Goto, ring, reader, writer, PointerStored, RingType,
             ReaderType, WriterType
    <2> QED
      BY <2>1, <2>2, <2>3
  <1>3. ASSUME NEW w \in Writers, CheckFull(w) PROVE StoredInv'
    <2>a. wmsg[w] \in Msgs
      BY <1>3 DEF CheckFull, WriterType, PointerStored
    <2>1. RingType' /\ ReaderType' /\ HistoryType'
      BY <1>3
         DEF CheckFull, ring, reader, writer, RingType, ReaderType,
             HistoryType
    <2>2. WriterType'
      BY <1>3, <2>a, SendFailedType
         DEF CheckFull, Goto, ring, reader, writer, WriterType, RingType,
             WriterSteps
    <2>3. PointerStored'
      BY <1>3, MsgNotNil, SlotInRange, <2>a, SendFailedType
         DEF CheckFull, Goto, ring, reader, writer, PointerStored, RingType,
             ReaderType, WriterType
    <2> QED
      BY <2>1, <2>2, <2>3
  <1>4. ASSUME NEW w \in Writers, ReserveIndex(w) PROVE StoredInv'
    <2>1. ReaderType' /\ HistoryType'
      BY <1>4 DEF ReserveIndex, ring, reader, writer, ReaderType, HistoryType
    <2>2. RingType'
      BY <1>4, SlotInRange
         DEF ReserveIndex, Goto, ring, reader, writer, RingType, WriterType,
             ReaderType
    <2>3. WriterType'
      BY <1>4
         DEF ReserveIndex, Goto, ring, reader, writer, WriterType, RingType,
             WriterSteps
    <2>4. PointerStored'
      BY <1>4, MsgNotNil, SlotInRange
         DEF ReserveIndex, Goto, ring, reader, writer, PointerStored,
             RingType, ReaderType, WriterType
    <2> QED
      BY <2>1, <2>2, <2>3, <2>4
  <1>5. ASSUME NEW w \in Writers, LoadNextRead(w) PROVE StoredInv'
    <2>1. RingType' /\ ReaderType' /\ HistoryType'
      BY <1>5
         DEF LoadNextRead, ring, reader, writer, RingType, ReaderType,
             HistoryType
    <2>2. WriterType'
      BY <1>5
         DEF LoadNextRead, Goto, ring, reader, writer, WriterType, RingType,
             WriterSteps
    <2>3. PointerStored'
      BY <1>5, MsgNotNil, SlotInRange
         DEF LoadNextRead, Goto, ring, reader, writer, PointerStored,
             RingType, ReaderType, WriterType
    <2> QED
      BY <2>1, <2>2, <2>3
  <1>6. ASSUME NEW w \in Writers, CheckRoom(w) PROVE StoredInv'
    <2>a. wmsg[w] \in Msgs
      BY <1>6 DEF CheckRoom, WriterType, PointerStored
    <2>1. RingType' /\ ReaderType' /\ HistoryType'
      BY <1>6
         DEF CheckRoom, ring, reader, writer, RingType, ReaderType,
             HistoryType
    <2>2. WriterType'
      BY <1>6, <2>a, SendFailedType
         DEF CheckRoom, Goto, ring, reader, writer, WriterType, RingType,
             WriterSteps
    <2>3. PointerStored'
      BY <1>6, MsgNotNil, SlotInRange, <2>a, SendFailedType
         DEF CheckRoom, Goto, ring, reader, writer, PointerStored, RingType,
             ReaderType, WriterType
    <2> QED
      BY <2>1, <2>2, <2>3
  <1>7. ASSUME NEW w \in Writers, SetFull(w) PROVE StoredInv'
    <2>a. wmsg[w] \in Msgs
      BY <1>7 DEF SetFull, WriterType, PointerStored
    <2>1. ReaderType' /\ HistoryType'
      BY <1>7 DEF SetFull, ring, reader, writer, ReaderType, HistoryType
    <2>2. RingType'
      BY <1>7, SlotInRange, <2>a, SendFailedType
         DEF SetFull, Goto, ring, reader, writer, RingType, WriterType,
             ReaderType
    <2>3. WriterType'
      BY <1>7, <2>a, SendFailedType
         DEF SetFull, Goto, ring, reader, writer, WriterType, RingType,
             WriterSteps
    <2>4. PointerStored'
      BY <1>7, MsgNotNil, SlotInRange, <2>a, SendFailedType
         DEF SetFull, Goto, ring, reader, writer, PointerStored, RingType,
             ReaderType, WriterType
    <2> QED
      BY <2>1, <2>2, <2>3, <2>4
  <1>8. ASSUME NEW w \in Writers, WritePtr(w) PROVE StoredInv'
    <2>a. wmsg[w] \in Msgs
      BY <1>8 DEF WritePtr, WriterType, PointerStored
    <2>1. ReaderType' /\ HistoryType'
      BY <1>8 DEF WritePtr, ring, reader, writer, ReaderType, HistoryType
    <2>2. RingType'
      BY <1>8, SlotInRange, <2>a
         DEF WritePtr, Goto, ring, reader, writer, RingType, WriterType,
             ReaderType
    <2>3. WriterType'
      BY <1>8, <2>a
         DEF WritePtr, Goto, ring, reader, writer, WriterType, RingType,
             WriterSteps
    <2>4. PointerStored'
      BY <1>8, MsgNotNil, SlotInRange, <2>a
         DEF WritePtr, Goto, ring, reader, writer, PointerStored, RingType,
             ReaderType, WriterType
    <2> QED
      BY <2>1, <2>2, <2>3, <2>4
  <1>9. ASSUME NEW w \in Writers, WriteCode(w) PROVE StoredInv'
    <2>a. wmsg[w] \in Msgs
      BY <1>9 DEF WriteCode, WriterType, PointerStored
    <2>1. ReaderType' /\ HistoryType'
      BY <1>9 DEF WriteCode, ring, reader, writer, ReaderType, HistoryType
    <2>2. RingType'
      BY <1>9, SlotInRange, <2>a
         DEF WriteCode, Goto, ring, reader, writer, RingType, WriterType,
             ReaderType
    <2>3. WriterType'
      BY <1>9, <2>a
         DEF WriteCode, Goto, ring, reader, writer, WriterType, RingType,
             WriterSteps
    <2>4. PointerStored'
      BY <1>9, MsgNotNil, SlotInRange, <2>a
         DEF WriteCode, Goto, ring, reader, writer, PointerStored, RingType,
             ReaderType, WriterType
    <2> QED
      BY <2>1, <2>2, <2>3, <2>4
  <1>10. ASSUME NEW w \in Writers, ReleaseIndex(w) PROVE StoredInv'
    <2>1. ReaderType' /\ HistoryType'
      BY <1>10 DEF ReleaseIndex, ring, reader, writer, ReaderType, HistoryType
    <2>2. RingType'
      BY <1>10, SlotInRange
         DEF ReleaseIndex, Goto, ring, reader, writer, RingType, WriterType,
             ReaderType
    <2>3. WriterType'
      BY <1>10
         DEF ReleaseIndex, Goto, ring, reader, writer, WriterType, RingType,
             WriterSteps
    <2>4. PointerStored'
      BY <1>10, MsgNotNil, SlotInRange
         DEF ReleaseIndex, Goto, ring, reader, writer, PointerStored,
             RingType, ReaderType, WriterType
    <2> QED
      BY <2>1, <2>2, <2>3, <2>4
  <1>11. ASSUME NEW w \in Writers, SendNotice(w) PROVE StoredInv'
    <2>1. RingType' /\ HistoryType'
      BY <1>11 DEF SendNotice, ring, reader, writer, RingType, HistoryType
    <2>2. ReaderType'
      BY <1>11, SlotInRange, SendSucceededType
         DEF SendNotice, Goto, ring, reader, writer, ReaderType, RingType,
             ReaderSteps
    <2>3. WriterType'
      BY <1>11, SendSucceededType, ZenonT(60)
         DEF SendNotice, Goto, ring, reader, writer, WriterType, RingType,
             WriterSteps
    <2>4. PointerStored'
      BY <1>11, MsgNotNil, SlotInRange, SendSucceededType, ZenonT(60)
         DEF SendNotice, Goto, ring, reader, writer, PointerStored, RingType,
             ReaderType, WriterType
    <2> QED
      BY <2>1, <2>2, <2>3, <2>4
  <1>12. CASE StartReader
    <2>1. RingType' /\ WriterType' /\ HistoryType'
      BY <1>12
         DEF StartReader, ring, reader, writer, RingType, WriterType,
             HistoryType
    <2>2. ReaderType'
      BY <1>12, SlotInRange
         DEF StartReader, ring, reader, writer, ReaderType, RingType,
             ReaderSteps
    <2>3. PointerStored'
      BY <1>12, MsgNotNil, SlotInRange
         DEF StartReader, ring, reader, writer, PointerStored, RingType,
             ReaderType, WriterType
    <2> QED
      BY <2>1, <2>2, <2>3
  <1>13. CASE BecomeRunning
    <2>1. RingType' /\ WriterType' /\ HistoryType'
      BY <1>13
         DEF BecomeRunning, ring, reader, writer, RingType, WriterType,
             HistoryType
    <2>2. ReaderType'
      BY <1>13, SlotInRange
         DEF BecomeRunning, ring, reader, writer, ReaderType, RingType,
             ReaderSteps
    <2>3. PointerStored'
      BY <1>13, MsgNotNil, SlotInRange
         DEF BecomeRunning, ring, reader, writer, PointerStored, RingType,
             ReaderType, WriterType
    <2> QED
      BY <2>1, <2>2, <2>3
  <1>14. CASE TakeNotice
    <2>1. RingType' /\ WriterType' /\ HistoryType'
      BY <1>14
         DEF TakeNotice, ring, reader, writer, RingType, WriterType,
             HistoryType
    <2>2. ReaderType'
      BY <1>14, SlotInRange
         DEF TakeNotice, ring, reader, writer, ReaderType, RingType,
             ReaderSteps
    <2>3. PointerStored'
      BY <1>14, MsgNotNil, SlotInRange
         DEF TakeNotice, ring, reader, writer, PointerStored, RingType,
             ReaderType, WriterType
    <2> QED
      BY <2>1, <2>2, <2>3
  <1>15. CASE CheckReleased
    <2>1. RingType' /\ WriterType' /\ HistoryType'
      BY <1>15
         DEF CheckReleased, ring, reader, writer, RingType, WriterType,
             HistoryType
    <2>2. ReaderType'
      BY <1>15, SlotInRange
         DEF CheckReleased, ring, reader, writer, ReaderType, RingType,
             ReaderSteps
    <2>3. PointerStored'
      BY <1>15, MsgNotNil, SlotInRange
         DEF CheckReleased, ring, reader, writer, PointerStored, RingType,
             ReaderType, WriterType
    <2> QED
      BY <2>1, <2>2, <2>3
  <1>16. CASE ReadCode
    <2>1. RingType' /\ WriterType' /\ HistoryType'
      BY <1>16
         DEF ReadCode, ring, reader, writer, RingType, WriterType,
             HistoryType
    <2>2. ReaderType'
      BY <1>16, SlotInRange
         DEF ReadCode, ring, reader, writer, ReaderType, RingType,
             ReaderSteps
    <2>3. PointerStored'
      BY <1>16, MsgNotNil, SlotInRange
         DEF ReadCode, ring, reader, writer, PointerStored, RingType,
             ReaderType, WriterType
    <2> QED
      BY <2>1, <2>2, <2>3
  <1>17. CASE ReadPtr
    <2>1. RingType' /\ WriterType' /\ HistoryType'
      BY <1>17
         DEF ReadPtr, ring, reader, writer, RingType, WriterType, HistoryType
    <2>2. ReaderType'
      BY <1>17, SlotInRange
         DEF ReadPtr, ring, reader, writer, ReaderType, RingType, ReaderSteps
    <2>3. PointerStored'
      BY <1>17, MsgNotNil, SlotInRange
         DEF ReadPtr, ring, reader, writer, PointerStored, RingType,
             ReaderType, WriterType
    <2> QED
      BY <2>1, <2>2, <2>3
  <1>18. CASE ClearSlot
    <2>1. WriterType' /\ HistoryType'
      BY <1>18 DEF ClearSlot, ring, reader, writer, WriterType, HistoryType
    <2>2. RingType'
      BY <1>18, SlotInRange
         DEF ClearSlot, ring, reader, writer, RingType, WriterType,
             ReaderType
    <2>3. ReaderType'
      BY <1>18, SlotInRange
         DEF ClearSlot, ring, reader, writer, ReaderType, RingType,
             ReaderSteps
    <2>4. PointerStored'
      BY <1>18, MsgNotNil, SlotInRange
         DEF ClearSlot, ring, reader, writer, PointerStored, RingType,
             ReaderType, WriterType
    <2> QED
      BY <2>1, <2>2, <2>3, <2>4
  <1>19. CASE AdvanceRead
    <2>1. WriterType' /\ HistoryType'
      BY <1>19 DEF AdvanceRead, ring, reader, writer, WriterType, HistoryType
    <2>2. RingType'
      BY <1>19, SlotInRange
         DEF AdvanceRead, ring, reader, writer, RingType, WriterType,
             ReaderType
    <2>3. ReaderType'
      BY <1>19, SlotInRange
         DEF AdvanceRead, ring, reader, writer, ReaderType, RingType,
             ReaderSteps
    <2>4. PointerStored'
      BY <1>19, MsgNotNil, SlotInRange
         DEF AdvanceRead, ring, reader, writer, PointerStored, RingType,
             ReaderType, WriterType
    <2> QED
      BY <2>1, <2>2, <2>3, <2>4
  <1>20. CASE Handle
    <2>a. rptr \in Msgs
      BY <1>20 DEF Handle, ReaderType, PointerStored
    <2>b. rptr[1] \in Writers /\ rptr[2] \in 0..MaxSend
      BY <2>a, RingAssumption DEF Msgs
    <2>1. RingType' /\ WriterType'
      BY <1>20 DEF Handle, ring, reader, writer, RingType, WriterType
    <2>2. ReaderType'
      BY <1>20, SlotInRange, <2>b
         DEF Handle, ring, reader, writer, ReaderType, RingType, ReaderSteps
    <2>3. HistoryType'
      BY <1>20, <2>b DEF Handle, ring, reader, writer, HistoryType
    <2>4. PointerStored'
      BY <1>20, MsgNotNil, SlotInRange, <2>b
         DEF Handle, ring, reader, writer, PointerStored, RingType,
             ReaderType, WriterType
    <2> QED
      BY <2>1, <2>2, <2>3, <2>4
  <1>21. CASE IfFull
    <2>1. RingType' /\ WriterType' /\ HistoryType'
      BY <1>21
         DEF IfFull, ring, reader, writer, RingType, WriterType, HistoryType
    <2>2. ReaderType'
      BY <1>21, SlotInRange
         DEF IfFull, ring, reader, writer, ReaderType, RingType, ReaderSteps
    <2>3. PointerStored'
      BY <1>21, MsgNotNil, SlotInRange
         DEF IfFull, ring, reader, writer, PointerStored, RingType,
             ReaderType, WriterType
    <2> QED
      BY <2>1, <2>2, <2>3
  <1>22. CASE ResetReserve
    <2>1. WriterType' /\ HistoryType'
      BY <1>22 DEF ResetReserve, ring, reader, writer, WriterType, HistoryType
    <2>2. RingType'
      BY <1>22, SlotInRange
         DEF ResetReserve, ring, reader, writer, RingType, WriterType,
             ReaderType
    <2>3. ReaderType'
      BY <1>22, SlotInRange
         DEF ResetReserve, ring, reader, writer, ReaderType, RingType,
             ReaderSteps
    <2>4. PointerStored'
      BY <1>22, MsgNotNil, SlotInRange
         DEF ResetReserve, ring, reader, writer, PointerStored, RingType,
             ReaderType, WriterType
    <2> QED
      BY <2>1, <2>2, <2>3, <2>4
  <1>23. CASE AssertLoad
    <2>1. RingType' /\ WriterType' /\ HistoryType'
      BY <1>23
         DEF AssertLoad, ring, reader, writer, RingType, WriterType,
             HistoryType
    <2>2. ReaderType'
      BY <1>23, SlotInRange
         DEF AssertLoad, ring, reader, writer, ReaderType, RingType,
             ReaderSteps
    <2>3. PointerStored'
      BY <1>23, MsgNotNil, SlotInRange
         DEF AssertLoad, ring, reader, writer, PointerStored, RingType,
             ReaderType, WriterType
    <2> QED
      BY <2>1, <2>2, <2>3
  <1>24. CASE AssertCompare
    <2>1. RingType' /\ WriterType' /\ HistoryType'
      BY <1>24
         DEF AssertCompare, ring, reader, writer, RingType, WriterType,
             HistoryType
    <2>2. ReaderType'
      BY <1>24, SlotInRange
         DEF AssertCompare, ring, reader, writer, ReaderType, RingType,
             ReaderSteps
    <2>3. PointerStored'
      BY <1>24, MsgNotNil, SlotInRange
         DEF AssertCompare, ring, reader, writer, PointerStored, RingType,
             ReaderType, WriterType
    <2> QED
      BY <2>1, <2>2, <2>3
  <1>25. CASE ClearFull
    <2>1. WriterType' /\ HistoryType'
      BY <1>25 DEF ClearFull, ring, reader, writer, WriterType, HistoryType
    <2>2. RingType'
      BY <1>25, SlotInRange
         DEF ClearFull, ring, reader, writer, RingType, WriterType,
             ReaderType
    <2>3. ReaderType'
      BY <1>25, SlotInRange
         DEF ClearFull, ring, reader, writer, ReaderType, RingType,
             ReaderSteps
    <2>4. PointerStored'
      BY <1>25, MsgNotNil, SlotInRange
         DEF ClearFull, ring, reader, writer, PointerStored, RingType,
             ReaderType, WriterType
    <2> QED
      BY <2>1, <2>2, <2>3, <2>4
  <1>26. CASE UNCHANGED vars
    BY <1>26
       DEF vars, ring, reader, writer, RingType, ReaderType, WriterType,
           HistoryType, PointerStored
  <1> QED
    BY <1>1, <1>2, <1>3, <1>4, <1>5, <1>6, <1>7, <1>8, <1>9, <1>10, <1>11,
       <1>12, <1>13, <1>14, <1>15, <1>16, <1>17, <1>18, <1>19, <1>20, <1>21,
       <1>22, <1>23, <1>24, <1>25, <1>26
       DEF Next, SendStep, ReadStep
(* TypeOK holds for any number of writers.  It needs PointerStored: the     *)
(* handler step names a message through the pointer it read.                *)
THEOREM TypeCorrect == Spec => []TypeOK
  <1>1. Spec => []StoredInv
    BY StoredInit, StoredNext, PTL DEF Spec
  <1>2. StoredInv => TypeOK
    BY DEF StoredInv
  <1> QED
    BY <1>1, <1>2, PTL

(* A handler is never called with the pointer of an empty slot, whatever    *)
(* the interleaving of the stores of ipc_send_direct and the loads of       *)
(* ipc_receive, and however often the ring is reset.                        *)
THEOREM PointersAreStored == Spec => []PointerStored
  <1>1. Spec => []StoredInv
    BY StoredInit, StoredNext, PTL DEF Spec
  <1>2. StoredInv => PointerStored
    BY DEF StoredInv
  <1> QED
    BY <1>1, <1>2, PTL

-----------------------------------------------------------------------------
(************************** arithmetic of the slots ************************)

(* Division with remainder by the size of the ring. *)
LEMMA DivMod ==
  ASSUME NEW i \in Nat
  PROVE  /\ i = RingSize * (i \div RingSize) + (i % RingSize)
         /\ (i % RingSize) \in 0..(RingSize - 1)
         /\ (i \div RingSize) \in Nat
  BY RingAssumption, SMTT(30)

(* No multiple of the ring size lies strictly between two neighbours. *)
LEMMA NextMultiple ==
  ASSUME NEW a \in Int, NEW b \in Int, a < b
  PROVE  RingSize * b >= RingSize * a + RingSize
  <1>1. b - a \in Nat /\ b - a >= 1
    OBVIOUS
  <1>2. RingSize * (b - a) >= RingSize
    BY <1>1, RingAssumption, SMTT(30)
  <1>3. RingSize * (b - a) = RingSize * b - RingSize * a
    BY RingAssumption, SMTT(30)
  <1> QED
    BY <1>2, <1>3, RingAssumption, SMTT(30)

(* Two indices less than RingSize apart are different slots. *)
LEMMA SlotInjective ==
  ASSUME NEW i \in Nat, NEW j \in Nat, i < j, j < i + RingSize
  PROVE  Slot(i) # Slot(j)
  <1> DEFINE a == i \div RingSize
             b == j \div RingSize
             r == i % RingSize
             s == j % RingSize
  <1>1. /\ i = RingSize * a + r /\ j = RingSize * b + s
        /\ a \in Nat /\ b \in Nat
        /\ r \in 0..(RingSize - 1) /\ s \in 0..(RingSize - 1)
    BY DivMod
  <1>2. Slot(i) = r /\ Slot(j) = s
    BY DEF Slot
  <1> HIDE DEF a, b, r, s
  <1> SUFFICES ASSUME r = s PROVE FALSE
    BY <1>2
  <1>3. j - i = RingSize * b - RingSize * a
    BY <1>1, RingAssumption, SMTT(30)
  <1>4. CASE a < b
    <2>1. RingSize * b >= RingSize * a + RingSize
      BY <1>4, <1>1, NextMultiple
    <2> QED
      BY <2>1, <1>3, <1>1, RingAssumption, SMTT(30)
  <1>5. CASE a = b
    BY <1>5, <1>1, <1>3, RingAssumption
  <1>6. CASE b < a
    <2>1. RingSize * a >= RingSize * b + RingSize
      BY <1>6, <1>1, NextMultiple
    <2> QED
      BY <2>1, <1>3, <1>1, RingAssumption, SMTT(30)
  <1> QED
    BY <1>1, <1>4, <1>5, <1>6

(* ... and an index RingSize later is the same slot again. *)
LEMMA SlotPeriod ==
  ASSUME NEW i \in Nat
  PROVE  Slot(i + RingSize) = Slot(i)
  <1> DEFINE a == i \div RingSize
             b == (i + RingSize) \div RingSize
             r == i % RingSize
             s == (i + RingSize) % RingSize
  <1>1. /\ i = RingSize * a + r /\ i + RingSize = RingSize * b + s
        /\ a \in Nat /\ b \in Nat
        /\ r \in 0..(RingSize - 1) /\ s \in 0..(RingSize - 1)
    BY DivMod, RingAssumption
  <1>2. Slot(i) = r /\ Slot(i + RingSize) = s
    BY DEF Slot
  <1> HIDE DEF a, b, r, s
  <1>3. RingSize * (a + 1) = RingSize * a + RingSize
    BY <1>1, RingAssumption, SMTT(30)
  <1>4. CASE b < a + 1
    <2>1. RingSize * (a + 1) >= RingSize * b + RingSize
      BY <1>4, <1>1, NextMultiple
    <2> QED
      BY <2>1, <1>1, <1>3, RingAssumption, SMTT(30)
  <1>5. CASE b = a + 1
    BY <1>5, <1>1, <1>2, <1>3, RingAssumption, SMTT(30)
  <1>6. CASE b > a + 1
    <2>1. RingSize * b >= RingSize * (a + 1) + RingSize
      BY <1>6, <1>1, NextMultiple
    <2> QED
      BY <2>1, <1>1, <1>3, RingAssumption, SMTT(30)
  <1> QED
    BY <1>1, <1>4, <1>5, <1>6

(******************************* one writer *******************************)

(* The output buffer of w holds the messages after the a-th, in order. *)
Continues(w, a, q) == \A j \in 1..Len(q) : q[j] = <<w, a + j>>

(* ipc_send_outbuf_append extends a run of consecutive messages. *)
LEMMA AppendContinues ==
  ASSUME NEW w \in Writers, NEW a \in Nat, NEW q \in Seq(Msgs),
         Continues(w, a, q), NEW m \in Msgs, m = <<w, a + Len(q) + 1>>
  PROVE  Continues(w, a, Append(q, m)) /\ Len(Append(q, m)) = Len(q) + 1
  <1>1. Len(Append(q, m)) = Len(q) + 1 /\ Len(q) \in Nat
    OBVIOUS
  <1>2. \A j \in 1..Len(q) : Append(q, m)[j] = q[j]
    OBVIOUS
  <1>3. Append(q, m)[Len(q) + 1] = m
    OBVIOUS
  <1> SUFFICES ASSUME NEW j \in 1..(Len(q) + 1)
               PROVE  Append(q, m)[j] = <<w, a + j>>
    BY <1>1 DEF Continues
  <1>4. j \in 1..Len(q) \/ j = Len(q) + 1
    BY <1>1
  <1> HIDE DEF Continues
  <1>5. CASE j \in 1..Len(q)
    BY <1>2, <1>5 DEF Continues
  <1>6. CASE j = Len(q) + 1
    BY <1>1, <1>3, <1>6
  <1> QED
    BY <1>4, <1>5, <1>6

(* Dropping the first message of a run leaves the run after it. *)
LEMMA TailContinues ==
  ASSUME NEW w \in Writers, NEW a \in Nat, NEW q \in Seq(Msgs),
         Continues(w, a, q), q # <<>>
  PROVE  /\ Continues(w, a + 1, Tail(q))
         /\ a + Len(q) = a + 1 + Len(Tail(q))
         /\ Len(q) > 1 => q[2] = <<w, a + 2>> /\ Tail(q) # <<>>
  <1> DEFINE n == Len(q)
             t == Tail(q)
  <1>a. n \in Nat /\ Len(t) = n - 1
    OBVIOUS
  <1>b. Len(<<>>) = 0
    OBVIOUS
  <1>1. n > 1 => t # <<>>
    <2> HIDE DEF n, t
    <2>1. n > 1 => Len(t) # 0
      BY <1>a
    <2> QED
      BY <1>b, <2>1, Zenon
  <1> QED
    BY <1>1 DEF Continues

(* A failed ipc_send_direct leaves the message first in the output buffer. *)
LEMMA SendFailedKeeps ==
  ASSUME NEW w \in Writers, StoredInv, OutbufInv(w), SendFailed(w),
         pc[w] \notin {"idle", "notice"},
         UNCHANGED <<next_write_release, submitted>>
  PROVE  OutbufInv(w)'
  <1> DEFINE a == next_write_release
  <1>1. /\ a \in Nat /\ Accepted(w) = a /\ Accepted(w)' = a
        /\ pc'[w] = "idle" /\ wmsg[w] = <<w, a + 1>> /\ wmsg[w] \in Msgs
    BY DEF SendFailed, Goto, StoredInv, TypeOK, RingType, WriterType,
           PointerStored, OutbufInv, Accepted
  <1>2. CASE retrying[w]
    <2>1. outbuf' = outbuf
      BY <1>2 DEF SendFailed
    <2> QED
      BY <1>1, <1>2, <2>1 DEF OutbufInv
  <1>3. CASE ~retrying[w]
    <2>1. /\ outbuf[w] = <<>> /\ submitted[w] = a + 1
      BY <1>1, <1>3 DEF OutbufInv
    <2>2. outbuf'[w] = Append(outbuf[w], wmsg[w])
      BY <1>3 DEF SendFailed, OutbufAppend, StoredInv, TypeOK, WriterType
    <2>3. Continues(w, a, <<>>) /\ Len(<<>>) = 0 /\ <<>> \in Seq(Msgs)
      BY DEF Continues
    <2> HIDE DEF a
    <2>a. wmsg[w] = <<w, a + Len(<<>>) + 1>>
      BY <1>1, <2>3
    <2>b. /\ Continues(w, a, Append(<<>>, wmsg[w]))
          /\ Len(Append(<<>>, wmsg[w])) = Len(<<>>) + 1
      BY <1>1, <2>3, <2>a, AppendContinues
    <2>4. /\ Continues(w, a, outbuf'[w]) /\ Len(outbuf'[w]) = 1
      BY <2>1, <2>2, <2>3, <2>b
    <2> QED
      BY <1>1, <2>1, <2>4 DEF OutbufInv, Continues, a
  <1> QED
    BY <1>2, <1>3

(* shuso_ipc_send takes the next message, directly or into the buffer. *)
LEMMA SubmitKeeps ==
  ASSUME NEW w \in Writers, StoredInv, WriterInv(w), Submit(w)
  PROVE  WriterInv(w)'
  <1> USE DEF StoredInv, TypeOK, WriterInv
  <1>1. ReaderInv(w)' /\ HistoryInv(w)'
    BY DEF Submit, ring, reader, writer, ReaderInv, HistoryInv
  <1>2. CountersInv(w)'
    BY RingAssumption, SlotInRange
       DEF Submit, OutbufAppend, Goto, ring, reader, writer, RingType,
           ReaderType, WriterType, HistoryType, CountersInv, ReserveInv,
           ReaderInv, Storing
  <1>3. ReserveInv(w)'
    BY RingAssumption, SlotInRange
       DEF Submit, OutbufAppend, Goto, ring, reader, writer, RingType,
           ReaderType, WriterType, HistoryType, ReserveInv, Storing,
           Resetting, CountersInv
  <1>4. SlotsInv(w)'
    BY RingAssumption, SlotInRange
       DEF Submit, OutbufAppend, Goto, ring, reader, writer, RingType,
           ReaderType, WriterType, HistoryType, SlotsInv, FirstUnread,
           FirstUnwritten, ReserveInv, ReaderInv, CountersInv, Storing
  <1>5. OutbufInv(w)'
    <2> DEFINE a == Accepted(w)
               m == <<w, submitted[w] + 1>>
    <2>a. submitted[w] \in Nat /\ m \in Msgs
      BY RingAssumption DEF Submit, HistoryType, Msgs
    <2>1. /\ a \in Nat /\ a = next_write_release /\ submitted[w] \in Nat
          /\ m \in Msgs /\ outbuf[w] \in Seq(Msgs) /\ pc[w] = "idle"
      BY <2>a DEF Submit, Accepted, RingType, WriterType
    <2>2. submitted[w] = a + Len(outbuf[w]) /\ Continues(w, a, outbuf[w])
      BY <2>1 DEF OutbufInv, Continues
    <2>3. submitted'[w] = submitted[w] + 1 /\ next_write_release' = next_write_release
      BY DEF Submit, HistoryType, ring
    <2>4. CASE OutbufAppend(w, m) /\ UNCHANGED <<pc, wmsg, retrying>>
      <3>1. outbuf'[w] = Append(outbuf[w], m)
        BY <2>4 DEF OutbufAppend, WriterType
      <3>2. /\ Continues(w, a, outbuf'[w])
            /\ Len(outbuf'[w]) = Len(outbuf[w]) + 1
        BY <2>1, <2>2, <3>1, AppendContinues
      <3>3. Accepted(w)' = a /\ pc'[w] = "idle"
        BY <2>1, <2>3, <2>4 DEF Accepted
      <3> HIDE DEF a, m, StoredInv, TypeOK, WriterInv
      <3>4. submitted'[w] = Accepted(w)' + Len(outbuf'[w])
        BY <2>1, <2>2, <2>3, <3>2, <3>3
      <3>5. \A j \in 1..Len(outbuf'[w]) : outbuf'[w][j] = <<w, Accepted(w)' + j>>
        BY <3>2, <3>3 DEF Continues
      <3> QED
        BY <3>3, <3>4, <3>5 DEF OutbufInv
    <2>5. CASE /\ outbuf[w] = <<>> /\ Goto(w, "full1")
               /\ wmsg' = [wmsg EXCEPT ![w] = m]
               /\ retrying' = [retrying EXCEPT ![w] = FALSE]
               /\ UNCHANGED <<outbuf, send_retry>>
      <3>1. /\ pc'[w] = "full1" /\ wmsg'[w] = m /\ ~retrying'[w]
            /\ outbuf'[w] = <<>>
        BY <2>5 DEF Goto, WriterType
      <3>2. Accepted(w)' = a
        BY <2>1, <2>3, <3>1 DEF Accepted
      <3>3. Len(outbuf[w]) = 0
        BY <2>5
      <3> QED
        BY <2>1, <2>2, <2>3, <3>1, <3>2, <3>3 DEF OutbufInv
    <2> QED
      BY <2>4, <2>5 DEF Submit
  <1> QED
    BY <1>1, <1>2, <1>3, <1>4, <1>5

(* The retry timer takes up the first buffered message. *)
LEMMA RetryKeeps ==
  ASSUME NEW w \in Writers, StoredInv, WriterInv(w), Retry(w)
  PROVE  WriterInv(w)'
  <1> USE DEF StoredInv, TypeOK, WriterInv
  <1>1. ReaderInv(w)' /\ HistoryInv(w)'
    BY DEF Retry, ring, reader, writer, ReaderInv, HistoryInv
  <1>2. CountersInv(w)'
    BY RingAssumption, SlotInRange
       DEF Retry, Goto, ring, reader, writer, RingType, ReaderType,
           WriterType, HistoryType, CountersInv, ReserveInv, ReaderInv,
           Storing
  <1>3. ReserveInv(w)'
    BY RingAssumption, SlotInRange
       DEF Retry, Goto, ring, reader, writer, RingType, ReaderType,
           WriterType, HistoryType, ReserveInv, Storing, Resetting,
           CountersInv
  <1>4. SlotsInv(w)'
    BY RingAssumption, SlotInRange
       DEF Retry, Goto, ring, reader, writer, RingType, ReaderType,
           WriterType, HistoryType, SlotsInv, FirstUnread, FirstUnwritten,
           ReserveInv, ReaderInv, CountersInv, Storing
  <1>5. OutbufInv(w)'
    BY RingAssumption, SlotInRange
       DEF Retry, Goto, ring, reader, writer, RingType, ReaderType,
           WriterType, HistoryType, OutbufInv, Accepted
  <1> QED
    BY <1>1, <1>2, <1>3, <1>4, <1>5

(* A full ring at the first look: the message stays with its sender. *)
LEMMA CheckFullKeeps ==
  ASSUME NEW w \in Writers, StoredInv, WriterInv(w), CheckFull(w)
  PROVE  WriterInv(w)'
  <1> USE DEF StoredInv, TypeOK, WriterInv
  <1>1. ReaderInv(w)' /\ HistoryInv(w)'
    BY DEF CheckFull, ring, reader, writer, ReaderInv, HistoryInv
  <1>2. CountersInv(w)'
    BY RingAssumption, SlotInRange
       DEF CheckFull, SendFailed, OutbufAppend, Goto, ring, reader, writer,
           RingType, ReaderType, WriterType, HistoryType, CountersInv,
           ReserveInv, ReaderInv, Storing
  <1>3. ReserveInv(w)'
    BY RingAssumption, SlotInRange
       DEF CheckFull, SendFailed, OutbufAppend, Goto, ring, reader, writer,
           RingType, ReaderType, WriterType, HistoryType, ReserveInv,
           Storing, Resetting, CountersInv
  <1>4. SlotsInv(w)'
    BY RingAssumption, SlotInRange
       DEF CheckFull, SendFailed, OutbufAppend, Goto, ring, reader, writer,
           RingType, ReaderType, WriterType, HistoryType, SlotsInv,
           FirstUnread, FirstUnwritten, ReserveInv, ReaderInv, CountersInv,
           Storing
  <1>5. OutbufInv(w)'
    <2>1. CASE SendFailed(w)
      BY <2>1, SendFailedKeeps DEF CheckFull, ring
    <2>2. CASE ~full
      <3>1. /\ pc'[w] \notin {"idle", "notice"}
            /\ pc[w] \notin {"idle", "notice"}
            /\ UNCHANGED <<wmsg, retrying, outbuf, submitted, next_write_release>>
        BY <2>2 DEF CheckFull, Goto, ring, WriterType
      <3> QED
        BY <3>1 DEF OutbufInv, Accepted
    <2> QED
      BY <2>1, <2>2 DEF CheckFull
  <1> QED
    BY <1>1, <1>2, <1>3, <1>4, <1>5

(* The reserved index is the one that is released next. *)
LEMMA ReserveIndexKeeps ==
  ASSUME NEW w \in Writers, StoredInv, WriterInv(w), ReserveIndex(w)
  PROVE  WriterInv(w)'
  <1> USE DEF StoredInv, TypeOK, WriterInv
  <1>1. ReaderInv(w)' /\ HistoryInv(w)'
    BY DEF ReserveIndex, ring, reader, writer, ReaderInv, HistoryInv
  <1>2. CountersInv(w)'
    BY RingAssumption, SlotInRange
       DEF ReserveIndex, Goto, ring, reader, writer, RingType, ReaderType,
           WriterType, HistoryType, CountersInv, ReserveInv, ReaderInv,
           Storing
  <1>3. ReserveInv(w)'
    BY RingAssumption, SlotInRange
       DEF ReserveIndex, Goto, ring, reader, writer, RingType, ReaderType,
           WriterType, HistoryType, ReserveInv, Storing, Resetting,
           CountersInv
  <1>4. SlotsInv(w)'
    BY RingAssumption, SlotInRange
       DEF ReserveIndex, Goto, ring, reader, writer, RingType, ReaderType,
           WriterType, HistoryType, SlotsInv, FirstUnread, FirstUnwritten,
           ReserveInv, ReaderInv, CountersInv, Storing
  <1>5. OutbufInv(w)'
    BY RingAssumption, SlotInRange
       DEF ReserveIndex, Goto, ring, reader, writer, RingType, ReaderType,
           WriterType, HistoryType, OutbufInv, Accepted
  <1> QED
    BY <1>1, <1>2, <1>3, <1>4, <1>5

(* The loaded next_read is at most the present one. *)
LEMMA LoadNextReadKeeps ==
  ASSUME NEW w \in Writers, StoredInv, WriterInv(w), LoadNextRead(w)
  PROVE  WriterInv(w)'
  <1> USE DEF StoredInv, TypeOK, WriterInv
  <1>1. ReaderInv(w)' /\ HistoryInv(w)'
    BY DEF LoadNextRead, ring, reader, writer, ReaderInv, HistoryInv
  <1>2. CountersInv(w)'
    BY RingAssumption, SlotInRange
       DEF LoadNextRead, Goto, ring, reader, writer, RingType, ReaderType,
           WriterType, HistoryType, CountersInv, ReserveInv, ReaderInv,
           Storing
  <1>3. ReserveInv(w)'
    BY RingAssumption, SlotInRange
       DEF LoadNextRead, Goto, ring, reader, writer, RingType, ReaderType,
           WriterType, HistoryType, ReserveInv, Storing, Resetting,
           CountersInv
  <1>4. SlotsInv(w)'
    BY RingAssumption, SlotInRange
       DEF LoadNextRead, Goto, ring, reader, writer, RingType, ReaderType,
           WriterType, HistoryType, SlotsInv, FirstUnread, FirstUnwritten,
           ReserveInv, ReaderInv, CountersInv, Storing
  <1>5. OutbufInv(w)'
    BY RingAssumption, SlotInRange
       DEF LoadNextRead, Goto, ring, reader, writer, RingType, ReaderType,
           WriterType, HistoryType, OutbufInv, Accepted
  <1> QED
    BY <1>1, <1>2, <1>3, <1>4, <1>5

(* Past the capacity check there is room for one more message. *)
LEMMA CheckRoomKeeps ==
  ASSUME NEW w \in Writers, StoredInv, WriterInv(w), CheckRoom(w)
  PROVE  WriterInv(w)'
  <1> USE DEF StoredInv, TypeOK, WriterInv
  <1>1. ReaderInv(w)' /\ HistoryInv(w)'
    BY DEF CheckRoom, ring, reader, writer, ReaderInv, HistoryInv
  <1>2. CountersInv(w)'
    BY RingAssumption, SlotInRange
       DEF CheckRoom, NoRoom, SendFailed, OutbufAppend, Goto, ring, reader,
           writer, RingType, ReaderType, WriterType, HistoryType,
           CountersInv, ReserveInv, ReaderInv, Storing
  <1>3. ReserveInv(w)'
    BY RingAssumption, SlotInRange
       DEF CheckRoom, NoRoom, SendFailed, OutbufAppend, Goto, ring, reader,
           writer, RingType, ReaderType, WriterType, HistoryType, ReserveInv,
           Storing, Resetting, CountersInv
  <1>4. SlotsInv(w)'
    BY RingAssumption, SlotInRange
       DEF CheckRoom, NoRoom, SendFailed, OutbufAppend, Goto, ring, reader,
           writer, RingType, ReaderType, WriterType, HistoryType, SlotsInv,
           FirstUnread, FirstUnwritten, ReserveInv, ReaderInv, CountersInv,
           Storing
  <1>5. OutbufInv(w)'
    <2>1. CASE SendFailed(w)
      BY <2>1, SendFailedKeeps DEF CheckRoom, ring
    <2>2. CASE ~full
      <3>1. /\ pc'[w] \notin {"idle", "notice"}
            /\ pc[w] \notin {"idle", "notice"}
            /\ UNCHANGED <<wmsg, retrying, outbuf, submitted, next_write_release>>
        BY <2>2 DEF CheckRoom, Goto, ring, WriterType
      <3> QED
        BY <3>1 DEF OutbufInv, Accepted
    <2> QED
      BY <2>1, <2>2 DEF CheckRoom
  <1> QED
    BY <1>1, <1>2, <1>3, <1>4, <1>5

(* The flag goes up while the writer has a reserved index to be reset. *)
LEMMA SetFullKeeps ==
  ASSUME NEW w \in Writers, StoredInv, WriterInv(w), SetFull(w)
  PROVE  WriterInv(w)'
  <1> USE DEF StoredInv, TypeOK, WriterInv
  <1>1. ReaderInv(w)' /\ HistoryInv(w)'
    BY DEF SetFull, ring, reader, writer, ReaderInv, HistoryInv
  <1>2. CountersInv(w)'
    BY RingAssumption, SlotInRange
       DEF SetFull, SendFailed, OutbufAppend, Goto, ring, reader, writer,
           RingType, ReaderType, WriterType, HistoryType, CountersInv,
           ReserveInv, ReaderInv, Storing
  <1>3. ReserveInv(w)'
    BY RingAssumption, SlotInRange
       DEF SetFull, SendFailed, OutbufAppend, Goto, ring, reader, writer,
           RingType, ReaderType, WriterType, HistoryType, ReserveInv,
           Storing, Resetting, CountersInv
  <1>4. SlotsInv(w)'
    BY RingAssumption, SlotInRange
       DEF SetFull, SendFailed, OutbufAppend, Goto, ring, reader, writer,
           RingType, ReaderType, WriterType, HistoryType, SlotsInv,
           FirstUnread, FirstUnwritten, ReserveInv, ReaderInv, CountersInv,
           Storing
  <1>5. OutbufInv(w)'
    BY SendFailedKeeps DEF SetFull
  <1> QED
    BY <1>1, <1>2, <1>3, <1>4, <1>5

(* The pointer goes to a slot outside of the unread ones. *)
LEMMA WritePtrKeeps ==
  ASSUME NEW w \in Writers, StoredInv, WriterInv(w), WritePtr(w)
  PROVE  WriterInv(w)'
  <1> USE DEF StoredInv, TypeOK, WriterInv
  <1>1. ReaderInv(w)' /\ HistoryInv(w)'
    BY DEF WritePtr, ring, reader, writer, ReaderInv, HistoryInv
  <1>2. CountersInv(w)'
    BY RingAssumption, SlotInRange
       DEF WritePtr, Goto, ring, reader, writer, RingType, ReaderType,
           WriterType, HistoryType, CountersInv, ReserveInv, ReaderInv,
           Storing
  <1>3. ReserveInv(w)'
    BY RingAssumption, SlotInRange
       DEF WritePtr, Goto, ring, reader, writer, RingType, ReaderType,
           WriterType, HistoryType, ReserveInv, Storing, Resetting,
           CountersInv
  <1>4. SlotsInv(w)'
    <2> DEFINE n == next_write_release
    <2>1. /\ n \in Nat /\ next_read \in Nat /\ next_read <= n
          /\ n - next_read <= RingSize - 1 /\ windex[w] = n
          /\ pc[w] = "ptr" /\ pc'[w] = "code" /\ wmsg[w] = <<w, n + 1>>
          /\ ptr' = [ptr EXCEPT ![Slot(n)] = <<w, n + 1>>]
          /\ UNCHANGED <<n, next_read, rpc, code, windex>>
      BY DEF WritePtr, Goto, reader, RingType, WriterType, CountersInv,
             ReserveInv, Storing, OutbufInv, Accepted
    <2>2. ptr'[Slot(n)] = <<w, n + 1>>
      BY <2>1, SlotInRange DEF RingType
    <2>3. \A i \in next_read..(n - 1) : ptr'[Slot(i)] = ptr[Slot(i)]
      BY <2>1, RingAssumption, SlotInjective, SlotInRange DEF RingType
    <2> QED
      BY <2>1, <2>2, <2>3 DEF SlotsInv, FirstUnread, FirstUnwritten
  <1>5. OutbufInv(w)'
    BY RingAssumption, SlotInRange
       DEF WritePtr, Goto, ring, reader, writer, RingType, ReaderType,
           WriterType, HistoryType, OutbufInv, Accepted
  <1> QED
    BY <1>1, <1>2, <1>3, <1>4, <1>5

(* The code makes the message the last of the unread ones. *)
LEMMA WriteCodeKeeps ==
  ASSUME NEW w \in Writers, StoredInv, WriterInv(w), WriteCode(w)
  PROVE  WriterInv(w)'
  <1> USE DEF StoredInv, TypeOK, WriterInv
  <1>1. ReaderInv(w)' /\ HistoryInv(w)'
    BY DEF WriteCode, ring, reader, writer, ReaderInv, HistoryInv
  <1>2. CountersInv(w)'
    BY RingAssumption, SlotInRange
       DEF WriteCode, Goto, ring, reader, writer, RingType, ReaderType,
           WriterType, HistoryType, CountersInv, ReserveInv, ReaderInv,
           Storing
  <1>3. ReserveInv(w)'
    BY RingAssumption, SlotInRange
       DEF WriteCode, Goto, ring, reader, writer, RingType, ReaderType,
           WriterType, HistoryType, ReserveInv, Storing, Resetting,
           CountersInv
  <1>4. SlotsInv(w)'
    <2> DEFINE n == next_write_release
    <2>1. /\ n \in Nat /\ next_read \in Nat /\ next_read <= n
          /\ n - next_read <= RingSize - 1 /\ windex[w] = n
          /\ pc[w] = "code" /\ pc'[w] = "release" /\ wmsg[w] = <<w, n + 1>>
          /\ code' = [code EXCEPT ![Slot(n)] = <<w, n + 1>>]
          /\ UNCHANGED <<n, next_read, rpc, ptr, windex>>
          /\ rpc = "advance" => next_read < n
      BY DEF WriteCode, Goto, reader, RingType, WriterType, CountersInv,
             ReserveInv, ReaderInv, Storing, OutbufInv, Accepted
    <2>2. FirstUnread \in Nat /\ FirstUnread <= n /\ n < FirstUnread + RingSize
      BY <2>1, RingAssumption DEF FirstUnread
    <2>3. /\ FirstUnwritten(w) = n /\ FirstUnwritten(w)' = n + 1
          /\ FirstUnread' = FirstUnread
      BY <2>1 DEF FirstUnwritten, FirstUnread
    <2>4. code'[Slot(n)] = <<w, n + 1>>
      BY <2>1, SlotInRange DEF RingType
    <2>5. \A i \in FirstUnread..(n - 1) : code'[Slot(i)] = code[Slot(i)]
      BY <2>1, <2>2, RingAssumption, SlotInjective, SlotInRange DEF RingType
    <2>6. \A i \in (n + 1)..(FirstUnread + RingSize - 1) :
             code'[Slot(i)] = code[Slot(i)]
      BY <2>1, <2>2, RingAssumption, SlotInjective, SlotInRange DEF RingType
    <2>7. \A i \in FirstUnread..(n + 1 - 1) : code'[Slot(i)] = <<w, i + 1>>
      BY <2>1, <2>2, <2>3, <2>4, <2>5 DEF SlotsInv
    <2>8. \A i \in (n + 1)..(FirstUnread + RingSize - 1) : code'[Slot(i)] = NIL
      BY <2>1, <2>2, <2>3, <2>6, RingAssumption DEF SlotsInv
    <2> QED
      BY <2>1, <2>3, <2>7, <2>8 DEF SlotsInv
  <1>5. OutbufInv(w)'
    BY RingAssumption, SlotInRange
       DEF WriteCode, Goto, ring, reader, writer, RingType, ReaderType,
           WriterType, HistoryType, OutbufInv, Accepted
  <1> QED
    BY <1>1, <1>2, <1>3, <1>4, <1>5

(* The release makes the message visible to the reader. *)
LEMMA ReleaseIndexKeeps ==
  ASSUME NEW w \in Writers, StoredInv, WriterInv(w), ReleaseIndex(w)
  PROVE  WriterInv(w)'
  <1> USE DEF StoredInv, TypeOK, WriterInv
  <1>1. HistoryInv(w)'
    BY DEF ReleaseIndex, ring, reader, writer, HistoryInv
  <1>2. CountersInv(w)'
    BY RingAssumption, SlotInRange
       DEF ReleaseIndex, Goto, ring, reader, writer, RingType, ReaderType,
           WriterType, HistoryType, CountersInv, ReserveInv, ReaderInv,
           Storing
  <1>3. ReserveInv(w)'
    BY RingAssumption, SlotInRange
       DEF ReleaseIndex, Goto, ring, reader, writer, RingType, ReaderType,
           WriterType, HistoryType, ReserveInv, Storing, Resetting,
           CountersInv
  <1>4. ReaderInv(w)'
    BY RingAssumption, SlotInRange
       DEF ReleaseIndex, Goto, ring, reader, writer, RingType, ReaderType,
           WriterType, HistoryType, ReaderInv, SlotsInv, FirstUnread,
           FirstUnwritten, ReserveInv
  <1>5. SlotsInv(w)'
    BY RingAssumption, SlotInRange, SMTT(60)
       DEF ReleaseIndex, Goto, ring, reader, writer, RingType, ReaderType,
           WriterType, HistoryType, SlotsInv, FirstUnread, FirstUnwritten,
           ReserveInv, ReaderInv, CountersInv, Storing
  <1>6. OutbufInv(w)'
    BY RingAssumption, SlotInRange
       DEF ReleaseIndex, Goto, ring, reader, writer, RingType, ReaderType,
           WriterType, HistoryType, OutbufInv, Accepted
  <1> QED
    BY <1>1, <1>2, <1>3, <1>4, <1>5, <1>6

(* The send is over: the buffered message, if it was one, is dropped. *)
LEMMA SendNoticeKeeps ==
  ASSUME NEW w \in Writers, StoredInv, WriterInv(w), SendNotice(w)
  PROVE  WriterInv(w)'
  <1> USE DEF StoredInv, TypeOK, WriterInv
  <1>1. ReaderInv(w)' /\ HistoryInv(w)'
    BY DEF SendNotice, ring, reader, writer, ReaderInv, HistoryInv
  <1>2. CountersInv(w)'
    BY RingAssumption, SlotInRange
       DEF SendNotice, SendSucceeded, Goto, ring, reader, writer, RingType,
           ReaderType, WriterType, HistoryType, CountersInv, ReserveInv,
           ReaderInv, Storing
  <1>3. ReserveInv(w)'
    BY RingAssumption, SlotInRange
       DEF SendNotice, SendSucceeded, Goto, ring, reader, writer, RingType,
           ReaderType, WriterType, HistoryType, ReserveInv, Storing,
           Resetting, CountersInv
  <1>4. SlotsInv(w)'
    BY RingAssumption, SlotInRange
       DEF SendNotice, SendSucceeded, Goto, ring, reader, writer, RingType,
           ReaderType, WriterType, HistoryType, SlotsInv, FirstUnread,
           FirstUnwritten, ReserveInv, ReaderInv, CountersInv, Storing
  <1>5. OutbufInv(w)'
    <2> DEFINE a == Accepted(w)
               q == outbuf[w]
    <2>1. /\ next_write_release = a + 1 /\ a \in Int
          /\ UNCHANGED <<next_write_release, submitted>>
          /\ pc[w] = "notice" /\ wmsg[w] = <<w, a + 1>> /\ wmsg[w] \in Msgs
      BY DEF SendNotice, ring, RingType, Accepted, OutbufInv, WriterType,
             PointerStored
    <2>2. a \in Nat /\ q \in Seq(Msgs)
      BY <2>1 DEF Msgs, WriterType
    <2>3. CASE ~retrying[w]
      <3>1. pc'[w] = "idle" /\ outbuf' = outbuf /\ q = <<>> /\ submitted[w] = a + 1
        BY <2>1, <2>3
           DEF SendNotice, SendSucceeded, Goto, WriterType, OutbufInv
      <3>2. Accepted(w)' = a + 1
        BY <2>1, <3>1 DEF Accepted
      <3>3. Len(q) = 0
        BY <3>1
      <3> QED
        BY <2>1, <2>2, <3>1, <3>2, <3>3 DEF OutbufInv
    <2>4. CASE retrying[w]
      <3>1. /\ q # <<>> /\ submitted[w] = a + Len(q) /\ Continues(w, a, q)
        BY <2>1, <2>4 DEF OutbufInv, Continues
      <3>2. outbuf'[w] = Tail(q) /\ retrying' = retrying
        BY <2>4 DEF SendNotice, SendSucceeded, WriterType
      <3>3. /\ Continues(w, a + 1, Tail(q))
            /\ a + Len(q) = a + 1 + Len(Tail(q))
            /\ Len(q) > 1 => q[2] = <<w, a + 2>> /\ Tail(q) # <<>>
        BY <2>2, <3>1, TailContinues
      <3>4. CASE Len(q) = 1
        <4>1. pc'[w] = "idle"
          BY <2>4, <3>4 DEF SendNotice, SendSucceeded, Goto, WriterType
        <4>2. Accepted(w)' = a + 1
          BY <2>1, <4>1 DEF Accepted
        <4> QED
          BY <2>1, <2>2, <3>1, <3>2, <3>3, <3>4, <4>1, <4>2
             DEF OutbufInv, Continues
      <3>5. CASE Len(q) > 1
        <4>1. pc'[w] = "full1" /\ wmsg'[w] = q[2]
          BY <2>2, <2>4, <3>5 DEF SendNotice, SendSucceeded, Goto, WriterType
        <4>2. Accepted(w)' = a + 1
          BY <2>1, <4>1 DEF Accepted
        <4>3. Tail(q) # <<>>
          BY <3>3, <3>5
        <4>4. wmsg'[w] = <<w, Accepted(w)' + 1>>
          BY <2>2, <3>3, <3>5, <4>1, <4>2
        <4>5. submitted'[w] = Accepted(w)' + Len(outbuf'[w])
          BY <2>1, <3>1, <3>2, <3>3, <4>2
        <4>6. Continues(w, Accepted(w)', outbuf'[w])
          BY <3>2, <3>3, <4>2
        <4>7. retrying'[w] /\ pc'[w] # "idle"
          BY <2>4, <3>2, <4>1
        <4> QED
          BY <3>2, <4>3, <4>4, <4>5, <4>6, <4>7 DEF OutbufInv, Continues
      <3> QED
        BY <2>4, <3>4, <3>5 DEF SendNotice, SendSucceeded
    <2> QED
      BY <2>3, <2>4
  <1> QED
    BY <1>1, <1>2, <1>3, <1>4, <1>5

(* Starting to read changes no message. *)
LEMMA StartReaderKeeps ==
  ASSUME NEW w \in Writers, StoredInv, WriterInv(w), StartReader
  PROVE  WriterInv(w)'
  <1> USE DEF StoredInv, TypeOK, WriterInv
  <1>1. CountersInv(w)' /\ OutbufInv(w)'
    BY DEF StartReader, ring, reader, writer, CountersInv, OutbufInv, Accepted
  <1>2. ReserveInv(w)'
    BY RingAssumption, SlotInRange
       DEF StartReader, ring, reader, writer, RingType, ReaderType,
           WriterType, HistoryType, ReserveInv, Storing, Resetting,
           CountersInv
  <1>3. ReaderInv(w)'
    BY RingAssumption, SlotInRange
       DEF StartReader, ring, reader, writer, RingType, ReaderType,
           WriterType, HistoryType, ReaderInv, SlotsInv, FirstUnread,
           FirstUnwritten, ReserveInv
  <1>4. SlotsInv(w)'
    BY RingAssumption, SlotInRange
       DEF StartReader, ring, reader, writer, RingType, ReaderType,
           WriterType, HistoryType, SlotsInv, FirstUnread, FirstUnwritten,
           ReserveInv, ReaderInv, CountersInv, Storing
  <1>5. HistoryInv(w)'
    BY RingAssumption, SlotInRange
       DEF StartReader, ring, reader, writer, RingType, ReaderType,
           WriterType, HistoryType, HistoryInv, ReaderInv
  <1> QED
    BY <1>1, <1>2, <1>3, <1>4, <1>5

(* The runstate is no concern of the ring. *)
LEMMA BecomeRunningKeeps ==
  ASSUME NEW w \in Writers, StoredInv, WriterInv(w), BecomeRunning
  PROVE  WriterInv(w)'
  <1> USE DEF StoredInv, TypeOK, WriterInv
  <1>1. CountersInv(w)' /\ ReserveInv(w)' /\ ReaderInv(w)' /\ SlotsInv(w)' /\ OutbufInv(w)' /\ HistoryInv(w)'
    BY DEF BecomeRunning, ring, reader, writer, CountersInv, ReserveInv,
           ReaderInv, SlotsInv, OutbufInv, HistoryInv, FirstUnread,
           FirstUnwritten, Accepted
  <1> QED
    BY <1>1

(* ipc_receive starts at next_read. *)
LEMMA TakeNoticeKeeps ==
  ASSUME NEW w \in Writers, StoredInv, WriterInv(w), TakeNotice
  PROVE  WriterInv(w)'
  <1> USE DEF StoredInv, TypeOK, WriterInv
  <1>1. CountersInv(w)' /\ OutbufInv(w)'
    BY DEF TakeNotice, ring, reader, writer, CountersInv, OutbufInv, Accepted
  <1>2. ReserveInv(w)'
    BY RingAssumption, SlotInRange
       DEF TakeNotice, ring, reader, writer, RingType, ReaderType,
           WriterType, HistoryType, ReserveInv, Storing, Resetting,
           CountersInv
  <1>3. ReaderInv(w)'
    BY RingAssumption, SlotInRange
       DEF TakeNotice, ring, reader, writer, RingType, ReaderType,
           WriterType, HistoryType, ReaderInv, SlotsInv, FirstUnread,
           FirstUnwritten, ReserveInv
  <1>4. SlotsInv(w)'
    BY RingAssumption, SlotInRange
       DEF TakeNotice, ring, reader, writer, RingType, ReaderType,
           WriterType, HistoryType, SlotsInv, FirstUnread, FirstUnwritten,
           ReserveInv, ReaderInv, CountersInv, Storing
  <1>5. HistoryInv(w)'
    BY RingAssumption, SlotInRange
       DEF TakeNotice, ring, reader, writer, RingType, ReaderType,
           WriterType, HistoryType, HistoryInv, ReaderInv
  <1> QED
    BY <1>1, <1>2, <1>3, <1>4, <1>5

(* The reader goes on only when a message has been released. *)
LEMMA CheckReleasedKeeps ==
  ASSUME NEW w \in Writers, StoredInv, WriterInv(w), CheckReleased
  PROVE  WriterInv(w)'
  <1> USE DEF StoredInv, TypeOK, WriterInv
  <1>1. CountersInv(w)' /\ OutbufInv(w)'
    BY DEF CheckReleased, ring, reader, writer, CountersInv, OutbufInv,
           Accepted
  <1>2. ReserveInv(w)'
    BY RingAssumption, SlotInRange
       DEF CheckReleased, ring, reader, writer, RingType, ReaderType,
           WriterType, HistoryType, ReserveInv, Storing, Resetting,
           CountersInv
  <1>3. ReaderInv(w)'
    BY RingAssumption, SlotInRange
       DEF CheckReleased, ring, reader, writer, RingType, ReaderType,
           WriterType, HistoryType, ReaderInv, SlotsInv, FirstUnread,
           FirstUnwritten, ReserveInv
  <1>4. SlotsInv(w)'
    BY RingAssumption, SlotInRange
       DEF CheckReleased, ring, reader, writer, RingType, ReaderType,
           WriterType, HistoryType, SlotsInv, FirstUnread, FirstUnwritten,
           ReserveInv, ReaderInv, CountersInv, Storing
  <1>5. HistoryInv(w)'
    BY RingAssumption, SlotInRange
       DEF CheckReleased, ring, reader, writer, RingType, ReaderType,
           WriterType, HistoryType, HistoryInv, ReaderInv
  <1> QED
    BY <1>1, <1>2, <1>3, <1>4, <1>5

(* The code that is read is the next message. *)
LEMMA ReadCodeKeeps ==
  ASSUME NEW w \in Writers, StoredInv, WriterInv(w), ReadCode
  PROVE  WriterInv(w)'
  <1> USE DEF StoredInv, TypeOK, WriterInv
  <1>1. CountersInv(w)' /\ OutbufInv(w)'
    BY DEF ReadCode, ring, reader, writer, CountersInv, OutbufInv, Accepted
  <1>2. ReserveInv(w)'
    BY RingAssumption, SlotInRange
       DEF ReadCode, ring, reader, writer, RingType, ReaderType, WriterType,
           HistoryType, ReserveInv, Storing, Resetting, CountersInv
  <1>3. ReaderInv(w)'
    BY RingAssumption, SlotInRange
       DEF ReadCode, ring, reader, writer, RingType, ReaderType, WriterType,
           HistoryType, ReaderInv, SlotsInv, FirstUnread, FirstUnwritten,
           ReserveInv
  <1>4. SlotsInv(w)'
    BY RingAssumption, SlotInRange
       DEF ReadCode, ring, reader, writer, RingType, ReaderType, WriterType,
           HistoryType, SlotsInv, FirstUnread, FirstUnwritten, ReserveInv,
           ReaderInv, CountersInv, Storing
  <1>5. HistoryInv(w)'
    BY RingAssumption, SlotInRange
       DEF ReadCode, ring, reader, writer, RingType, ReaderType, WriterType,
           HistoryType, HistoryInv, ReaderInv
  <1> QED
    BY <1>1, <1>2, <1>3, <1>4, <1>5

(* The pointer that is read belongs to the code. *)
LEMMA ReadPtrKeeps ==
  ASSUME NEW w \in Writers, StoredInv, WriterInv(w), ReadPtr
  PROVE  WriterInv(w)'
  <1> USE DEF StoredInv, TypeOK, WriterInv
  <1>1. CountersInv(w)' /\ OutbufInv(w)'
    BY DEF ReadPtr, ring, reader, writer, CountersInv, OutbufInv, Accepted
  <1>2. ReserveInv(w)'
    BY RingAssumption, SlotInRange
       DEF ReadPtr, ring, reader, writer, RingType, ReaderType, WriterType,
           HistoryType, ReserveInv, Storing, Resetting, CountersInv
  <1>3. ReaderInv(w)'
    BY RingAssumption, SlotInRange
       DEF ReadPtr, ring, reader, writer, RingType, ReaderType, WriterType,
           HistoryType, ReaderInv, SlotsInv, FirstUnread, FirstUnwritten,
           ReserveInv
  <1>4. SlotsInv(w)'
    BY RingAssumption, SlotInRange
       DEF ReadPtr, ring, reader, writer, RingType, ReaderType, WriterType,
           HistoryType, SlotsInv, FirstUnread, FirstUnwritten, ReserveInv,
           ReaderInv, CountersInv, Storing
  <1>5. HistoryInv(w)'
    BY RingAssumption, SlotInRange
       DEF ReadPtr, ring, reader, writer, RingType, ReaderType, WriterType,
           HistoryType, HistoryInv, ReaderInv
  <1> QED
    BY <1>1, <1>2, <1>3, <1>4, <1>5

(* The cleared slot is the first one the writer may use again. *)
LEMMA ClearSlotKeeps ==
  ASSUME NEW w \in Writers, StoredInv, WriterInv(w), ClearSlot
  PROVE  WriterInv(w)'
  <1> USE DEF StoredInv, TypeOK, WriterInv
  <1>1. CountersInv(w)' /\ OutbufInv(w)'
    BY DEF ClearSlot, ring, reader, writer, CountersInv, OutbufInv, Accepted
  <1>2. ReserveInv(w)'
    BY RingAssumption, SlotInRange
       DEF ClearSlot, ring, reader, writer, RingType, ReaderType, WriterType,
           HistoryType, ReserveInv, Storing, Resetting, CountersInv
  <1>3. ReaderInv(w)'
    BY RingAssumption, SlotInRange
       DEF ClearSlot, ring, reader, writer, RingType, ReaderType, WriterType,
           HistoryType, ReaderInv, SlotsInv, FirstUnread, FirstUnwritten,
           ReserveInv
  <1>4. SlotsInv(w)'
    <2> DEFINE r == next_read
               u == FirstUnwritten(w)
    <2>1. /\ r \in Nat /\ next_write_release \in Nat /\ read_index = r
          /\ r < next_write_release
          /\ next_write_release - r <= RingSize
          /\ rpc = "clear" /\ rpc' = "advance"
          /\ code' = [code EXCEPT ![Slot(r)] = NIL]
          /\ UNCHANGED <<next_read, next_write_release, pc, ptr, windex>>
      BY DEF ClearSlot, writer, RingType, ReaderInv, CountersInv
    <2>2. u \in Nat /\ r < u /\ u <= r + RingSize
      BY <2>1, RingAssumption DEF FirstUnwritten, CountersInv
    <2>3. FirstUnread = r /\ FirstUnread' = r + 1 /\ FirstUnwritten(w)' = u
      BY <2>1 DEF FirstUnwritten, FirstUnread
    <2>4. code'[Slot(r)] = NIL
      BY <2>1, SlotInRange DEF RingType
    <2>5. \A i \in (r + 1)..(r + RingSize - 1) : code'[Slot(i)] = code[Slot(i)]
      BY <2>1, RingAssumption, SlotInjective, SlotInRange DEF RingType
    <2>6. Slot(r + RingSize) = Slot(r)
      BY <2>1, RingAssumption, SlotPeriod
    <2>7. \A i \in (r + 1)..(u - 1) : code'[Slot(i)] = <<w, i + 1>>
      BY <2>1, <2>2, <2>3, <2>5, RingAssumption DEF SlotsInv
    <2>8. \A i \in u..(r + RingSize - 1) : code'[Slot(i)] = NIL
      BY <2>1, <2>2, <2>3, <2>5, RingAssumption DEF SlotsInv
    <2>9. \A i \in u..(r + 1 + RingSize - 1) : code'[Slot(i)] = NIL
      <3> SUFFICES ASSUME NEW i \in u..(r + 1 + RingSize - 1)
                   PROVE  code'[Slot(i)] = NIL
        OBVIOUS
      <3>1. i = r + RingSize \/ i \in u..(r + RingSize - 1)
        BY <2>1, <2>2, RingAssumption
      <3> QED
        BY <2>4, <2>6, <2>8, <3>1
    <2> QED
      BY <2>1, <2>3, <2>7, <2>9 DEF SlotsInv
  <1>5. HistoryInv(w)'
    BY RingAssumption, SlotInRange
       DEF ClearSlot, ring, reader, writer, RingType, ReaderType, WriterType,
           HistoryType, HistoryInv, ReaderInv
  <1> QED
    BY <1>1, <1>2, <1>3, <1>4, <1>5

(* The message leaves the ring. *)
LEMMA AdvanceReadKeeps ==
  ASSUME NEW w \in Writers, StoredInv, WriterInv(w), AdvanceRead
  PROVE  WriterInv(w)'
  <1> USE DEF StoredInv, TypeOK, WriterInv
  <1>1. OutbufInv(w)'
    BY DEF AdvanceRead, ring, reader, writer, OutbufInv, Accepted
  <1>2. CountersInv(w)'
    BY RingAssumption, SlotInRange
       DEF AdvanceRead, ring, reader, writer, RingType, ReaderType,
           WriterType, HistoryType, CountersInv, ReserveInv, ReaderInv,
           Storing
  <1>3. ReserveInv(w)'
    BY RingAssumption, SlotInRange
       DEF AdvanceRead, ring, reader, writer, RingType, ReaderType,
           WriterType, HistoryType, ReserveInv, Storing, Resetting,
           CountersInv
  <1>4. ReaderInv(w)'
    BY RingAssumption, SlotInRange
       DEF AdvanceRead, ring, reader, writer, RingType, ReaderType,
           WriterType, HistoryType, ReaderInv, SlotsInv, FirstUnread,
           FirstUnwritten, ReserveInv
  <1>5. SlotsInv(w)'
    BY RingAssumption, SlotInRange
       DEF AdvanceRead, ring, reader, writer, RingType, ReaderType,
           WriterType, HistoryType, SlotsInv, FirstUnread, FirstUnwritten,
           ReserveInv, ReaderInv, CountersInv, Storing
  <1>6. HistoryInv(w)'
    BY RingAssumption, SlotInRange
       DEF AdvanceRead, ring, reader, writer, RingType, ReaderType,
           WriterType, HistoryType, HistoryInv, ReaderInv
  <1> QED
    BY <1>1, <1>2, <1>3, <1>4, <1>5, <1>6

(* The handler has seen one more message. *)
LEMMA HandleKeeps ==
  ASSUME NEW w \in Writers, StoredInv, WriterInv(w), Handle
  PROVE  WriterInv(w)'
  <1> USE DEF StoredInv, TypeOK, WriterInv
  <1>1. CountersInv(w)' /\ OutbufInv(w)'
    BY DEF Handle, ring, reader, writer, CountersInv, OutbufInv, Accepted
  <1>2. ReserveInv(w)'
    BY RingAssumption, SlotInRange
       DEF Handle, ring, reader, writer, RingType, ReaderType, WriterType,
           HistoryType, ReserveInv, Storing, Resetting, CountersInv
  <1>3. ReaderInv(w)'
    BY RingAssumption, SlotInRange
       DEF Handle, ring, reader, writer, RingType, ReaderType, WriterType,
           HistoryType, ReaderInv, SlotsInv, FirstUnread, FirstUnwritten,
           ReserveInv
  <1>4. SlotsInv(w)'
    BY RingAssumption, SlotInRange
       DEF Handle, ring, reader, writer, RingType, ReaderType, WriterType,
           HistoryType, SlotsInv, FirstUnread, FirstUnwritten, ReserveInv,
           ReaderInv, CountersInv, Storing
  <1>5. HistoryInv(w)'
    BY RingAssumption, SlotInRange
       DEF Handle, ring, reader, writer, RingType, ReaderType, WriterType,
           HistoryType, HistoryInv, ReaderInv
  <1> QED
    BY <1>1, <1>2, <1>3, <1>4, <1>5

(* The reset is only entered with the flag up. *)
LEMMA IfFullKeeps ==
  ASSUME NEW w \in Writers, StoredInv, WriterInv(w), IfFull
  PROVE  WriterInv(w)'
  <1> USE DEF StoredInv, TypeOK, WriterInv
  <1>1. CountersInv(w)' /\ OutbufInv(w)'
    BY DEF IfFull, ring, reader, writer, CountersInv, OutbufInv, Accepted
  <1>2. ReserveInv(w)'
    BY RingAssumption, SlotInRange
       DEF IfFull, ring, reader, writer, RingType, ReaderType, WriterType,
           HistoryType, ReserveInv, Storing, Resetting, CountersInv
  <1>3. ReaderInv(w)'
    BY RingAssumption, SlotInRange
       DEF IfFull, ring, reader, writer, RingType, ReaderType, WriterType,
           HistoryType, ReaderInv, SlotsInv, FirstUnread, FirstUnwritten,
           ReserveInv
  <1>4. SlotsInv(w)'
    BY RingAssumption, SlotInRange
       DEF IfFull, ring, reader, writer, RingType, ReaderType, WriterType,
           HistoryType, SlotsInv, FirstUnread, FirstUnwritten, ReserveInv,
           ReaderInv, CountersInv, Storing
  <1>5. HistoryInv(w)'
    BY RingAssumption, SlotInRange
       DEF IfFull, ring, reader, writer, RingType, ReaderType, WriterType,
           HistoryType, HistoryInv, ReaderInv
  <1> QED
    BY <1>1, <1>2, <1>3, <1>4, <1>5

(* The flag keeps the writer out while its index is taken back. *)
LEMMA ResetReserveKeeps ==
  ASSUME NEW w \in Writers, StoredInv, WriterInv(w), ResetReserve
  PROVE  WriterInv(w)'
  <1> USE DEF StoredInv, TypeOK, WriterInv
  <1>1. CountersInv(w)' /\ OutbufInv(w)'
    BY DEF ResetReserve, ring, reader, writer, CountersInv, OutbufInv, Accepted
  <1>2. ReserveInv(w)'
    BY RingAssumption, SlotInRange
       DEF ResetReserve, ring, reader, writer, RingType, ReaderType,
           WriterType, HistoryType, ReserveInv, Storing, Resetting,
           CountersInv
  <1>3. ReaderInv(w)'
    BY RingAssumption, SlotInRange
       DEF ResetReserve, ring, reader, writer, RingType, ReaderType,
           WriterType, HistoryType, ReaderInv, SlotsInv, FirstUnread,
           FirstUnwritten, ReserveInv
  <1>4. SlotsInv(w)'
    BY RingAssumption, SlotInRange
       DEF ResetReserve, ring, reader, writer, RingType, ReaderType,
           WriterType, HistoryType, SlotsInv, FirstUnread, FirstUnwritten,
           ReserveInv, ReaderInv, CountersInv, Storing
  <1>5. HistoryInv(w)'
    BY RingAssumption, SlotInRange
       DEF ResetReserve, ring, reader, writer, RingType, ReaderType,
           WriterType, HistoryType, HistoryInv, ReaderInv
  <1> QED
    BY <1>1, <1>2, <1>3, <1>4, <1>5

(* The value that is loaded is the one just stored. *)
LEMMA AssertLoadKeeps ==
  ASSUME NEW w \in Writers, StoredInv, WriterInv(w), AssertLoad
  PROVE  WriterInv(w)'
  <1> USE DEF StoredInv, TypeOK, WriterInv
  <1>1. CountersInv(w)' /\ OutbufInv(w)'
    BY DEF AssertLoad, ring, reader, writer, CountersInv, OutbufInv, Accepted
  <1>2. ReserveInv(w)'
    BY RingAssumption, SlotInRange
       DEF AssertLoad, ring, reader, writer, RingType, ReaderType,
           WriterType, HistoryType, ReserveInv, Storing, Resetting,
           CountersInv
  <1>3. ReaderInv(w)'
    BY RingAssumption, SlotInRange
       DEF AssertLoad, ring, reader, writer, RingType, ReaderType,
           WriterType, HistoryType, ReaderInv, SlotsInv, FirstUnread,
           FirstUnwritten, ReserveInv
  <1>4. SlotsInv(w)'
    BY RingAssumption, SlotInRange
       DEF AssertLoad, ring, reader, writer, RingType, ReaderType,
           WriterType, HistoryType, SlotsInv, FirstUnread, FirstUnwritten,
           ReserveInv, ReaderInv, CountersInv, Storing
  <1>5. HistoryInv(w)'
    BY RingAssumption, SlotInRange
       DEF AssertLoad, ring, reader, writer, RingType, ReaderType,
           WriterType, HistoryType, HistoryInv, ReaderInv
  <1> QED
    BY <1>1, <1>2, <1>3, <1>4, <1>5

(* Past the assertion everything released has been read. *)
LEMMA AssertCompareKeeps ==
  ASSUME NEW w \in Writers, StoredInv, WriterInv(w), AssertCompare
  PROVE  WriterInv(w)'
  <1> USE DEF StoredInv, TypeOK, WriterInv
  <1>1. CountersInv(w)' /\ OutbufInv(w)'
    BY DEF AssertCompare, ring, reader, writer, CountersInv, OutbufInv,
           Accepted
  <1>2. ReserveInv(w)'
    BY RingAssumption, SlotInRange
       DEF AssertCompare, ring, reader, writer, RingType, ReaderType,
           WriterType, HistoryType, ReserveInv, Storing, Resetting,
           CountersInv
  <1>3. ReaderInv(w)'
    BY RingAssumption, SlotInRange
       DEF AssertCompare, ring, reader, writer, RingType, ReaderType,
           WriterType, HistoryType, ReaderInv, SlotsInv, FirstUnread,
           FirstUnwritten, ReserveInv
  <1>4. SlotsInv(w)'
    BY RingAssumption, SlotInRange
       DEF AssertCompare, ring, reader, writer, RingType, ReaderType,
           WriterType, HistoryType, SlotsInv, FirstUnread, FirstUnwritten,
           ReserveInv, ReaderInv, CountersInv, Storing
  <1>5. HistoryInv(w)'
    BY RingAssumption, SlotInRange
       DEF AssertCompare, ring, reader, writer, RingType, ReaderType,
           WriterType, HistoryType, HistoryInv, ReaderInv
  <1> QED
    BY <1>1, <1>2, <1>3, <1>4, <1>5

(* The ring is empty and consistent when the writer is let in again. *)
LEMMA ClearFullKeeps ==
  ASSUME NEW w \in Writers, StoredInv, WriterInv(w), ClearFull
  PROVE  WriterInv(w)'
  <1> USE DEF StoredInv, TypeOK, WriterInv
  <1>1. CountersInv(w)' /\ OutbufInv(w)'
    BY DEF ClearFull, ring, reader, writer, CountersInv, OutbufInv, Accepted
  <1>2. ReserveInv(w)'
    BY RingAssumption, SlotInRange
       DEF ClearFull, ring, reader, writer, RingType, ReaderType, WriterType,
           HistoryType, ReserveInv, Storing, Resetting, CountersInv
  <1>3. ReaderInv(w)'
    BY RingAssumption, SlotInRange
       DEF ClearFull, ring, reader, writer, RingType, ReaderType, WriterType,
           HistoryType, ReaderInv, SlotsInv, FirstUnread, FirstUnwritten,
           ReserveInv
  <1>4. SlotsInv(w)'
    BY RingAssumption, SlotInRange
       DEF ClearFull, ring, reader, writer, RingType, ReaderType, WriterType,
           HistoryType, SlotsInv, FirstUnread, FirstUnwritten, ReserveInv,
           ReaderInv, CountersInv, Storing
  <1>5. HistoryInv(w)'
    BY RingAssumption, SlotInRange
       DEF ClearFull, ring, reader, writer, RingType, ReaderType, WriterType,
           HistoryType, HistoryInv, ReaderInv
  <1> QED
    BY <1>1, <1>2, <1>3, <1>4, <1>5

-----------------------------------------------------------------------------
(* The zeroed ring satisfies the invariant of a single writer. *)
LEMMA SingleInit ==
  ASSUME NEW v, Writers = {v}
  PROVE  Init => SingleWriterInv
  <1> SUFFICES ASSUME Init, NEW w \in Writers PROVE WriterInv(w)
    BY StoredInit DEF SingleWriterInv
  <1>1. CountersInv(w) /\ ReserveInv(w) /\ ReaderInv(w) /\ HistoryInv(w)
    BY RingAssumption
    DEF Init, CountersInv, ReserveInv, ReaderInv, HistoryInv, Storing,
        Resetting
  <1>2. SlotsInv(w)
    BY RingAssumption, SlotInRange
    DEF Init, SlotsInv, FirstUnread, FirstUnwritten
  <1>3. OutbufInv(w)
    <2>1. Len(outbuf[w]) = 0 /\ outbuf[w] = <<>>
      BY DEF Init
    <2> QED
      BY <2>1 DEF Init, OutbufInv, Accepted
  <1> QED
    BY <1>1, <1>2, <1>3 DEF WriterInv

(* One case per action: with a single writer, the writer that takes a step *)
(* is the one the invariant is about.                                      *)
LEMMA SingleNext ==
  ASSUME NEW v, Writers = {v}
  PROVE  SingleWriterInv /\ [Next]_vars => SingleWriterInv'
  <1> SUFFICES ASSUME SingleWriterInv, [Next]_vars PROVE SingleWriterInv'
    OBVIOUS
  <1>1. StoredInv'
    BY StoredNext DEF SingleWriterInv
  <1>2. StoredInv /\ WriterInv(v) /\ v \in Writers
    BY DEF SingleWriterInv
  <1>3. WriterInv(v)'
    <2>1. CASE Submit(v)
      BY <1>2, <2>1, SubmitKeeps
    <2>2. CASE Retry(v)
      BY <1>2, <2>2, RetryKeeps
    <2>3. CASE SendStep(v)
      BY <1>2, <2>3, CheckFullKeeps, ReserveIndexKeeps, LoadNextReadKeeps,
         CheckRoomKeeps, SetFullKeeps, WritePtrKeeps, WriteCodeKeeps,
         ReleaseIndexKeeps, SendNoticeKeeps
      DEF SendStep
    <2>4. CASE ReadStep
      BY <1>2, <2>4, StartReaderKeeps, TakeNoticeKeeps, CheckReleasedKeeps,
         ReadCodeKeeps, ReadPtrKeeps, ClearSlotKeeps, AdvanceReadKeeps,
         HandleKeeps, IfFullKeeps, ResetReserveKeeps, AssertLoadKeeps,
         AssertCompareKeeps, ClearFullKeeps
      DEF ReadStep
    <2>5. CASE BecomeRunning
      BY <1>2, <2>5, BecomeRunningKeeps
    <2>6. CASE UNCHANGED vars
      <3>1. CountersInv(v)' /\ ReserveInv(v)' /\ ReaderInv(v)' /\ HistoryInv(v)'
        BY <1>2, <2>6 DEF vars, ring, reader, writer, WriterInv, CountersInv,
           ReserveInv, ReaderInv, HistoryInv
      <3>2. SlotsInv(v)' /\ OutbufInv(v)'
        BY <1>2, <2>6 DEF vars, ring, reader, writer, WriterInv, SlotsInv,
           OutbufInv, FirstUnread, FirstUnwritten, Accepted
      <3> QED
        BY <3>1, <3>2 DEF WriterInv
    <2> QED
      BY <2>1, <2>2, <2>3, <2>4, <2>5, <2>6 DEF Next
  <1> QED
    BY <1>1, <1>3 DEF SingleWriterInv

(* The invariant of a ring with one writer, for every ring size and however *)
(* often the writer fills the ring, is buffered and retried.                *)
THEOREM SingleWriter ==
  ASSUME NEW v, Writers = {v}
  PROVE  Spec => []SingleWriterInv
  BY SingleInit, SingleNext, PTL DEF Spec

(* With one writer, ipc_send_direct stores only into slots the reader has   *)
(* emptied, and ipc_receive hands on whole messages in the order sent.      *)
THEOREM SingleWriterSafe ==
  ASSUME NEW v, Writers = {v}
  PROVE  Spec => [](SlotIsFree /\ NotTorn /\ InOrder)
  <1> SUFFICES ASSUME SingleWriterInv PROVE SlotIsFree /\ NotTorn /\ InOrder
    BY SingleWriter, PTL
  <1>1. v \in Writers /\ StoredInv /\ WriterInv(v)
    BY DEF SingleWriterInv
  <1>2. SlotIsFree
    <2> SUFFICES ASSUME pc[v] \in {"ptr", "code"}
                 PROVE  code[Slot(windex[v])] = NIL
      BY DEF SlotIsFree
    <2>1. /\ windex[v] = next_write_release /\ FirstUnwritten(v) = windex[v]
          /\ windex[v] \in FirstUnwritten(v)..(FirstUnread + RingSize - 1)
      BY <1>1, RingAssumption
      DEF StoredInv, TypeOK, RingType, WriterType, WriterInv, CountersInv,
          ReserveInv, Storing, FirstUnwritten, FirstUnread
    <2> QED
      BY <1>1, <2>1 DEF WriterInv, SlotsInv
  <1>3. NotTorn
    BY <1>1, MsgNotNil DEF NotTorn, WriterInv, ReaderInv, NIL
  <1>4. InOrder
    BY <1>1
       DEF InOrder, WriterInv, ReaderInv, HistoryInv, StoredInv, TypeOK,
           RingType
  <1> QED
    BY <1>2, <1>3, <1>4

(* What a writer has been read of is less than what it has submitted. *)
LEMMA UnreadIsSubmitted ==
  ASSUME NEW w \in Writers, StoredInv, WriterInv(w)
  PROVE  next_read <= submitted[w]
  <1>1. /\ next_read \in Nat /\ next_write_release \in Nat
        /\ next_read <= next_write_release
        /\ Accepted(w) \in Int /\ outbuf[w] \in Seq(Msgs)
    BY DEF StoredInv, TypeOK, RingType, WriterType, WriterInv, CountersInv,
           Accepted
  <1> DEFINE n == Len(outbuf[w])
  <1>2. n \in Nat /\ (outbuf[w] # <<>> => n >= 1)
    BY <1>1
  <1>3. submitted[w] = Accepted(w) + 1 \/ submitted[w] = Accepted(w) + n
    BY DEF WriterInv, OutbufInv
  <1>4. CASE pc[w] = "notice"
    <2>1. Accepted(w) = next_write_release - 1
      BY <1>4 DEF Accepted
    <2>2. submitted[w] = Accepted(w) + 1 \/ (submitted[w] = Accepted(w) + n /\ n >= 1)
      BY <1>2, <1>4 DEF WriterInv, OutbufInv
    <2> HIDE DEF n
    <2> QED
      BY <1>1, <1>2, <2>1, <2>2
  <1>5. CASE pc[w] # "notice"
    <2>1. Accepted(w) = next_write_release
      BY <1>5 DEF Accepted
    <2> HIDE DEF n
    <2> QED
      BY <1>1, <1>2, <1>3, <2>1
  <1> QED
    BY <1>4, <1>5

(* Every step of the ring is a step of the abstract channel or none of its *)
(* business: Submit is Send, Handle is Deliver.                            *)
LEMMA StepRefines ==
  ASSUME NEW v, Writers = {v}, SingleWriterInv, [Next]_vars
  PROVE  [Channel!Next]_(Channel!vars)
  <1>1. v \in Writers /\ StoredInv /\ WriterInv(v)
    BY DEF SingleWriterInv
  <1>2. CASE Submit(v)
    BY <1>1, <1>2 DEF Submit, Channel!Next, Channel!Send
  <1>3. CASE Handle
    <2>1. /\ next_read \in Nat /\ rptr = <<v, next_read>>
          /\ received[v] = next_read - 1 /\ submitted[v] \in Int
      BY <1>1, <1>3, RingAssumption
         DEF Handle, WriterInv, ReaderInv, HistoryInv,
         StoredInv, TypeOK, RingType, HistoryType
    <2>2. received[v] < submitted[v]
      BY <1>1, <2>1, UnreadIsSubmitted
    <2>3. received' = [received EXCEPT ![v] = received[v] + 1]
      BY <1>3, <2>1 DEF Handle
    <2> QED
      BY <1>1, <1>3, <2>2, <2>3 DEF Handle, Channel!Next, Channel!Deliver
  <1>4. CASE UNCHANGED <<submitted, received>>
    BY <1>4 DEF Channel!vars
  <1>5. CASE Retry(v) \/ SendStep(v)
    BY <1>4, <1>5 DEF Retry, SendStep, CheckFull, ReserveIndex, LoadNextRead,
       CheckRoom, SetFull, WritePtr, WriteCode, ReleaseIndex, SendNotice
  <1>6. CASE ReadStep \/ BecomeRunning
    BY <1>3, <1>4, <1>6 DEF ReadStep, StartReader, TakeNotice, CheckReleased,
       ReadCode, ReadPtr, ClearSlot, AdvanceRead, IfFull, ResetReserve,
       AssertLoad, AssertCompare, ClearFull, BecomeRunning
  <1>7. CASE UNCHANGED vars
    BY <1>4, <1>7 DEF vars
  <1> QED
    BY <1>2, <1>5, <1>6, <1>7 DEF Next

(* A ring with one writer implements the channel: exactly once, in order,   *)
(* for every ring size, through wrap-around, the full flag and retries.     *)
THEOREM SingleWriterRefines ==
  ASSUME NEW v, Writers = {v}
  PROVE  Spec => ImplementsChannel
  <1>1. Init => Channel!Init
    BY DEF Init, Channel!Init
  <1>2. SingleWriterInv /\ [Next]_vars => [Channel!Next]_(Channel!vars)
    BY StepRefines
  <1> QED
    BY <1>1, <1>2, SingleWriter, PTL DEF Spec, ImplementsChannel, Channel!Spec
=============================================================================
