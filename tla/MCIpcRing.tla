----------------------------- MODULE MCIpcRing ------------------------------
(***************************************************************************)
(* Model checking of the ring: one writer and a ring that fills up, or     *)
(* several writers whose clients keep at most Window messages unread.      *)
(***************************************************************************)
EXTENDS IpcRingInv, TLC

\* Writers are interchangeable in the runs without a liveness property.
WriterSymmetry == Permutations(Writers)
=============================================================================
