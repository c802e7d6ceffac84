----------------------------- MODULE IpcChannel -----------------------------
(***************************************************************************)
(* What the IPC layer promises its callers, whatever ring buffers, output  *)
(* buffers and retry timers it uses: per sender, the messages given to     *)
(* shuso_ipc_send are handed to the receiver's handler exactly once and in *)
(* the order they were sent.  Message k of a sender is its k-th send, so a *)
(* channel is two counters per sender.                                     *)
(***************************************************************************)
EXTENDS Naturals

CONSTANTS Writers  \* the processes that send to this destination

VARIABLES sent,    \* sent[w]: messages w has given to shuso_ipc_send
          got      \* got[w]: messages of w the receive handler has run for

vars == <<sent, got>>

Init == /\ sent = [w \in Writers |-> 0]
        /\ got  = [w \in Writers |-> 0]

\* shuso_ipc_send accepts one more message of w.
Send(w) == /\ sent' = [sent EXCEPT ![w] = @ + 1]
           /\ got' = got

\* The handler runs for the oldest message of w that it has not yet seen.
Deliver(w) == /\ got[w] < sent[w]
              /\ got' = [got EXCEPT ![w] = @ + 1]
              /\ sent' = sent

Next == \E w \in Writers : Send(w) \/ Deliver(w)

Spec == Init /\ [][Next]_vars

\* The promise of a channel whose receiver keeps reading: nothing that was
\* accepted waits forever.
FairSpec == Spec /\ \A w \in Writers : WF_vars(Deliver(w))
=============================================================================
