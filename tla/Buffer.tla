------------------------------- MODULE Buffer -------------------------------
(***************************************************************************)
(* Buffers (buffer.c): a queue of links in memory of one kind.  A buffer   *)
(* is [first, last, mem, link], where link maps the links there ever were  *)
(* to [next, mem, data, live]; a link is known by its place in the order   *)
(* of allocation, so memory that was freed is not mistaken for new memory. *)
(***************************************************************************)
EXTENDS Integers, Sequences

NoLink == 0

\* shuso_buffer_init
buffer_init(mem) ==
  [first |-> NoLink, last |-> NoLink, mem |-> mem, link |-> <<>>]

\* shuso_buffer_queue
buffer_queue(b, l) ==
  LET linked == IF b.last = NoLink THEN b
                ELSE [b EXCEPT !.link[b.last].next = l]
  IN  [linked EXCEPT !.first = IF @ = NoLink THEN l ELSE @, !.last = l]

\* shuso_buffer_add_charbuf, _iovec, _msg_fd: allocated, filled and queued
buffer_add(b, data) ==
  buffer_queue([b EXCEPT !.link = Append(@,
                  [next |-> NoLink, mem |-> "default", data |-> data,
                   live |-> TRUE])], Len(b.link) + 1)

\* shuso_buffer_next, shuso_buffer_dequeue
buffer_next(b) == b.first
buffer_dequeue(b) ==
  IF b.first = NoLink THEN b
  ELSE [b EXCEPT !.first = b.link[b.first].next,
                 !.last = IF @ = b.first THEN NoLink ELSE @]

\* shuso_buffer_free: only heap and shared memory is given back.
FreeMem(b, l) ==
  IF b.link[l].mem = "default" THEN b.mem ELSE b.link[l].mem
buffer_free(b, l) ==
  [b EXCEPT !.link[l].live = @ /\ FreeMem(b, l) \notin {"heap", "shared"}]

\* q holds the links of the buffer, from the first on.
Links(b, q) ==
  /\ q = <<>> <=> b.first = NoLink
  /\ q # <<>> => q[1] = b.first
  /\ \A i \in DOMAIN q :
       b.link[q[i]].next = IF i < Len(q) THEN q[i + 1] ELSE NoLink
Queued(b) ==
  CHOOSE q \in UNION {[1..n -> DOMAIN b.link] : n \in 0..Len(b.link)} :
    Links(b, q)
=============================================================================
