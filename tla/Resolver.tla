------------------------------ MODULE Resolver ------------------------------
(***************************************************************************)
(* The resolver of a process (resolver.c) and its use from Lua             *)
(* (core_lua_api.c): c-ares asks for sockets, the resolver opens and       *)
(* watches them, and a request ends in the call of a function or in the    *)
(* resumption of the coroutine that made it, at once or later.             *)
(*                                                                         *)
(* External: c-ares answers some requests at once (a literal address, the  *)
(* hosts file, no server to be reached); it sends the others on a socket   *)
(* and learns of time outs, like of answers, only when it is told that a   *)
(* socket is ready.  It sends a request up to MaxTries times, and closes   *)
(* its sockets when no request is left.                                    *)
(***************************************************************************)
EXTENDS Integers, Sequences, FiniteSets, SequencesExt

CONSTANTS
  NRequests,     \* number of requests made
  MaxTries,      \* how often c-ares sends a request
  NSockets       \* bound on the sockets open at once

VARIABLES
  rproc,         \* the process: a worker, or the master or manager
  rrun,          \* the state of the resolver
  rsocks,        \* resolver->socket_head
  rwatch,        \* the watchers libev has, as <<descriptor, event>>
  cfds,          \* external: the sockets c-ares has open
  req            \* the requests: struct resolver_request_s and its handler

resolverVars == <<rproc, rrun, rsocks, rwatch, cfds, req>>

Requests == 1..NRequests
Fds == 1..NSockets

ASSUME ResolverAssumption ==
  NRequests \in Nat /\ MaxTries \in Nat /\ NSockets \in Nat

NoRequest == [st |-> "none", mode |-> "fn", tries |-> 0, ref |-> FALSE,
              mem |-> FALSE, finished |-> FALSE, results |-> 0]
ResolverInit ==
  /\ rproc \in {"manager", "worker"} /\ rrun = "off"
  /\ rsocks = <<>> /\ rwatch = {} /\ cfds = {}
  /\ req = [r \in Requests |-> NoRequest]

Pending(q) == {r \in Requests : q[r].st = "pending"}
-----------------------------------------------------------------------------
(* Sockets.                                                                *)

\* Mutant: only answers are waited for.
SocketEvents_Read == {"r"}
\* The events of shuso_ev_io_init in ares_socket_open.
SocketEvents == {"r", "w"}

\* ares_socket_open puts the socket in front of the list and watches it.
ares_socket_open(s, fd) ==
  [list |-> <<fd>> \o s.list,
   watch |-> s.watch \cup ({fd} \X SocketEvents),
   open |-> s.open \cup {fd}]

\* Mutant: what was in front of the closed socket is lost with it.
ares_socket_close_Front(s, fd) ==
  LET i == CHOOSE j \in DOMAIN s.list : s.list[j] = fd
  IN  [list |-> SubSeq(s.list, i + 1, Len(s.list)),
       watch |-> s.watch \ ({fd} \X {"r", "w"}),
       open |-> s.open \ {fd}]
\* ares_socket_close takes it out, and stops and frees its watcher.
ares_socket_close(s, fd) ==
  LET i == CHOOSE j \in DOMAIN s.list : s.list[j] = fd
  IN  [list |-> RemoveAt(s.list, i),
       watch |-> s.watch \ ({fd} \X {"r", "w"}),
       open |-> s.open \ {fd}]

SocketsNow == [list |-> rsocks, watch |-> rwatch, open |-> cfds]
Sockets(s) == rsocks' = s.list /\ rwatch' = s.watch /\ cfds' = s.open

\* c-ares closes its sockets one after the other; the order, which is its own,
\* makes no difference.
CloseAll(s) ==
  LET left[n \in 0..Len(s.list)] ==
        IF n = 0 THEN s ELSE ares_socket_close(left[n - 1], s.list[n])
  IN  left[Len(s.list)]

\* c-ares, after a request has ended or been sent again: it may have to open
\* one more socket, and it may find one broken.
SocketsAfter(q) ==
  IF Pending(q) = {} THEN {CloseAll(SocketsNow)}
  ELSE {SocketsNow}
    \cup {ares_socket_open(SocketsNow, fd) : fd \in Fds \ cfds}
    \cup {ares_socket_close(ares_socket_open(SocketsNow, fd), e) :
             fd \in Fds \ cfds, e \in cfds}
-----------------------------------------------------------------------------
(* Requests.                                                               *)

\* Mutant: a coroutine is resumed whether it is suspended or not, and one that
\* runs cannot be.
Result_Resumes(q, now) ==
  [q EXCEPT !.st = "done", !.ref = FALSE, !.mem = FALSE,
            !.results = IF now /\ q.mode = "co" THEN @ ELSE @ + 1]
\* shuso_resolve_hostname_callback, resolve_hostname_callback and
\* resolve_return_results: the handler gets the result or the error.  While
\* the coroutine that asked still runs, they are left for it.
Result(q, now) ==
  LET left == now /\ q.mode = "co"
  IN  [q EXCEPT !.st = "done", !.ref = FALSE, !.mem = left, !.finished = left,
                !.results = IF left THEN @ ELSE @ + 1]

\* The end of Lua_shuso_resolve_hostname: a result that is there is returned,
\* else a coroutine yields.  (A request whose function was called at once has
\* been freed; it is looked at, but nothing follows from it.)
Returned(q) ==
  IF q.finished /\ q.mode = "co"
  THEN [q EXCEPT !.finished = FALSE, !.mem = FALSE, !.results = @ + 1] ELSE q

\* Lua_shuso_resolve_hostname.
Resolve(r) ==
  /\ rrun = "on" /\ req[r].st = "none"
  /\ \A p \in 1..(r - 1) : req[p].st # "none"
  /\ \E mode \in {"fn", "co"} :
       LET q == [NoRequest EXCEPT !.st = "pending", !.mode = mode,
                   !.tries = MaxTries, !.ref = TRUE, !.mem = TRUE]
           sent == [req EXCEPT ![r] = Returned(q)]
       IN  \/ /\ req' = [req EXCEPT ![r] = Returned(Result(q, TRUE))]
              /\ UNCHANGED <<rsocks, rwatch, cfds>>
           \/ /\ req' = sent
              /\ \E s \in SocketsAfter(sent) : s.open # {} /\ Sockets(s)
  /\ UNCHANGED <<rproc, rrun>>

\* ares_ev_io_callback: c-ares finds an answer or an error, ...
ResolverAnswer ==
  /\ rrun = "on" /\ \E fd \in cfds : <<fd, "r">> \in rwatch
  /\ \E r \in Pending(req) :
       /\ req' = [req EXCEPT ![r] = Result(@, FALSE)]
       /\ \E s \in SocketsAfter(req') : Sockets(s)
  /\ UNCHANGED <<rproc, rrun>>

\* ... or, with a socket that takes data, that it has waited too long.
Unanswered(q) ==
  IF q.tries > 0 THEN [q EXCEPT !.tries = q.tries - 1] ELSE Result(q, FALSE)
ResolverTimeout ==
  /\ rrun = "on" /\ \E fd \in cfds : <<fd, "w">> \in rwatch
  /\ \E r \in Pending(req) :
       /\ req' = [req EXCEPT ![r] = Unanswered(@)]
       /\ \E s \in SocketsAfter(req') : Sockets(s)
  /\ UNCHANGED <<rproc, rrun>>
-----------------------------------------------------------------------------
(* Start and stop.                                                         *)

\* shuso_resolver_init; where it fails it has destroyed the channel.
ResolverStart ==
  /\ rrun = "off" /\ rrun' \in {"on", "failed"}
  /\ UNCHANGED <<rproc, rsocks, rwatch, cfds, req>>

\* shuso_resolver_cleanup ends every request as cancelled.  A worker has closed
\* its Lua state by then, and crashes if there is one.
ResolverStop ==
  /\ rrun = "on"
  /\ IF rproc = "worker" /\ Pending(req) # {}
     THEN rrun' = "crashed" /\ UNCHANGED <<rsocks, rwatch, cfds, req>>
     ELSE /\ rrun' = "stopped"
          /\ req' = [r \in Requests |-> IF r \in Pending(req)
                                        THEN Result(req[r], FALSE) ELSE req[r]]
          /\ Sockets(CloseAll(SocketsNow))
  /\ UNCHANGED rproc

ResolverNext ==
  \/ ResolverStart \/ ResolverStop \/ ResolverAnswer \/ ResolverTimeout
  \/ \E r \in Requests : Resolve(r)
-----------------------------------------------------------------------------
(* Properties.                                                             *)

\* Every request is answered once, whether at once, later or by the end of the
\* process, and its memory and its handler's reference are given back
\* (resolve_return_results, Lua_shuso_resolve_hostname).
ResolverAnswersOnce ==
  \A r \in Requests :
    CASE req[r].st = "pending" -> req[r].results = 0 /\ rrun # "stopped"
      [] req[r].st = "done" -> /\ req[r].results = 1
                               /\ ~req[r].mem /\ ~req[r].ref
      [] OTHER -> TRUE

\* The list of sockets, the watchers and the sockets c-ares has open are the
\* same, so that no watcher outlives its socket and ares_socket_close finds
\* what it looks for.
ResolverSocketsAgree ==
  /\ ToSet(rsocks) = cfds /\ Len(rsocks) = Cardinality(cfds)
  /\ {w[1] : w \in rwatch} = cfds

\* A request is answered even if no server ever is: the sockets are watched for
\* writing all the time, and that lets c-ares see its time outs.
ResolverAnswers ==
  \A r \in Requests :
    req[r].st = "pending" ~> req[r].st = "done" \/ rrun = "crashed"

\* Requests are answered once, and watchers and sockets stay in step.
ResolverSound == ResolverAnswersOnce /\ ResolverSocketsAgree
=============================================================================
