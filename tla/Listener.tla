------------------------------ MODULE Listener ------------------------------
(***************************************************************************)
(* A worker's listening socket (server.c): the coroutine waits for the     *)
(* socket, accepts, and publishes "maybe_accept", whose last listener      *)
(* publishes "accept", whose last listener closes what nobody took.        *)
(***************************************************************************)
EXTENDS Io

CONSTANT MaxConns   \* bound on the connections that are made

VARIABLES
  lstage,       \* where the coroutine is: "wait" or "accept"; "off" at its end
  backlog,     \* connections the system holds for the socket
  made,        \* history: connections made
  published,   \* history: descriptors published, by what became of them
  stopping     \* shuso_io_stop is on the stack

listenerVars == <<io, at, upd, xfer, ops, lstage, backlog, made, published,
                  stopping>>

ASSUME ListenerAssumption == MaxConns \in Nat

\* luaS_start_worker_io_listener_coroutine; the coroutine listens and waits.
ListenerInit ==
  /\ io = [IoNew({"r"}, TRUE) EXCEPT !.watch = "poll_r", !.active = TRUE]
  /\ at = "loop" /\ upd = FALSE /\ ops = 0
  /\ xfer = [total |-> 0, next |-> 0, skew |-> FALSE]
  /\ lstage = "wait" /\ backlog = 0 /\ made = 0 /\ stopping = FALSE
  /\ published = [taken |-> 0, closed |-> 0, bad |-> 0]

Connects ==
  /\ made < MaxConns
  /\ backlog' = backlog + 1 /\ made' = made + 1
  /\ UNCHANGED <<io, at, upd, xfer, ops, lstage, published, stopping>>
\* The other end gives up before it is accepted.
Resets ==
  /\ backlog > 0 /\ backlog' = backlog - 1
  /\ UNCHANGED <<io, at, upd, xfer, ops, lstage, made, published, stopping>>

\* The socket is readable while the system holds a connection.
ListenerEvent ==
  /\ backlog > 0 /\ ~stopping
  /\ Event({"r"})
  /\ UNCHANGED <<lstage, backlog, made, published, stopping>>

\* listener_accept_coro, resumed after the wait
ListenerAccept ==
  /\ at = "handler" /\ lstage = "wait"
  /\ io' = [io EXCEPT !.op = "accept", !.result = 0, !.error = FALSE,
                      !.repeat = TRUE]
  /\ at' = "call" /\ lstage' = "accept"
  /\ UNCHANGED <<upd, xfer, ops, backlog, made, published, stopping>>

AcceptCall ==
  /\ \/ backlog > 0 /\ CallPlain /\ backlog' = backlog - 1
     \/ backlog = 0 /\ CallBlocks /\ UNCHANGED backlog
     \/ backlog > 0 /\ CallFails /\ UNCHANGED backlog
  /\ UNCHANGED <<lstage, made, published, stopping>>

\* Mutant: the coroutine goes to its wait without starting the watcher.
ListenerPublish_NotArmed ==
  /\ at = "handler" /\ lstage = "accept"
  /\ \E by \in {"taken", "closed"} :
       published' = [published EXCEPT
                       ![IF io.result = -1 THEN "bad" ELSE by] = @ + 1]
  /\ io' = [io EXCEPT !.error = FALSE, !.result = 0]
  /\ at' = "loop" /\ upd' = FALSE /\ lstage' = "wait"
  /\ UNCHANGED <<xfer, ops, backlog, made, stopping>>
\* ... resumed after accept: maybe_accept_event_confirm_accept,
\* no_accept_handler_found.  A listener of either event may take the
\* connection.  Then the coroutine waits again.
ListenerPublish ==
  /\ at = "handler" /\ lstage = "accept"
  /\ \E by \in {"taken", "closed"} :
       published' = [published EXCEPT
                       ![IF io.result = -1 THEN "bad" ELSE by] = @ + 1]
  /\ io' = [Armed(io, "poll_r") EXCEPT !.error = FALSE, !.result = 0]
  /\ at' = "loop" /\ upd' = FALSE /\ lstage' = "wait"
  /\ UNCHANGED <<xfer, ops, backlog, made, stopping>>

\* listener_accept_coro_error: logged, and the coroutine is at its start.
ListenerError ==
  /\ at = "errh"
  /\ Return("loop")
  /\ lstage' = "off"
  /\ UNCHANGED <<backlog, made, published, stopping>>

\* luaS_stop_worker_io_listener_coroutine: shuso_io_stop runs the handler,
\* then aborts what the handler started.
ListenerStop ==
  /\ at = "loop" /\ ~stopping /\ stopping' = TRUE
  /\ IF io.watch = "none" THEN UNCHANGED <<io, at>>
     ELSE /\ io' = [io EXCEPT !.watch = "none", !.result = -1, !.error = TRUE]
          /\ at' = "handler"
  /\ UNCHANGED <<upd, xfer, ops, lstage, backlog, made, published>>
ListenerStopped ==
  /\ at = "loop" /\ stopping
  /\ io' = Aborted(io) /\ at' = "end"
  /\ UNCHANGED <<upd, xfer, ops, lstage, backlog, made, published, stopping>>

ListenerCoro == ListenerEvent \/ ListenerAccept \/ AcceptCall
                  \/ ListenerPublish \/ ListenerError
ListenerNext ==
  Connects \/ Resets \/ ListenerCoro \/ ListenerStop \/ ListenerStopped
-----------------------------------------------------------------------------
(* Properties.                                                             *)

\* While the worker does not stop, what is published is what was accepted.
ListenerPublishesAccepted ==
  /\ ~stopping => published.bad = 0
  /\ published.taken + published.closed + backlog <= made

\* The event handler never meets an io object that waits for nothing: the
\* comment at its SIGABRT says "should never happer" (io_libev.c).
ListenerNeverAborts == at # "abort"

\* A connection that does not go away is accepted, or the worker stops or the
\* listener had an error; and nothing else is published.
ListenerServes ==
  /\ []ListenerPublishesAccepted
  /\ [](backlog > 0 => <>(backlog = 0 \/ stopping \/ lstage = "off"))
=============================================================================
