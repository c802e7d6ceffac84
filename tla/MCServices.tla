----------------------------- MODULE MCServices -----------------------------
(***************************************************************************)
(* The startup of the servers, and the resolver it uses.  Which one runs   *)
(* is chosen at the start; the other stays as it is.                       *)
(***************************************************************************)
EXTENDS Server, Resolver

CONSTANT Services
VARIABLE service
vars == <<serverVars, resolverVars, service>>

Init ==
  /\ ServerInit /\ ResolverInit
  /\ service \in Services /\ (service # "resolver" => rproc = "worker")

notServer == <<resolverVars, service>>
notResolver == <<serverVars, service>>
Next ==
  \/ service = "server" /\ ServerNext /\ UNCHANGED notServer
  \/ service = "resolver" /\ ResolverNext /\ UNCHANGED notResolver

\* Processes go on with their startup, and time passes for c-ares.
Fairness ==
  /\ WF_vars(service = "server" /\ ServerStep /\ UNCHANGED notServer)
  /\ WF_vars(/\ service = "resolver" /\ ResolverTimeout
             /\ UNCHANGED notResolver)
Spec == Init /\ [][Next]_vars /\ Fairness
=============================================================================
