------------------------------- MODULE Desired -------------------------------
(****************************************************************************)
(* What the control plane and an agent share: the containers on a machine   *)
(* and the specification of what it should be running (proto/spec.go).      *)
(*                                                                          *)
(* A container is named for its deployment (deploy.go ContainerNameFor), so *)
(* one name stands for a deployment, its image and its container.           *)
(****************************************************************************)
CONSTANTS
    App,        \* deployments, and the containers named for them
    Router,     \* the router's container
    Foreign,    \* containers the customer runs on the same machine
    Host,       \* hostnames; requests made to the server's address count as one
    ServerMode, \* servers.mode, chosen when the server is connected: managed or watch
    None

Owned == App \cup {Router}
Name  == Owned \cup Foreign

ASSUME NamesDistinct ==
    /\ Router \notin App
    /\ Foreign \cap Owned = {}
    /\ None \notin Name

ASSUME ModeKnown == ServerMode \in {"managed", "watch"}

\* want: the containers listed.  route: where each hostname goes.  The router is
\* described exactly when its container is listed.
SpecType == [want : SUBSET Owned, route : [Host -> App \cup {None}]]
==============================================================================
