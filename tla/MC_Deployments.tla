--------------------------- MODULE MC_Deployments ---------------------------
(* Two apps on one server, each with a hostname of its own.                  *)
EXTENDS Deployments

CONSTANTS address, app, api, a1, a2, b1, b2, appHost, apiHost

TwoServices == [d \in App |-> IF d \in {a1, a2} THEN app ELSE api]
TheirHosts  == [h \in {appHost, apiHost} |-> IF h = appHost THEN app ELSE api]
=============================================================================
