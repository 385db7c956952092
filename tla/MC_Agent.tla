------------------------------ MODULE MC_Agent ------------------------------
(* One app on one machine: an old version, a new one, and the router.        *)
EXTENDS Agent

CONSTANTS old, new, host

Serve(want, c) == [want |-> want, route |-> [h \in Host |-> c]]

\* What the control plane asks for as a deploy goes by: the old version alone,
\* the new one started beside it, the new one alone.
DeploySpecs == {Serve({old, Router}, old),
                Serve({old, new, Router}, old),
                Serve({new, Router}, new)}
=============================================================================
