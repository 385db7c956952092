------------------------------- MODULE Serving -------------------------------
(****************************************************************************)
(* What a deploy promises, with nothing said of how: each service has at    *)
(* most one live version, a version becomes live only after it has answered *)
(* a health check, and it stops being live only when another takes over or  *)
(* when it has itself failed to answer one.                                 *)
(****************************************************************************)
CONSTANTS
    Version,
    Service,
    Kind,       \* [Version -> Service], the service each version is of
    Nobody      \* no version

VARIABLES
    live,       \* the version in front of people, for each service
    proven,     \* versions that have answered
    failed      \* versions that have failed to answer

vars == <<live, proven, failed>>

Init ==
    /\ live = [s \in Service |-> Nobody]
    /\ proven = {} /\ failed = {}

Prove(v) == proven' = proven \cup {v} /\ UNCHANGED <<live, failed>>

Fail(v) == failed' = failed \cup {v} /\ UNCHANGED <<live, proven>>

Promote(v) ==
    /\ v \in proven
    /\ live' = [live EXCEPT ![Kind[v]] = v]
    /\ UNCHANGED <<proven, failed>>

Drop(v) ==
    /\ v \in failed /\ live[Kind[v]] = v
    /\ live' = [live EXCEPT ![Kind[v]] = Nobody]
    /\ UNCHANGED <<proven, failed>>

Next == \E v \in Version : Prove(v) \/ Fail(v) \/ Promote(v) \/ Drop(v)

Spec == Init /\ [][Next]_vars
==============================================================================
