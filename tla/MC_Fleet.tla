------------------------------ MODULE MC_Fleet ------------------------------
(* A server whose agent may have to enrol, and to connect, more than once.   *)
EXTENDS Fleet
=============================================================================
