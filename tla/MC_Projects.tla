---------------------------- MODULE MC_Projects ----------------------------
(* A project of one environment, and two servers it may run on.             *)
EXTENDS Projects, TLC

Alike == Permutations(Server) \cup Permutations(Environment)
           \cup Permutations(Hostname) \cup Permutations(Request)
=============================================================================
