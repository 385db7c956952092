------------------------------- MODULE MC_Yol -------------------------------
(* One service on one server, with a hostname and a few versions to deploy.  *)
EXTENDS Yol, TLC

CONSTANTS app, address, appHost

AllSpecs      == SpecType
OneService    == [d \in App |-> app]
OneHostname   == [h \in {appHost} |-> app]
NoHostname    == [h \in {} |-> app]
AnyVersion    == Permutations(App)
AnyOfBoth     == Permutations(App) \cup Permutations(Reader)
=============================================================================
