-------------------------- MODULE DeploymentsProofs --------------------------
(****************************************************************************)
(* What the record of deployments keeps true for any number of services and *)
(* versions, whatever reports reach it and in whatever order.               *)
(****************************************************************************)
EXTENDS Deployments, TLAPS, FiniteSetTheorems, WellFoundedInduction

LiveIsBuilt == \A d \in App : status[d] = "live" => image[d]

DeployInv == DeployTypeOK /\ OneLive /\ LiveIsBuilt

USE ServicesKnown, VersionsFinite

LEMMA NowIsNat == Now \in Nat
<1>1. IsFiniteSet({d \in App : status[d] # "none"})
  BY FS_Subset
<1> QED BY <1>1, FS_CardinalityType DEF Now

LEMMA RecordKeepsInv ==
  ASSUME DeployInv, [DeployNext]_deployVars PROVE DeployInv'
<1>1. ASSUME NEW d \in App, RecordDeploy(d) PROVE DeployInv'
  BY <1>1, NowIsNat DEF RecordDeploy, DeployInv, DeployTypeOK, OneLive, LiveIsBuilt, Status
<1>2. ASSUME NEW d \in App, RecordNotAsked(d) PROVE DeployInv'
  BY <1>2 DEF RecordNotAsked, DeployInv, DeployTypeOK, OneLive, LiveIsBuilt, Status
<1>3. ASSUME NEW d \in App, NEW succeeded \in BOOLEAN, RecordBuild(d, succeeded)
      PROVE  DeployInv'
  <2>1. \A e \in App : status'[e] = "live" => status[e] = "live"
    BY <1>3 DEF RecordBuild, DeployInv, DeployTypeOK
  <2>2. DeployTypeOK'
    BY <1>3 DEF RecordBuild, DeployInv, DeployTypeOK, Status
  <2>3. \A e \in App : image[e] => image'[e]
    BY <1>3 DEF RecordBuild, DeployInv, DeployTypeOK
  <2> QED BY <2>1, <2>2, <2>3 DEF DeployInv, OneLive, LiveIsBuilt
<1>4. ASSUME NEW d \in App, NEW healthy \in BOOLEAN, image[d], RecordRollout(d, healthy)
      PROVE  DeployInv'
  <2>1. CASE healthy
    <3>1. status' = [e \in App |-> IF e = d THEN "live"
                                   ELSE IF e \in Siblings(d) /\ status[e] = "live"
                                        THEN "superseded" ELSE status[e]]
      BY <1>4, <2>1 DEF RecordRollout
    <3>2. DeployTypeOK'
      BY <1>4, <3>1 DEF RecordRollout, DeployInv, DeployTypeOK, Status
    <3>3. OneLive'
      BY <3>1 DEF DeployInv, OneLive, Siblings
    <3>4. LiveIsBuilt'
      BY <1>4, <3>1 DEF RecordRollout, DeployInv, LiveIsBuilt
    <3> QED BY <3>2, <3>3, <3>4 DEF DeployInv
  <2>2. CASE ~healthy
    BY <1>4, <2>2 DEF RecordRollout, DeployInv, DeployTypeOK, OneLive, LiveIsBuilt, Status
  <2> QED BY <2>1, <2>2
<1>5. ASSUME NEW d \in App, NEW previous \in App, RecordRollback(previous, d)
      PROVE  DeployInv'
  BY <1>5, NowIsNat DEF RecordRollback, DeployInv, DeployTypeOK, OneLive, LiveIsBuilt, Status
<1>6. ASSUME NEW h \in Named, RecordVerified(h) \/ RecordRemoved(h) PROVE DeployInv'
  BY <1>6 DEF RecordVerified, RecordRemoved, DeployInv, DeployTypeOK, OneLive, LiveIsBuilt
<1>7. CASE UNCHANGED deployVars
  BY <1>7 DEF deployVars, DeployInv, DeployTypeOK, OneLive, LiveIsBuilt
<1> QED BY <1>1, <1>2, <1>3, <1>4, <1>5, <1>6, <1>7 DEF DeployNext

\* The record keeps its type, whatever order reports, deploys and rollbacks come in.
THEOREM DeployTypeCorrect == DeploySpec => []DeployTypeOK
<1>1. DeployInit => DeployInv
  BY DEF DeployInit, DeployInv, DeployTypeOK, OneLive, LiveIsBuilt, Status
<1>2. DeployInv /\ [DeployNext]_deployVars => DeployInv'
  BY RecordKeepsInv
<1>3. DeployInv => DeployTypeOK
  BY DEF DeployInv
<1> QED BY <1>1, <1>2, <1>3, PTL DEF DeploySpec

\* However reports come in, no service ever has two live versions.
THEOREM OneIsLive == DeploySpec => []OneLive
<1>1. DeployInit => DeployInv
  BY DEF DeployInit, DeployInv, DeployTypeOK, OneLive, LiveIsBuilt, Status
<1>2. DeployInv /\ [DeployNext]_deployVars => DeployInv'
  BY RecordKeepsInv
<1>3. DeployInv => OneLive
  BY DEF DeployInv
<1> QED BY <1>1, <1>2, <1>3, PTL DEF DeploySpec

(****************************************************************************)
(* The specification worked out from the record.                            *)
(****************************************************************************)

\* Among versions of which any is going out, one was created first.
LEMMA OldestExists ==
  ASSUME DeployTypeOK, NEW S \in SUBSET App, S # {}
  PROVE  \E d \in S : \A e \in S : created[d] <= created[e]
<1> DEFINE times == {created[d] : d \in S}
<1>1. times \in SUBSET Nat /\ times # {}
  BY DEF DeployTypeOK
<1>2. PICK t \in times : \A u \in times : <<u, t>> \notin OpToRel(<, Nat)
  <2> HIDE DEF times
  <2> QED BY <1>1, NatLessThanWellFounded, WFMin, Zenon
<1>3. \A u \in times : t <= u
  <2> SUFFICES ASSUME NEW u \in times PROVE t <= u
    OBVIOUS
  <2>1. <<u, t>> \in Nat \X Nat /\ ~(u < t)
    BY <1>1, <1>2 DEF OpToRel
  <2> QED BY <2>1
<1> QED BY <1>2, <1>3

\* Traffic for a service goes to one of its versions that has something to run,
\* and nowhere only when none has.
LEMMA ServingIsPlaced ==
  ASSUME DeployTypeOK, NEW s, Placed(s) # {}
  PROVE  Serving(s) \in Placed(s)
<1>1. Placed(s) \in SUBSET App
  BY DEF Placed
<1>2. \E d \in Placed(s) : \A e \in Placed(s) : created[d] <= created[e]
  <2> HIDE DEF Placed
  <2> QED BY <1>1, OldestExists
<1> QED BY <1>2 DEF Serving

LEMMA ServingAsked ==
  ASSUME DeployTypeOK, NEW s, Serving(s) # None
  PROVE  /\ Serving(s) \in Placed(s)
         /\ Serving(s) \in App /\ ServiceOf[Serving(s)] = s /\ image[Serving(s)]
<1>1. Placed(s) # {}
  BY DEF Serving
<1> QED BY <1>1, ServingIsPlaced DEF Placed

\* What the address leads to is what serves some service.
LEMMA FallbackIsServed ==
  ASSUME DeployTypeOK, Fallback # None
  PROVE  \E s \in Service : Serving(s) # None /\ Fallback = Serving(s)
<1> DEFINE served == {s \in Service : Serving(s) # None}
<1>1. served \subseteq {ServiceOf[d] : d \in App}
  <2> SUFFICES ASSUME NEW s \in served PROVE \E d \in App : s = ServiceOf[d]
    OBVIOUS
  <2> QED BY ServingAsked
<1>2. IsFiniteSet({ServiceOf[d] : d \in App})
  <2>1. ServiceOf \in Surjection(App, {ServiceOf[d] : d \in App})
    BY DEF Surjection
  <2> QED BY <2>1, FS_Surjection
<1>3. IsFiniteSet(served)
  BY <1>1, <1>2, FS_Subset
<1>4. Cardinality(served) = 1 /\ Fallback = Serving(CHOOSE s \in served : TRUE)
  BY DEF Fallback
<1>5. (CHOOSE s \in served : TRUE) \in served
  <2> HIDE DEF served
  <2> QED BY <1>3, <1>4, FS_EmptySet
<1> QED BY <1>4, <1>5

\* What is handed to an agent is a specification, for any record and in either mode.
LEMMA SpecForIsSpec ==
  ASSUME DeployTypeOK PROVE SpecFor \in SpecType
<1>1. CASE ServerMode = "watch"
  BY <1>1 DEF SpecFor, NothingAsked, SpecType
<1>2. CASE ServerMode # "watch"
  <2>1. SpecFor.want \subseteq Owned
    BY <1>2 DEF SpecFor, Placed, Owned
  <2>2. ASSUME NEW h \in Host
        PROVE  (IF ~Takeover THEN None ELSE IF h = Address THEN Fallback
                ELSE IF h \in named THEN Serving(HostOf[h]) ELSE None) \in App \cup {None}
    <3>1. Fallback \in App \cup {None}
      BY FallbackIsServed, ServingAsked
    <3>2. Serving(HostOf[h]) \in App \cup {None}
      BY ServingAsked
    <3> QED BY <3>1, <3>2
  <2> QED BY <1>2, <2>1, <2>2 DEF SpecFor, SpecType
<1> QED BY <1>1, <1>2

\* Where SpecFor sends a name, spelled out.
LEMMA NamedRoute ==
  ASSUME NEW h \in Host \ {Address}, SpecFor.route[h] # None
  PROVE  /\ ServerMode # "watch" /\ Takeover
         /\ h \in named /\ SpecFor.route[h] = Serving(HostOf[h])
BY DEF SpecFor, NothingAsked

LEMMA RoutesHold ==
  ASSUME DeployTypeOK PROVE RoutesAreServed
<1> SUFFICES ASSUME NEW h \in Host, SpecFor.route[h] # None
             PROVE  /\ SpecFor.route[h] \in SpecFor.want
                    /\ image[SpecFor.route[h]]
                    /\ h # Address => /\ h \in named
                                     /\ ServiceOf[SpecFor.route[h]] = HostOf[h]
  BY DEF RoutesAreServed
<1>1. ServerMode # "watch" /\ Takeover
  BY DEF SpecFor, NothingAsked
<1>2. PICK s \in Service : /\ Serving(s) # None /\ SpecFor.route[h] = Serving(s)
                           /\ h # Address => h \in named /\ s = HostOf[h]
  <2>1. CASE h = Address
    <3>1. SpecFor.route[h] = Fallback
      BY <1>1, <2>1 DEF SpecFor
    <3> QED BY <2>1, <3>1, FallbackIsServed
  <2>2. CASE h # Address
    BY <2>2, NamedRoute, HostsKnown
  <2> QED BY <2>1, <2>2
<1>3. /\ Serving(s) \in Placed(s) /\ image[Serving(s)] /\ ServiceOf[Serving(s)] = s
  BY <1>2, ServingAsked
<1>4. Serving(s) \in SpecFor.want
  BY <1>1, <1>3 DEF SpecFor
<1> QED BY <1>2, <1>3, <1>4

\* Whatever has happened to a service's deployments, the agent is never told to
\* send a name's traffic to something it was not also told to run, that has no
\* image, or that belongs to another service.
THEOREM OnlyWhatRunsIsRouted == DeploySpec => []RoutesAreServed
<1>1. DeployInit => DeployInv
  BY DEF DeployInit, DeployInv, DeployTypeOK, OneLive, LiveIsBuilt, Status
<1>2. DeployInv /\ [DeployNext]_deployVars => DeployInv'
  BY RecordKeepsInv
<1>3. DeployInv => RoutesAreServed
  BY RoutesHold DEF DeployInv
<1> QED BY <1>1, <1>2, <1>3, PTL DEF DeploySpec

\* No transaction takes an image away from a deployment.
LEMMA ImagesStay ==
  ASSUME DeployInv, [DeployNext]_deployVars, NEW d \in App, image[d]
  PROVE  image'[d]
<1>1. CASE \E e \in App, succeeded \in BOOLEAN : RecordBuild(e, succeeded)
  BY <1>1 DEF RecordBuild, DeployInv, DeployTypeOK
<1>2. CASE \E e, previous \in App : RecordRollback(previous, e)
  BY <1>2 DEF RecordRollback, DeployInv, DeployTypeOK
<1>3. CASE UNCHANGED image
  BY <1>3
<1> QED BY <1>1, <1>2, <1>3 DEF DeployNext, deployVars, RecordDeploy, RecordNotAsked,
       RecordRollout, RecordVerified, RecordRemoved

(****************************************************************************)
(* Traffic goes to what is live.                                            *)
(****************************************************************************)

\* The version that is live takes its service's traffic, whatever else is going out.
LEMMA LiveServes ==
  ASSUME DeployInv, NEW s, NEW d \in Placed(s), status[d] = "live"
  PROVE  Serving(s) = d
<1>1. \A e \in Placed(s) : status[e] = "live" => e = d
  BY DEF DeployInv, OneLive, Placed
<1> QED BY <1>1 DEF Serving

LEMMA NamedIsLive == ASSUME DeployInv PROVE NamedTrafficIsLive
<1> SUFFICES ASSUME Takeover, ServerMode = "managed", NEW h \in named, NEW d \in App,
                    status[d] = "live", ServiceOf[d] = HostOf[h]
             PROVE  SpecFor.route[h] = d
  BY DEF NamedTrafficIsLive
<1>1. h \in Host /\ h # Address
  BY DEF DeployInv, DeployTypeOK, Named
<1>2. Serving(HostOf[h]) = d
  BY LiveServes DEF DeployInv, LiveIsBuilt, Placed
<1> QED BY <1>1, <1>2 DEF SpecFor

\* However many services, versions and hostnames there are, whatever builds, fails, waits
\* to answer or is rolled back and whichever hostnames come and go, the specification
\* sends whoever asks for a served hostname to the version of its app that is live.
THEOREM LiveHasItsTraffic == DeploySpec => []NamedTrafficIsLive
<1>1. DeployInit => DeployInv
  BY DEF DeployInit, DeployInv, DeployTypeOK, OneLive, LiveIsBuilt, Status
<1>2. DeployInv /\ [DeployNext]_deployVars => DeployInv'
  BY RecordKeepsInv
<1>3. DeployInv => NamedTrafficIsLive
  BY NamedIsLive
<1> QED BY <1>1, <1>2, <1>3, PTL DEF DeploySpec
==============================================================================
