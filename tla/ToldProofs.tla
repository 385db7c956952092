----------------------------- MODULE ToldProofs -----------------------------
(****************************************************************************)
(* That a connected server was told what the record wants of it, over any   *)
(* number of servers, environments, requests and versions: every change of  *)
(* what SpecFor says is either one it need not hear of, or is followed by a *)
(* call of Reconcile for that very server, which reads it after the change  *)
(* and writes it last unless two of them cross.                             *)
(****************************************************************************)
EXTENDS ProjectsProofs

USE NoneIsNothing, BoundsCounted DEF Version, Row, No

(****************************************************************************)
(* The inductive invariant.                                                 *)
(****************************************************************************)

Stays(v) == moves[version[v].env] < 2
Fails(v) == version[v].status = "failed"

\* A specification agrees with the record on what runs, but for environments that moved,
WantAgrees(s, spec) ==
    {v \in SpecFor(s).want : Stays(v)} = {v \in spec.want : Stays(v) /\ ~ Fails(v)}

\* and on a hostname: it may lead to what failed or moved, or nowhere if its app moved.
RouteAgrees(s, spec, h) ==
    LET v == spec.route[h] IN
    \/ v = SpecFor(s).route[h]
    \/ v # No /\ (Fails(v) \/ ~ Stays(v))
    \/ v = No /\ domain[h].row # No /\ moves[domain[h].env] = 2

Agrees(s, spec) == WantAgrees(s, spec) /\ \A h \in Hostname : RouteAgrees(s, spec, h)

ToBeTold(s) == s \in crossed \cup untold \/ \E r \in Request : request[r] = Telling(s)

\* The last specification of a server: one that is being written, or the last that was.
IsLast(s, spec) ==
    IF Crossing(s)
    THEN \E r \in Request : request[r] = Sending(s) /\ spec = sending[r]
    ELSE spec = told[s]

\* Any that was written to it or is to be.
Handed(s, spec) ==
    spec = told[s] \/ \E r \in Request : request[r] = Sending(s) /\ spec = sending[r]

\* Until its environment moves, all that is placed of it is on the one server it has had,
\* and so is what a request that has read the target is about to place.
PlacedOnce ==
    project # "gone" =>
        /\ \A v \in Version :
             Exists(v) =>
                /\ version[v].env \in Environment
                /\ \/ moves[version[v].env] = 2
                   \/ moves[version[v].env] = 1 /\ version[v].server = serverOf[version[v].env]
        /\ \A r \in Request :
             request[r].pc \in {"targeted", "minted"} =>
                \/ moves[request[r].env] = 2
                \/ /\ moves[request[r].env] = 1
                   /\ request[r].server = serverOf[request[r].env] \/ request[r].server \notin known

\* What a server is told to run is there and placed on it, and hostnames lead to nothing else.
KnownTo(s, spec) ==
    /\ project = "absent" => spec = Nothing
    /\ \A h \in Hostname : spec.route[h] \in spec.want \cup {No}
    /\ GetProject /\ s \in known => \A v \in spec.want : Exists(v) /\ version[v].server = s

ToldKnown == \A s \in Server, spec \in Spec : Handed(s, spec) => KnownTo(s, spec)

\* All that may come to be the last, when nobody is about to read another.
ToldOrToBe ==
    \A s \in Server, spec \in Spec :
        Reaches(s) /\ GetProject /\ IsLast(s, spec) => ToBeTold(s) \/ Agrees(s, spec)

ToldInvariant == PlacedOnce /\ ToldKnown /\ ToldOrToBe

(****************************************************************************)
(* What SpecFor says.                                                       *)
(****************************************************************************)

\* Serving, of the versions placed and of those live among them.
First(live, placed) ==
    LET best == IF live # {} THEN live ELSE placed
    IN  IF best = {} THEN No ELSE CHOOSE v \in best : \A w \in best : v <= w

Placed(s, e) == {v \in ListLivePlacementsForServer(s) : version[v].env = e}
Live(s, e)   == {v \in Placed(s, e) : version[v].status = "live"}

LEMMA ServingFirst ==
    ASSUME NEW s, NEW e
    PROVE  Serving(s, e) = First(Live(s, e), Placed(s, e))
BY Zenon DEF Serving, First, Live, Placed

\* The first of a set of versions, and the only one that is.
LEMMA LeastIs ==
    ASSUME NEW S, S \subseteq Version, S # {}
    PROVE  LET least == CHOOSE v \in S : \A w \in S : v <= w
           IN  least \in S /\ \A w \in S : least <= w
<1>1. \E v \in S : \A w \in S : v <= w
  BY FirstVersion
<1> QED BY <1>1

LEMMA FirstIn ==
    ASSUME NEW live, NEW placed, placed \subseteq Version, live \subseteq placed
    PROVE  /\ First(live, placed) \in placed \cup {No}
           /\ First(live, placed) = No => placed = {}
<1> DEFINE best == IF live # {} THEN live ELSE placed
<1>1. best \subseteq placed /\ (best = {} => placed = {})
  OBVIOUS
<1>2. CASE best = {}
  BY <1>1, <1>2, Zenon DEF First
<1>3. CASE best # {}
  <2>1. First(live, placed) = CHOOSE v \in best : \A w \in best : v <= w
    BY <1>3, Zenon DEF First
  <2> HIDE DEF best
  <2>2. First(live, placed) \in best
    BY <1>1, <1>3, <2>1, LeastIs
  <2>3. First(live, placed) \in placed
    BY <1>1, <2>2
  <2>4. First(live, placed) # No
    BY <2>3
  <2> QED BY <2>3, <2>4
<1> QED BY <1>2, <1>3

\* Without one of the versions the first is the same, unless it was the first.
LEMMA FirstWithout ==
    ASSUME NEW live, NEW placed, placed \subseteq Version, live \subseteq placed, NEW v,
           First(live, placed) # v
    PROVE  First(live \ {v}, placed \ {v}) = First(live, placed)
<1> DEFINE best == IF live # {} THEN live ELSE placed
           rest == IF live \ {v} # {} THEN live \ {v} ELSE placed \ {v}
<1>1. best \subseteq Version
  OBVIOUS
<1>2. CASE best = {}
  BY <1>2
<1>3. CASE best # {}
  <2> DEFINE x == First(live, placed)
  <2>1. x = CHOOSE u \in best : \A w \in best : u <= w
    BY <1>3, Zenon DEF First
  <2>2. x \in best /\ \A w \in best : x <= w
    <3> HIDE DEF best, x
    <3> QED BY <1>1, <1>3, <2>1, LeastIs
  <2>3. rest = best \ {v}
    BY <2>2
  <2>4. x \in rest /\ \A w \in rest : x <= w
    BY <2>2, <2>3
  <2>5. First(live \ {v}, placed \ {v}) = CHOOSE u \in rest : \A w \in rest : u <= w
    BY <2>4, Zenon DEF First
  <2>6. \A u \in rest : (\A w \in rest : u <= w) => u = x
    <3> HIDE DEF best, x, rest
    <3> QED BY <1>1, <2>3, <2>4
  <2> HIDE DEF x, rest
  <2> QED BY <2>4, <2>5, <2>6 DEF x
<1> QED BY <1>2, <1>3

LEMMA ServingSame ==
    ASSUME NEW s, NEW e, Placed(s, e)' = Placed(s, e), Live(s, e)' = Live(s, e)
    PROVE  Serving(s, e)' = Serving(s, e)
<1>1. Serving(s, e)' = First(Live(s, e)', Placed(s, e)')
  BY Zenon DEF Serving, First, Live, Placed
<1> QED BY <1>1, ServingFirst

\* The parts of a specification, before a step and after it.
LEMMA SpecForIs ==
    ASSUME NEW s
    PROVE  /\ SpecFor(s).want = ListLivePlacementsForServer(s)
           /\ SpecFor(s)'.want = ListLivePlacementsForServer(s)'
           /\ \A h \in Hostname :
                /\ SpecFor(s).route[h] =
                     IF h \in ListDomainsForServer(s) THEN Serving(s, domain[h].env) ELSE No
                /\ SpecFor(s)'.route[h] =
                     IF h \in ListDomainsForServer(s)' THEN Serving(s, domain[h].env)' ELSE No
BY DEF SpecFor

\* A hostname leads to a version of its environment that the server is to run.
LEMMA ServingPlaced ==
    ASSUME NEW s, NEW e
    PROVE  /\ Serving(s, e) # No =>
                /\ Serving(s, e) \in ListLivePlacementsForServer(s)
                /\ version[Serving(s, e)].env = e
           /\ Placed(s, e) = {} => Serving(s, e) = No
<1>1. Placed(s, e) \subseteq Version /\ Live(s, e) \subseteq Placed(s, e)
  BY DEF Placed, Live, ListLivePlacementsForServer
<1>2. Serving(s, e) \in Placed(s, e) \cup {No}
  BY <1>1, ServingFirst, FirstIn
<1> QED BY <1>2 DEF Placed

\* What is running and what is named on a server being the same, so is what it is told.
LEMMA SpecSame ==
    ASSUME NEW s,
           ListLivePlacementsForServer(s)' = ListLivePlacementsForServer(s),
           \A v \in ListLivePlacementsForServer(s) :
              /\ version'[v].env = version[v].env
              /\ version'[v].status = "live" <=> version[v].status = "live",
           ListDomainsForServer(s)' = ListDomainsForServer(s),
           \A h \in ListDomainsForServer(s) : domain'[h].env = domain[h].env
    PROVE  SpecFor(s)' = SpecFor(s)
<1>1. \A h \in ListDomainsForServer(s) : Serving(s, domain[h].env)' = Serving(s, domain[h].env)
  <2> SUFFICES ASSUME NEW h \in ListDomainsForServer(s)
               PROVE  Serving(s, domain[h].env)' = Serving(s, domain[h].env)
    OBVIOUS
  <2>1. domain'[h].env = domain[h].env
    OBVIOUS
  <2>2. Serving(s, domain[h].env)' = Serving(s, domain[h].env)
    <3>1. Placed(s, domain[h].env)' = Placed(s, domain[h].env)
      BY <2>1 DEF Placed
    <3>2. Live(s, domain[h].env)' = Live(s, domain[h].env)
      BY <3>1 DEF Live, Placed
    <3> QED BY <3>1, <3>2, ServingSame
  <2> QED BY <2>2
<1> QED BY <1>1 DEF SpecFor

(****************************************************************************)
(* Agreement through a step.                                                *)
(****************************************************************************)

\* Nothing that a server was told or should be told changes.
LEMMA AgreesSame ==
    ASSUME NEW s, NEW spec, Agrees(s, spec), SpecFor(s)' = SpecFor(s),
           \A v \in spec.want \cup SpecFor(s).want :
              (Stays(v)' <=> Stays(v)) /\ (Fails(v)' <=> Fails(v)),
           \A h \in Hostname : spec.route[h] \in spec.want \cup {No},
           \A h \in Hostname : domain[h].row # No /\ moves[domain[h].env] = 2 =>
              domain'[h].row # No /\ moves'[domain'[h].env] = 2
    PROVE  Agrees(s, spec)'
<1>1. WantAgrees(s, spec)'
  <2>1. {v \in SpecFor(s)'.want : Stays(v)'} = {v \in SpecFor(s).want : Stays(v)}
    OBVIOUS
  <2>2. {v \in spec.want : Stays(v)' /\ ~ Fails(v)'} = {v \in spec.want : Stays(v) /\ ~ Fails(v)}
    OBVIOUS
  <2> QED BY <2>1, <2>2 DEF Agrees, WantAgrees
<1>2. ASSUME NEW h \in Hostname PROVE RouteAgrees(s, spec, h)'
  <2> DEFINE v == spec.route[h]
  <2>1. v \in spec.want \cup {No} /\ RouteAgrees(s, spec, h)
    BY DEF Agrees
  <2>2. CASE v = SpecFor(s).route[h]
    BY <2>1, <2>2 DEF RouteAgrees
  <2>3. CASE v # No /\ (Fails(v) \/ ~ Stays(v))
    BY <2>1, <2>3 DEF RouteAgrees
  <2>4. CASE v = No /\ domain[h].row # No /\ moves[domain[h].env] = 2
    BY <2>1, <2>4 DEF RouteAgrees
  <2> QED BY <2>1, <2>2, <2>3, <2>4 DEF RouteAgrees
<1> QED BY <1>1, <1>2 DEF Agrees

\* Nothing of what a server was told and is to be told goes.
LEMMA StillLast ==
    ASSUME NEW s, NEW spec, told'[s] = told[s],
           s \in crossed \cup untold => s \in crossed' \cup untold',
           \A r \in Request : /\ request[r] = Telling(s) => request'[r] = Telling(s)
                              /\ request[r] = Sending(s) <=> request'[r] = Sending(s)
                              /\ request[r] = Sending(s) => sending'[r] = sending[r]
    PROVE  /\ ToBeTold(s) => ToBeTold(s)'
           /\ IsLast(s, spec)' <=> IsLast(s, spec)
           /\ Handed(s, spec)' <=> Handed(s, spec)
<1>1. ToBeTold(s) => ToBeTold(s)'
  BY DEF ToBeTold
<1>2. Crossing(s)' <=> Crossing(s)
  BY DEF Crossing
<1> QED BY <1>1, <1>2 DEF IsLast, Handed

\* Other requests go on.
GoesOn ==
    /\ UNCHANGED <<told, sending, crossed, untold>>
    /\ \/ UNCHANGED request
       \/ \E r \in Request : /\ request[r].pc \notin {"reconcile", "sending"}
                             /\ \E q : Turns(r, q) /\ q.pc # "sending"

LEMMA PointsOf ==
    ASSUME NEW s
    PROVE  /\ Telling(s).pc = "reconcile" /\ Telling(s).server = s
           /\ Sending(s).pc = "sending" /\ Sending(s).server = s /\ Idle.pc = "idle"
BY DEF Telling, Sending, Idle, At

LEMMA OthersGoOn ==
    ASSUME RequestsOK, GoesOn, NEW s, NEW spec
    PROVE  /\ ToBeTold(s) => ToBeTold(s)'
           /\ IsLast(s, spec)' <=> IsLast(s, spec)
           /\ Handed(s, spec)' <=> Handed(s, spec)
<1>1. \A r \in Request : /\ request[r] = Telling(s) => request'[r] = Telling(s)
                         /\ request[r] = Sending(s) <=> request'[r] = Sending(s)
  <2>1. CASE UNCHANGED request
    BY <2>1
  <2>2. ASSUME NEW r \in Request, NEW q, request[r].pc \notin {"reconcile", "sending"},
               Turns(r, q), q.pc # "sending", NEW x \in Request
        PROVE  /\ request[x] = Telling(s) => request'[x] = Telling(s)
               /\ request[x] = Sending(s) <=> request'[x] = Sending(s)
    <3>1. x # r => request'[x] = request[x]
      BY <2>2 DEF Turns, RequestsOK
    <3>2. x = r => request'[x] = q
      BY <2>2 DEF Turns, RequestsOK
    <3> QED BY <2>2, <3>1, <3>2, PointsOf
  <2> QED BY <2>1, <2>2 DEF GoesOn
<1> QED BY <1>1, StillLast DEF GoesOn

\* So they do in every step but those that reach a server.
LEMMA StepsGoOn ==
    ASSUME \/ Administer \/ Grant \/ TakeAway \/ DeliverInstallation \/ UNCHANGED projectVars
           \/ \E r \in Request : NameStep(r) \/ AccessStep(r) \/ DeployStep(r)
    PROVE  GoesOn
<1>1. CASE Administer
  <2>1. UNCHANGED <<servers, request, hungUp>>
    BY <1>1, AdministerFrame
  <2> QED BY <2>1 DEF GoesOn, servers, handing, hungUp
<1>2. CASE Grant \/ TakeAway \/ DeliverInstallation
  BY <1>2 DEF GoesOn, Grant, TakeAway, DeliverInstallation, servers, handing, hungUp
<1>3. CASE UNCHANGED projectVars
  BY <1>3 DEF GoesOn, projectVars, servers, handing, hungUp
<1>4. ASSUME NEW r \in Request, NameStep(r) \/ AccessStep(r) \/ DeployStep(r) PROVE GoesOn
  <2>1. UNCHANGED <<told, sending, crossed, untold>>
    BY <1>4, NameFrame, AccessFrame, DeployFrame DEF servers, handing, hungUp
  <2>2. UNCHANGED request \/ \E q : Turns(r, q) /\ q.pc # "sending"
    BY <1>4, NameTurns, AccessTurns, DeployTurns
  <2>3. request[r].pc \notin {"reconcile", "sending"}
    <3>1. CASE NameStep(r)
      BY <3>1 DEF NameStep, VerifyDomain, RemoveDomain, PointsAt, RecordVerified
    <3>2. CASE AccessStep(r)
      BY <3>2 DEF AccessStep, ConnectInstallation, CreateInstallation, OwnsInstallation,
                  ConnectRepositoryToProject
    <3>3. CASE DeployStep(r)
      BY <3>3 DEF DeployStep, DeployEnvironment, DeliverPush, MintToken, AskBuild, RecordDeploy,
                  FinishBuild, FinishRollout, Rollback
    <3> QED BY <1>4, <3>1, <3>2, <3>3
  <2> QED BY <2>1, <2>2, <2>3 DEF GoesOn
<1> QED BY <1>1, <1>2, <1>3, <1>4

\* Whoever turns to telling a server is about to.
LEMMA TurnsToTellIt ==
    ASSUME RequestsOK, NEW s, NEW r \in Request, Turns(r, Telling(s))
    PROVE  ToBeTold(s)'
BY DEF RequestsOK, Turns, ToBeTold

\* The server a version is placed on is the one told of it.
LEMMA ToTellPlaced ==
    ASSUME NEW v, NEW s \in Server, version[v].server = s
    PROVE  ToTell(ListPlacements(v)) = Telling(s)
<1>1. ListPlacements(v) = {s}
  BY DEF ListPlacements
<1>2. (CHOOSE t \in {s} : TRUE) = s
  OBVIOUS
<1> QED BY <1>1, <1>2 DEF ToTell

\* A version fails: the server may go on running it, and leading a hostname to it.
LEMMA AgreesFailing ==
    ASSUME NEW s \in Server, NEW spec, Agrees(s, spec), NEW v \in Version, UNCHANGED <<place, names>>,
           \A w \in Version :
              version'[w] = IF w = v THEN SetDeploymentStatus(v, "failed") ELSE version[w],
           \A h \in Hostname : spec.route[h] \in Version \cup {No}, spec.want \subseteq Version
    PROVE  Agrees(s, spec)'
<1> USE DEF place, names
<1>1. /\ version'[v].env = version[v].env /\ version'[v].status = "failed"
      /\ \A w \in Version : w # v => version'[w] = version[w]
  BY DEF SetDeploymentStatus
<1>2. ListLivePlacementsForServer(s)' = ListLivePlacementsForServer(s) \ {v}
  BY <1>1 DEF ListLivePlacementsForServer
<1>3. \A w \in Version : (Stays(w)' <=> Stays(w)) /\ (Fails(w)' <=> Fails(w) \/ w = v)
  BY <1>1 DEF Stays, Fails
<1>4. WantAgrees(s, spec)'
  <2>1. SpecFor(s)'.want = SpecFor(s).want \ {v} /\ SpecFor(s).want \subseteq Version
    BY <1>2, SpecForIs DEF ListLivePlacementsForServer
  <2>2. {w \in SpecFor(s)'.want : Stays(w)'} = {w \in SpecFor(s).want : Stays(w)} \ {v}
    BY <1>3, <2>1
  <2>3. {w \in spec.want : Stays(w)' /\ ~ Fails(w)'} = {w \in spec.want : Stays(w) /\ ~ Fails(w)} \ {v}
    BY <1>3
  <2> QED BY <2>2, <2>3 DEF Agrees, WantAgrees
<1>5. ASSUME NEW h \in Hostname PROVE RouteAgrees(s, spec, h)'
  <2> DEFINE x == spec.route[h]
  <2>1. x \in Version \cup {No} /\ RouteAgrees(s, spec, h)
    BY DEF Agrees
  <2>2. CASE x = SpecFor(s).route[h]
    <3>1. ListDomainsForServer(s)' = ListDomainsForServer(s)
      BY DEF ListDomainsForServer, ServerFor
    <3>2. CASE h \notin ListDomainsForServer(s)
      BY <2>1, <2>2, <3>1, <3>2, SpecForIs DEF RouteAgrees
    <3>3. CASE h \in ListDomainsForServer(s)
      <4> DEFINE e == domain[h].env
      <4>1. x = Serving(s, e) /\ SpecFor(s)'.route[h] = Serving(s, e)'
        BY <2>2, <3>1, <3>3, SpecForIs
      <4>2. CASE x = v
        BY <1>1, <2>1, <4>2 DEF RouteAgrees, Fails
      <4>3. CASE x # v
        <5>1. Placed(s, e) \subseteq Version /\ Live(s, e) \subseteq Placed(s, e)
          BY DEF Placed, Live, ListLivePlacementsForServer
        <5>2. Placed(s, e)' = Placed(s, e) \ {v}
          BY <1>1, <1>2 DEF Placed, ListLivePlacementsForServer
        <5>3. Live(s, e)' = Live(s, e) \ {v}
          BY <1>1, <5>2 DEF Live, Placed, ListLivePlacementsForServer
        <5>4. Serving(s, e)' = First(Live(s, e)', Placed(s, e)')
          BY Zenon DEF Serving, First, Live, Placed
        <5>5. Serving(s, e)' = x
          BY <4>1, <4>3, <5>1, <5>2, <5>3, <5>4, ServingFirst, FirstWithout
        <5> QED BY <2>1, <4>1, <5>5 DEF RouteAgrees
      <4> QED BY <4>2, <4>3
    <3> QED BY <3>2, <3>3
  <2>3. CASE x # No /\ (Fails(x) \/ ~ Stays(x))
    BY <1>3, <2>1, <2>3 DEF RouteAgrees
  <2>4. CASE x = No /\ domain[h].row # No /\ moves[domain[h].env] = 2
    BY <2>1, <2>4 DEF RouteAgrees
  <2> QED BY <2>1, <2>2, <2>3, <2>4 DEF RouteAgrees
<1> QED BY <1>4, <1>5 DEF Agrees

\* Versions of an environment that has moved change, where the server has anything of it.
LEMMA AgreesMoved ==
    ASSUME NEW s \in Server, NEW spec, Agrees(s, spec), NEW e, moves[e] = 2, UNCHANGED <<place, names>>,
           \A w \in Version : /\ version'[w].env = version[w].env
                              /\ version[w].env # e => version'[w] = version[w],
           \A h \in Hostname : domain[h].verified => domain[h].row # No,
           \A h \in Hostname : spec.route[h] \in Version \cup {No}, spec.want \subseteq Version
    PROVE  Agrees(s, spec)'
<1> USE DEF place, names
<1>1. \A w \in Version : /\ Stays(w)' <=> Stays(w)
                         /\ Stays(w) => version[w].env # e
                         /\ version[w].env # e => (Fails(w)' <=> Fails(w))
  BY DEF Stays, Fails
<1>2. \A w \in Version : version[w].env # e =>
         (w \in ListLivePlacementsForServer(s)' <=> w \in ListLivePlacementsForServer(s))
  BY DEF ListLivePlacementsForServer
<1>3. ListLivePlacementsForServer(s) \subseteq Version /\ ListLivePlacementsForServer(s)' \subseteq Version
  BY DEF ListLivePlacementsForServer
<1>4. WantAgrees(s, spec)'
  <2>1. {w \in SpecFor(s)'.want : Stays(w)'} = {w \in SpecFor(s).want : Stays(w)}
    BY <1>1, <1>2, <1>3, SpecForIs
  <2>2. {w \in spec.want : Stays(w)' /\ ~ Fails(w)'} = {w \in spec.want : Stays(w) /\ ~ Fails(w)}
    BY <1>1
  <2> QED BY <2>1, <2>2 DEF Agrees, WantAgrees
<1>5. ASSUME NEW h \in Hostname PROVE RouteAgrees(s, spec, h)'
  <2> DEFINE x == spec.route[h]
  <2>1. x \in Version \cup {No} /\ RouteAgrees(s, spec, h)
    BY DEF Agrees
  <2>2. CASE x = SpecFor(s).route[h]
    <3>1. ListDomainsForServer(s)' = ListDomainsForServer(s)
      BY DEF ListDomainsForServer, ServerFor
    <3>2. CASE h \notin ListDomainsForServer(s)
      BY <2>1, <2>2, <3>1, <3>2, SpecForIs DEF RouteAgrees
    <3>3. CASE h \in ListDomainsForServer(s)
      <4> DEFINE d == domain[h].env
      <4>1. x = Serving(s, d) /\ SpecFor(s)'.route[h] = Serving(s, d)'
        BY <2>2, <3>1, <3>3, SpecForIs
      <4>2. CASE d # e
        <5>1. Placed(s, d)' = Placed(s, d)
          BY <1>2, <1>3, <4>2 DEF Placed
        <5>2. Live(s, d)' = Live(s, d)
          BY <1>3, <4>2, <5>1 DEF Live, Placed
        <5>3. Serving(s, d)' = Serving(s, d)
          BY <5>1, <5>2, ServingSame
        <5> QED BY <2>1, <4>1, <5>3 DEF RouteAgrees
      <4>3. CASE d = e /\ x # No
        <5>1. x \in Version /\ version[x].env = e
          BY <2>1, <4>1, <4>3, ServingPlaced
        <5> QED BY <1>1, <2>1, <4>3, <5>1 DEF RouteAgrees
      <4>4. CASE d = e /\ x = No
        <5>1. domain[h].row # No
          BY <3>3 DEF ListDomainsForServer
        <5> QED BY <2>1, <4>4, <5>1 DEF RouteAgrees
      <4> QED BY <4>2, <4>3, <4>4
    <3> QED BY <3>2, <3>3
  <2>3. CASE x # No /\ (Fails(x) \/ ~ Stays(x))
    BY <1>1, <2>1, <2>3 DEF RouteAgrees
  <2>4. CASE x = No /\ domain[h].row # No /\ moves[domain[h].env] = 2
    BY <2>1, <2>4 DEF RouteAgrees
  <2> QED BY <2>1, <2>2, <2>3, <2>4 DEF RouteAgrees
<1> QED BY <1>4, <1>5 DEF Agrees

(****************************************************************************)
(* Where versions are placed.                                               *)
(****************************************************************************)

\* A step of a deployment leaves every version where it is, and a new one is placed where
\* another is, for a rollback, or where the target was read to be.
LEMMA VersionsStay ==
    ASSUME TypeInvariant, NEW r \in Request, DeployStep(r)
    PROVE  \A v \in Version :
             /\ Exists(v) => /\ Exists(v)'
                             /\ version'[v].env = version[v].env /\ version'[v].server = version[v].server
             /\ Exists(v)' =>
                  \/ Exists(v)
                  \/ \E previous \in Version :
                       /\ Exists(previous) /\ version'[v].env = version[previous].env
                       /\ version'[v].server = version[previous].server
                  \/ /\ request[r].pc = "minted" /\ request[r].server \in known
                     /\ version'[v].env = request[r].env /\ version'[v].server = request[r].server
<1> USE DEF Exists
<1>0. VersionsOK /\ RequestsOK
  BY DEF TypeInvariant, ProjectsTypeOK
<1> USE <1>0 DEF VersionsOK
<1>1. CASE \/ MintToken(r) \/ \E e \in Environment : DeployEnvironment(r, e) \/ DeliverPush(r, e)
  BY <1>1 DEF MintToken, DeployEnvironment, DeliverPush
<1>2. CASE AskBuild(r)
  BY <1>2 DEF AskBuild, SetDeploymentStatus, Gone
<1>3. ASSUME NEW v \in Version, RecordDeploy(r, v)
      PROVE  \/ UNCHANGED version
             \/ /\ ~ Exists(v) /\ request[r].pc = "minted" /\ request[r].server \in known
                /\ version' = [version EXCEPT ![v] =
                                 CreatePlacement(request[r].env, request[r].server, "building", No)]
  BY <1>3 DEF RecordDeploy, CreateDeployment, GetServer
<1>4. CASE \E v \in Version : RecordDeploy(r, v)
  <2>1. PICK v \in Version : RecordDeploy(r, v)
    BY <1>4
  <2>2. CASE UNCHANGED version
    BY <2>2
  <2>3. CASE /\ ~ Exists(v) /\ request[r].pc = "minted" /\ request[r].server \in known
             /\ version' = [version EXCEPT ![v] =
                              CreatePlacement(request[r].env, request[r].server, "building", No)]
    <3>1. \A w \in Version : w # v => version'[w] = version[w]
      BY <2>3
    <3>2. version'[v].env = request[r].env /\ version'[v].server = request[r].server
      BY <2>3 DEF CreatePlacement
    <3> QED BY <2>3, <3>1, <3>2
  <2> QED BY <1>3, <2>1, <2>2, <2>3
<1>5. CASE \E v \in Version, ok \in BOOLEAN : FinishBuild(r, v, ok)
  BY <1>5 DEF FinishBuild, SetDeploymentImage, SetDeploymentStatus
<1>6. CASE \E v \in Version, s \in Server, healthy \in BOOLEAN : FinishRollout(r, s, v, healthy)
  <2>1. PICK v \in Version, s \in Server, healthy \in BOOLEAN : FinishRollout(r, s, v, healthy)
    BY <1>6
  <2>2. Exists(v) /\ \A w \in Version :
          version'[w] = IF w = v THEN SetDeploymentStatus(v, IF healthy THEN "live" ELSE "failed")
                        ELSE IF healthy THEN SupersedePrevious(w, v) ELSE version[w]
    BY <2>1 DEF FinishRollout
  <2>3. \A w \in Version :
          \/ SupersedePrevious(w, v) = version[w]
          \/ Exists(w) /\ SupersedePrevious(w, v) = SetDeploymentStatus(w, "superseded")
    BY DEF SupersedePrevious
  <2>4. \A w \in Version :
          \/ version'[w] = version[w]
          \/ Exists(w) /\ \E status \in {"live", "failed", "superseded"} : version'[w] = SetDeploymentStatus(w, status)
    BY <2>2, <2>3
  <2>5. \A w, status : /\ SetDeploymentStatus(w, status).env = version[w].env
                       /\ SetDeploymentStatus(w, status).server = version[w].server
                       /\ SetDeploymentStatus(w, status).status = status
    BY DEF SetDeploymentStatus
  <2>6. ASSUME NEW w \in Version, version'[w] # version[w]
        PROVE  /\ Exists(w) /\ Exists(w)'
               /\ version'[w].env = version[w].env /\ version'[w].server = version[w].server
    <3>1. Exists(w) /\ \E status \in {"live", "failed", "superseded"} : version'[w] = SetDeploymentStatus(w, status)
      BY <2>4, <2>6
    <3> QED BY <2>5, <3>1
  <2> QED BY <2>6
<1>7. CASE \E v, previous \in Version : Rollback(r, v, previous)
  <2>1. PICK v \in Version, previous \in Version : Rollback(r, v, previous)
    BY <1>7
  <2>2. PICK s \in ListPlacements(previous) :
          version' = [version EXCEPT ![v] =
                        CreatePlacement(version[previous].env, s, "deploying", version[previous].image)]
    BY <2>1 DEF Rollback
  <2>3. ~ Exists(v) /\ Exists(previous) /\ s = version[previous].server
    BY <2>1, <2>2 DEF Rollback, CreateDeployment, ListPlacements
  <2> QED BY <2>2, <2>3 DEF CreatePlacement
<1> QED BY <1>1, <1>2, <1>4, <1>5, <1>6, <1>7 DEF DeployStep

LEMMA PlacedAdminister ==
    ASSUME TypeInvariant, NamesInvariant, PlacedOnce, Administer
    PROVE  PlacedOnce'
<1>0. /\ PlaceOK /\ VersionsOK /\ RequestsOK /\ NothingLeft /\ RequestsKnown /\ UNCHANGED request
      /\ \A e \in Environment : serverOf[e] # None => moves[e] # 0
  BY AdministerFrame DEF TypeInvariant, ProjectsTypeOK, NamesInvariant
<1> USE <1>0 DEF PlacedOnce, PlaceOK, Exists
<1>1. CASE Create
  BY <1>1 DEF Create, NothingLeft
<1>2. CASE Delete
  BY <1>2 DEF Delete
<1>3. ASSUME NEW s \in Server, DeleteServer(s) PROVE PlacedOnce'
  <2>1. /\ UNCHANGED <<project, moves>> /\ known' = known \ {s}
        /\ \A e \in Environment : serverOf'[e] = IF serverOf[e] = s THEN None ELSE serverOf[e]
        /\ \A v \in Version :
             /\ version'[v].env = version[v].env /\ version'[v].status = version[v].status
             /\ version'[v].server = IF version[v].server = s THEN None ELSE version[v].server
    BY <1>3 DEF DeleteServer, DeleteServerRow
  <2>2. \A r \in Request : request[r].pc \in {"targeted", "minted"} =>
          request[r].server \in Server /\ request[r].env \in Environment
    BY DEF RequestsKnown
  <2> QED BY <2>1, <2>2
<1>4. ASSUME NEW s \in Server, NEW e \in Environment, UpdateEnvironment(e, s) PROVE PlacedOnce'
  <2>1. /\ UNCHANGED <<project, version, known>>
        /\ serverOf' = [serverOf EXCEPT ![e] = s]
        /\ moves' = [moves EXCEPT ![e] = IF moves[e] = 0 THEN 1 ELSE 2]
    BY <1>4 DEF UpdateEnvironment, SetEnvironmentServer
  <2>2. \A r \in Request : request[r].pc \in {"targeted", "minted"} => request[r].env \in Environment
    BY DEF RequestsKnown
  <2> QED BY <2>1, <2>2
<1>5. ASSUME NEW h \in Hostname, NEW e \in Environment, AddDomain(h, e) PROVE PlacedOnce'
  BY <1>5 DEF AddDomain, place
<1> QED BY <1>1, <1>2, <1>3, <1>4, <1>5 DEF Administer

LEMMA PlacedDeploy ==
    ASSUME TypeInvariant, NamesInvariant, PlacedOnce, NEW r \in Request, DeployStep(r)
    PROVE  PlacedOnce'
<1>0. /\ PlaceOK /\ RequestsOK /\ RequestsKnown /\ UNCHANGED place
      /\ \A e \in Environment : serverOf[e] # None => moves[e] # 0
  BY DeployFrame DEF TypeInvariant, ProjectsTypeOK, NamesInvariant
<1> USE <1>0 DEF PlacedOnce, PlaceOK, place
<1> SUFFICES ASSUME project # "gone" PROVE PlacedOnce'
  OBVIOUS
<1>1. ASSUME NEW v \in Version, Exists(v)'
      PROVE  /\ version'[v].env \in Environment
             /\ \/ moves[version'[v].env] = 2
                \/ moves[version'[v].env] = 1 /\ version'[v].server = serverOf[version'[v].env]
  <2>1. CASE Exists(v)
    BY <2>1, VersionsStay
  <2>2. CASE \E previous \in Version :
               /\ Exists(previous) /\ version'[v].env = version[previous].env
               /\ version'[v].server = version[previous].server
    BY <2>2
  <2>3. CASE /\ request[r].pc = "minted" /\ request[r].server \in known
             /\ version'[v].env = request[r].env /\ version'[v].server = request[r].server
    BY <2>3 DEF RequestsKnown
  <2> QED BY <1>1, <2>1, <2>2, <2>3, VersionsStay
<1>2. ASSUME NEW other \in Request, request'[other].pc \in {"targeted", "minted"}
      PROVE  \/ moves[request'[other].env] = 2
             \/ /\ moves[request'[other].env] = 1
                /\ \/ request'[other].server = serverOf[request'[other].env]
                   \/ request'[other].server \notin known
  <2>1. CASE request'[other] = request[other]
    BY <1>2, <2>1
  <2>2. ASSUME NEW e \in Environment, DeployEnvironment(r, e) \/ DeliverPush(r, e), other = r
        PROVE  moves[e] \in {1, 2} /\ request'[other] = At("targeted", e, serverOf[e], No, None, No)
    BY <2>2 DEF DeployEnvironment, DeliverPush, Turns, GetDeployTarget, RequestsOK
  <2>3. ASSUME MintToken(r), other = r
        PROVE  /\ request[r].pc = "targeted"
               /\ request'[other] \in {Idle, At("minted", request[r].env, request[r].server, No, None, No)}
    BY <2>3 DEF MintToken, Turns, RequestsOK
  <2>4. CASE other = r /\ \E e \in Environment : DeployEnvironment(r, e) \/ DeliverPush(r, e)
    BY <2>2, <2>4, AtFields
  <2>5. CASE other = r /\ MintToken(r)
    BY <1>2, <2>3, <2>5, AtFields, ToTellPoint
  <2>6. ASSUME NEW q, Turns(r, q), q.pc \notin {"targeted", "minted"} PROVE request'[other] = request[other]
    BY <1>2, <2>6 DEF Turns, RequestsOK
  <2>7. CASE AskBuild(r)
    BY <2>1, <2>6, <2>7, ToTellPoint DEF AskBuild
  <2>8. CASE \E v \in Version : RecordDeploy(r, v)
    BY <2>1, <2>6, <2>8, AtFields, ToTellPoint DEF RecordDeploy
  <2>9. CASE \E v \in Version, ok \in BOOLEAN : FinishBuild(r, v, ok)
    BY <2>1, <2>6, <2>9, ToTellPoint DEF FinishBuild
  <2>10. CASE \E v \in Version, s \in Server, healthy \in BOOLEAN : FinishRollout(r, s, v, healthy)
    BY <2>1, <2>6, <2>10, ToTellPoint DEF FinishRollout
  <2>11. CASE \E v, previous \in Version : Rollback(r, v, previous)
    BY <2>1, <2>6, <2>11, AtFields DEF Rollback, Telling
  <2>12. other # r => request'[other] = request[other]
    BY DeployTurns DEF Turns, RequestsOK
  <2> QED BY <2>1, <2>4, <2>5, <2>7, <2>8, <2>9, <2>10, <2>11, <2>12 DEF DeployStep
<1> QED BY <1>1, <1>2

LEMMA PlacedKept ==
    ASSUME TypeInvariant, NamesInvariant, PlacedOnce, [ProjectsNext]_projectVars
    PROVE  PlacedOnce'
<1>0. RequestsOK
  BY DEF TypeInvariant, ProjectsTypeOK
<1>1. ASSUME UNCHANGED <<place, version>>,
             \A r \in Request : request'[r].pc \in {"targeted", "minted"} => request'[r] = request[r]
      PROVE  PlacedOnce'
  BY <1>1 DEF PlacedOnce, Exists, place
<1>2. CASE Administer
  BY <1>2, PlacedAdminister
<1>3. CASE Grant \/ TakeAway \/ DeliverInstallation
  BY <1>1, <1>3 DEF Grant, TakeAway, DeliverInstallation
<1>4. ASSUME NEW r \in Request, NameStep(r) \/ AccessStep(r) PROVE PlacedOnce'
  <2>1. UNCHANGED <<place, version>>
    BY <1>4, NameFrame, AccessFrame
  <2>2. \A x \in Request : request'[x].pc \in {"targeted", "minted"} => request'[x] = request[x]
    BY <1>0, <1>4, NameTurns, AccessTurns DEF Turns, RequestsOK
  <2> QED BY <1>1, <2>1, <2>2
<1>5. ASSUME NEW r \in Request, DeployStep(r) PROVE PlacedOnce'
  BY <1>5, PlacedDeploy
<1>6. CASE ReachStep
  <2>1. \A r \in Request : request'[r].pc \in {"targeted", "minted"} => request'[r] = request[r]
    BY <1>0, <1>6, ReachKnown DEF TypeInvariant
  <2> QED BY <1>1, <1>6, <2>1, ReachFrame
<1>7. CASE UNCHANGED projectVars
  BY <1>1, <1>7 DEF projectVars
<1> QED BY <1>2, <1>3, <1>4, <1>5, <1>6, <1>7 DEF ProjectsNext

(****************************************************************************)
(* What servers were told of.                                               *)
(****************************************************************************)

\* What SpecFor says can be told.
LEMMA SpecKnown ==
    ASSUME TypeInvariant, NEW s \in Server
    PROVE  /\ project = "absent" => SpecFor(s) = Nothing
           /\ \A h \in Hostname : SpecFor(s).route[h] \in SpecFor(s).want \cup {No}
           /\ \A v \in SpecFor(s).want : Exists(v) /\ version[v].server = s
<1>1. SpecFor(s).want = ListLivePlacementsForServer(s)
  BY SpecForIs
<1>2. \A v \in SpecFor(s).want : Exists(v) /\ version[v].server = s
  BY <1>1 DEF ListLivePlacementsForServer, Exists
<1>3. \A h \in Hostname : SpecFor(s).route[h] \in SpecFor(s).want \cup {No}
  BY <1>1, SpecForIs, ServingPlaced
<1>4. ASSUME project = "absent" PROVE SpecFor(s) = Nothing
  <2>1. ListLivePlacementsForServer(s) = {} /\ ListDomainsForServer(s) = {}
    BY <1>4 DEF TypeInvariant, ProjectsTypeOK, NothingLeft, ListLivePlacementsForServer,
                Exists, ListDomainsForServer, Unnamed
  <2> QED BY <2>1 DEF SpecFor, Nothing
<1> QED BY <1>2, <1>3, <1>4

\* It stays known while what is placed stays, and while there is nothing at all.
LEMMA KnownStays ==
    ASSUME NEW s, NEW spec \in Spec, KnownTo(s, spec), project' = "absent" => project = "absent",
           known' \subseteq known, GetProject' /\ ~ GetProject => spec = Nothing,
           \A v \in Version :
              GetProject' /\ s \in known' /\ Exists(v) /\ version[v].server = s =>
                 Exists(v)' /\ version'[v].server = s
    PROVE  KnownTo(s, spec)'
<1>1. spec.want \subseteq Version /\ Nothing.want = {}
  BY DEF Spec, Nothing
<1> QED BY <1>1 DEF KnownTo

LEMMA ToldKnownKept ==
    ASSUME TypeInvariant, ToldKnown, [ProjectsNext]_projectVars
    PROVE  ToldKnown'
<1>0. VersionsOK /\ ServersOK /\ RequestsOK /\ RequestsKnown
  BY DEF TypeInvariant, ProjectsTypeOK
<1> SUFFICES ASSUME NEW s \in Server, NEW spec \in Spec, Handed(s, spec)' PROVE KnownTo(s, spec)'
  BY DEF ToldKnown
<1>1. Handed(s, spec) => KnownTo(s, spec)
  BY DEF ToldKnown
<1>2. ASSUME KnownTo(s, spec), UNCHANGED <<place, version>> PROVE KnownTo(s, spec)'
  BY <1>2 DEF KnownTo, place, GetProject, Exists
<1>3. GoesOn => Handed(s, spec)
  BY <1>0, OthersGoOn
<1>4. CASE Administer
  <2>0. KnownTo(s, spec)
    BY <1>1, <1>3, <1>4, StepsGoOn
  <2>1. CASE Create
    <3>1. spec = Nothing
      BY <2>0, <2>1 DEF Create, KnownTo
    <3>2. Nothing.want = {}
      BY DEF Nothing
    <3> QED BY <2>0, <2>1, <3>1, <3>2 DEF Create, KnownTo
  <2>2. CASE Delete
    BY <2>0, <2>2 DEF Delete, KnownTo, GetProject
  <2>3. ASSUME NEW t \in Server, DeleteServer(t) PROVE KnownTo(s, spec)'
    <3>1. UNCHANGED project /\ known' = known \ {t}
          /\ \A v \in Version : /\ version'[v].status = version[v].status
                                /\ version[v].server # t => version'[v].server = version[v].server
      BY <2>3, <1>0 DEF DeleteServer, DeleteServerRow, VersionsOK
    <3> QED BY <2>0, <3>1, KnownStays DEF GetProject, Exists
  <2>4. CASE \E t \in Server, e \in Environment : UpdateEnvironment(e, t)
    BY <2>0, <2>4, KnownStays DEF UpdateEnvironment, GetProject, Exists
  <2>5. CASE \E h \in Hostname, e \in Environment : AddDomain(h, e)
    BY <1>2, <2>0, <2>5 DEF AddDomain
  <2> QED BY <1>4, <2>1, <2>2, <2>3, <2>4, <2>5 DEF Administer
<1>5. CASE Grant \/ TakeAway \/ DeliverInstallation
  BY <1>1, <1>2, <1>3, <1>5, StepsGoOn DEF Grant, TakeAway, DeliverInstallation
<1>6. ASSUME NEW r \in Request, NameStep(r) \/ AccessStep(r) PROVE KnownTo(s, spec)'
  BY <1>1, <1>2, <1>3, <1>6, StepsGoOn, NameFrame, AccessFrame
<1>7. ASSUME NEW r \in Request, DeployStep(r) PROVE KnownTo(s, spec)'
  <2>1. UNCHANGED place
    BY <1>7, DeployFrame
  <2>2. \A v \in Version : Exists(v) => Exists(v)' /\ version'[v].server = version[v].server
    BY <1>7, VersionsStay
  <2>3. KnownTo(s, spec)
    BY <1>1, <1>3, <1>7, StepsGoOn
  <2> QED BY <2>1, <2>2, <2>3, KnownStays DEF place, GetProject
<1>8. CASE ReachStep
  <2>0. UNCHANGED <<place, version>>
    BY <1>8, ReachFrame
  <2>1. Handed(s, spec) \/ spec = SpecFor(s)
    <3>1. ASSUME NEW r \in Request, NEW t \in Server, Connects(r, t) PROVE Handed(s, spec)
      <4>1. GoesOn
        BY <3>1, PointsOf DEF Connects, GoesOn, handing, hungUp
      <4> QED BY <1>3, <4>1
    <3>2. ASSUME NEW t \in Server, Disconnects(t) PROVE Handed(s, spec)
      <4>1. \A x \in Request : request'[x] = Sending(s) => request[x] = Sending(s) /\ sending'[x] = sending[x]
        BY <3>2, PointsOf DEF Disconnects
      <4> QED BY <3>2, <4>1 DEF Disconnects, Handed
    <3>3. ASSUME NEW r \in Request, ReadSpec(r) PROVE Handed(s, spec) \/ spec = SpecFor(s)
      <4>1. \A x \in Request : x # r => request'[x] = request[x] /\ sending'[x] = sending[x]
        BY <1>0, <3>3 DEF ReadSpec, Turns, RequestsOK, ServersOK
      <4>2. request'[r] = Sending(s) => sending'[r] = SpecFor(s)
        <5>1. CASE Reaches(request[r].server)
          <6>1. /\ request'[r] = Sending(request[r].server)
                /\ sending'[r] = SpecFor(request[r].server)
            BY <1>0, <3>3, <5>1 DEF ReadSpec, Turns, RequestsOK, ServersOK
          <6>2. Sending(request[r].server).server = request[r].server /\ Sending(s).server = s
            BY PointsOf, Zenon
          <6> QED BY <6>1, <6>2, Zenon
        <5>2. CASE ~ Reaches(request[r].server)
          BY <1>0, <3>3, <5>2, PointsOf DEF ReadSpec, Turns, RequestsOK
        <5> QED BY <5>1, <5>2
      <4>3. UNCHANGED told
        BY <3>3 DEF ReadSpec
      <4> QED BY <4>1, <4>2, <4>3 DEF Handed
    <3>4. ASSUME NEW r \in Request, SendSpec(r) PROVE Handed(s, spec)
      <4>1. /\ request'[r] = Idle
            /\ \A x \in Request : x # r => request'[x] = request[x] /\ sending'[x] = sending[x]
        BY <1>0, <3>4 DEF SendSpec, Turns, RequestsOK, ServersOK
      <4>2. request[r] = Sending(request[r].server)
        BY <1>0, <3>4 DEF SendSpec, RequestsKnown
      <4>3. told'[s] = told[s] \/ (s = request[r].server /\ told'[s] = sending[r])
        BY <1>0, <3>4 DEF SendSpec, ServersOK
      <4> QED BY <4>1, <4>2, <4>3, PointsOf DEF Handed
    <3>5. ASSUME NEW r \in Request, HangUp(r) PROVE Handed(s, spec)
      <4>1. /\ request'[r] = Idle /\ UNCHANGED told
            /\ \A x \in Request : x # r => request'[x] = request[x] /\ sending'[x] = sending[x]
        BY <1>0, <3>5 DEF HangUp, Turns, RequestsOK, ServersOK
      <4> QED BY <4>1, PointsOf DEF Handed
    <3> QED BY <1>8, <3>1, <3>2, <3>3, <3>4, <3>5 DEF ReachStep
  <2>2. KnownTo(s, SpecFor(s))
    BY SpecKnown DEF KnownTo
  <2> QED BY <1>1, <1>2, <2>0, <2>1, <2>2
<1>9. CASE UNCHANGED projectVars
  BY <1>1, <1>2, <1>3, <1>9, StepsGoOn DEF projectVars
<1> QED BY <1>4, <1>5, <1>6, <1>7, <1>8, <1>9 DEF ProjectsNext

(****************************************************************************)
(* That somebody agrees with the record or is about to be told of it.       *)
(****************************************************************************)

\* What the invariants say of a server that is reached while its project is there.
LEMMA ReachedKnows ==
    ASSUME TypeInvariant, NamesInvariant, ToldInvariant, NEW s \in Server, Reaches(s), GetProject,
           NEW spec \in Spec, IsLast(s, spec)
    PROVE  /\ spec.want \subseteq Version
           /\ \A h \in Hostname : spec.route[h] \in spec.want \cup {No}
           /\ \A h \in Hostname : domain[h].verified => domain[h].row # No
           /\ \A v \in spec.want \cup SpecFor(s).want :
                v \in Version /\ Exists(v) /\ version[v].server = s /\ version[v].env \in Environment
           /\ ToBeTold(s) \/ Agrees(s, spec)
<1>1. spec.want \subseteq Version /\ SpecFor(s).want \subseteq Version
  BY SpecForIs DEF Spec, ListLivePlacementsForServer
<1>2. KnownTo(s, spec)
  BY DEF ToldInvariant, ToldKnown, IsLast, Handed
<1>3. \A v \in spec.want : Exists(v) /\ version[v].server = s
  BY <1>2 DEF KnownTo, Reaches, GetServer
<1>4. \A v \in SpecFor(s).want : Exists(v) /\ version[v].server = s
  BY SpecKnown
<1>5. \A v \in Version : Exists(v) => version[v].env \in Environment
  BY DEF ToldInvariant, PlacedOnce, GetProject
<1>6. \A h \in Hostname : spec.route[h] \in spec.want \cup {No}
  BY <1>2 DEF KnownTo
<1>7. \A h \in Hostname : domain[h].verified => domain[h].row # No
  BY DEF NamesInvariant, Proven
<1>8. ToBeTold(s) \/ Agrees(s, spec)
  BY DEF ToldInvariant, ToldOrToBe
<1> QED BY <1>1, <1>3, <1>4, <1>5, <1>6, <1>7, <1>8

\* The tables the specifications are made from stay as they are.
LEMMA AgreesStill ==
    ASSUME NEW s, NEW spec, Agrees(s, spec), UNCHANGED <<place, version, domain>>
    PROVE  Agrees(s, spec)' /\ SpecFor(s)' = SpecFor(s)
<1>1. SpecFor(s)' = SpecFor(s)
  BY SpecSame DEF ListLivePlacementsForServer, ListDomainsForServer, ServerFor, place
<1> QED BY <1>1 DEF Agrees, WantAgrees, RouteAgrees, Stays, Fails, place

LEMMA TablesSame ==
    ASSUME RequestsOK, ToldOrToBe, UNCHANGED <<place, version, domain>>, online' \subseteq online, GoesOn
    PROVE  ToldOrToBe'
<1> SUFFICES ASSUME NEW s \in Server, Reaches(s)', GetProject', NEW spec \in Spec, IsLast(s, spec)'
             PROVE  ToBeTold(s)' \/ Agrees(s, spec)'
  BY DEF ToldOrToBe
<1>1. Reaches(s) /\ GetProject
  BY DEF Reaches, GetServer, GetProject, place
<1>2. IsLast(s, spec) /\ (ToBeTold(s) => ToBeTold(s)')
  BY OthersGoOn
<1> QED BY <1>1, <1>2, AgreesStill DEF ToldOrToBe

LEMMA ToldAdminister ==
    ASSUME TypeInvariant, NamesInvariant, ToldInvariant, Administer
    PROVE  ToldOrToBe'
<1>0. /\ PlaceOK /\ VersionsOK /\ NamesOK /\ ServersOK /\ RequestsOK /\ NothingLeft /\ RowsKnown
      /\ UNCHANGED <<servers, request, hungUp>>
      /\ \A e \in Environment : serverOf[e] # None => moves[e] # 0
      /\ \A h \in Hostname : domain[h].row # No => moves[domain[h].env] # 0
  BY AdministerFrame DEF TypeInvariant, ProjectsTypeOK, NamesInvariant
<1> SUFFICES ASSUME NEW s \in Server, Reaches(s)', GetProject', NEW spec \in Spec, IsLast(s, spec)'
             PROVE  ToBeTold(s)' \/ Agrees(s, spec)'
  BY DEF ToldOrToBe
<1> USE <1>0 DEF servers
<1>b. IsLast(s, spec) /\ (ToBeTold(s) => ToBeTold(s)')
  BY StepsGoOn, OthersGoOn
<1> USE <1>b
<1>1. ASSUME ToBeTold(s) PROVE ToBeTold(s)'
  BY <1>1
<1>2. CASE Create
  <2>1. /\ \A v \in Version : ~ Exists(v)'
        /\ \A h \in Hostname : domain'[h] = Unnamed
        /\ spec = Nothing
    BY <1>2 DEF Create, NothingLeft, Exists, names, ToldInvariant, ToldKnown, KnownTo, IsLast, Handed
  <2>2. ListLivePlacementsForServer(s)' = {} /\ ListDomainsForServer(s)' = {}
    BY <2>1 DEF ListLivePlacementsForServer, Exists, ListDomainsForServer, Unnamed
  <2>3. SpecFor(s)' = Nothing
    BY <2>2 DEF SpecFor, Nothing
  <2> QED BY <2>1, <2>3 DEF Agrees, WantAgrees, RouteAgrees, Nothing
<1>3. CASE Delete
  BY <1>3 DEF Delete, GetProject
<1>4. ASSUME NEW t \in Server, DeleteServer(t) PROVE ToBeTold(s)' \/ Agrees(s, spec)'
  <2>1. /\ UNCHANGED <<project, moves, names>> /\ known' = known \ {t}
        /\ \A e \in Environment : serverOf'[e] = IF serverOf[e] = t THEN None ELSE serverOf[e]
        /\ \A v \in Version : /\ version'[v].status = version[v].status /\ version'[v].image = version[v].image
                              /\ version'[v].env = version[v].env
                              /\ version'[v].server = IF version[v].server = t THEN None ELSE version[v].server
    BY <1>4 DEF DeleteServer, DeleteServerRow
  <2>2. s # t /\ s # None /\ Reaches(s) /\ GetProject
    BY <2>1 DEF Reaches, GetServer, GetProject
  <2>3. ListLivePlacementsForServer(s)' = ListLivePlacementsForServer(s)
    BY <2>1, <2>2 DEF ListLivePlacementsForServer
  <2>4. \A h \in Hostname : (domain[h].verified /\ ServerFor(h) = s)' <=> (domain[h].verified /\ ServerFor(h) = s)
    BY <2>1, <2>2, ReachedKnows DEF ServerFor, RowsKnown, names
  <2>5. ListDomainsForServer(s)' = ListDomainsForServer(s)
    BY <2>4 DEF ListDomainsForServer
  <2>6. SpecFor(s)' = SpecFor(s)
    <3>1. ListLivePlacementsForServer(s) \subseteq Version
      BY DEF ListLivePlacementsForServer
    <3> QED BY <2>1, <2>3, <2>5, <3>1, SpecSame DEF names
  <2>7. \A v \in Version : (Stays(v)' <=> Stays(v)) /\ (Fails(v)' <=> Fails(v))
    BY <2>1 DEF Stays, Fails
  <2>8. CASE Agrees(s, spec)
    <3>1. \A v \in spec.want \cup SpecFor(s).want : v \in Version
      BY <2>2, ReachedKnows
    <3> QED BY <2>1, <2>2, <2>6, <2>7, <2>8, <3>1, ReachedKnows, AgreesSame DEF names
  <2> QED BY <1>1, <2>2, <2>8, ReachedKnows
<1>5. ASSUME NEW t \in Server, NEW e \in Environment, UpdateEnvironment(e, t) PROVE ToBeTold(s)' \/ Agrees(s, spec)'
  <2>1. /\ UNCHANGED <<known, project, version, names>>
        /\ serverOf' = [serverOf EXCEPT ![e] = t]
        /\ moves' = [moves EXCEPT ![e] = IF moves[e] = 0 THEN 1 ELSE 2]
        /\ \A other \in Environment : moves[other] \in 0..2
    BY <1>5 DEF UpdateEnvironment, SetEnvironmentServer, PlaceOK
  <2>2. Reaches(s) /\ GetProject
    BY <2>1 DEF Reaches, GetServer, GetProject
  <2>3. ListLivePlacementsForServer(s)' = ListLivePlacementsForServer(s)
    BY <2>1 DEF ListLivePlacementsForServer
  <2>4. \A v \in spec.want \cup SpecFor(s).want :
          /\ Fails(v)' <=> Fails(v)
          /\ Stays(v)' <=> Stays(v) /\ ~ (version[v].env = e /\ moves[e] # 0)
    <3>1. \A v \in spec.want \cup SpecFor(s).want : version[v].env \in Environment
      BY <2>2, ReachedKnows
    <3> QED BY <2>1, <3>1 DEF Stays, Fails, PlaceOK
  <2>5. ASSUME Agrees(s, spec) PROVE WantAgrees(s, spec)'
    <3>1. SpecFor(s)'.want = SpecFor(s).want
      BY <2>3, SpecForIs
    <3>2. {v \in SpecFor(s).want : Stays(v)} = {v \in spec.want : Stays(v) /\ ~ Fails(v)}
      BY <2>5 DEF Agrees, WantAgrees
    <3>3. {v \in SpecFor(s)'.want : Stays(v)'} = {v \in spec.want : Stays(v)' /\ ~ Fails(v)'}
      BY <2>4, <3>1, <3>2
    <3> QED BY <3>3 DEF WantAgrees
  <2>6. ASSUME Agrees(s, spec), NEW h \in Hostname PROVE RouteAgrees(s, spec, h)'
    <3> DEFINE x == spec.route[h]
    <3>1. x \in spec.want \cup {No} /\ RouteAgrees(s, spec, h) /\ spec.want \subseteq Version
      BY <2>2, <2>6, ReachedKnows DEF Agrees
    <3>2. CASE x # No /\ (Fails(x) \/ ~ Stays(x))
      BY <2>4, <3>1, <3>2 DEF RouteAgrees
    <3>3. CASE x = No /\ domain[h].row # No /\ moves[domain[h].env] = 2
      <4>1. domain'[h] = domain[h] /\ domain[h].env \in Environment
        BY <2>1, <3>3 DEF names, RowsKnown
      <4>2. moves'[domain[h].env] = 2
        BY <2>1, <3>3, <4>1 DEF PlaceOK
      <4> QED BY <3>1, <3>3, <4>1, <4>2 DEF RouteAgrees
    <3>4. CASE x = SpecFor(s).route[h] /\ domain[h].row # No /\ domain[h].env = e
      <4>1. domain'[h] = domain[h] /\ moves[e] # 0 /\ moves'[e] = 2
        BY <2>1, <3>4 DEF names, PlaceOK
      <4>2. CASE x = No
        BY <3>1, <3>4, <4>1, <4>2 DEF RouteAgrees
      <4>3. CASE x # No
        <5>1. x \in spec.want /\ version[x].env = e
          BY <3>1, <3>4, <4>3, SpecForIs, ServingPlaced
        <5> QED BY <2>4, <3>1, <4>1, <4>3, <5>1 DEF RouteAgrees
      <4> QED BY <4>2, <4>3
    <3>5. CASE x = SpecFor(s).route[h] /\ ~ (domain[h].row # No /\ domain[h].env = e)
      <4>1. domain[h].verified => domain[h].row # No
        BY <2>2, ReachedKnows
      <4>2. domain[h].verified => domain[h].env \in Environment /\ domain[h].env # e
        BY <3>5, <4>1 DEF RowsKnown
      <4>3. h \in ListDomainsForServer(s)' <=> h \in ListDomainsForServer(s)
        BY <2>1, <4>2 DEF ListDomainsForServer, ServerFor, names, PlaceOK
      <4>4. Serving(s, domain[h].env)' = Serving(s, domain[h].env)
        <5>1. Placed(s, domain[h].env)' = Placed(s, domain[h].env)
          BY <2>1, <2>3 DEF Placed, names
        <5>2. Live(s, domain[h].env)' = Live(s, domain[h].env)
          BY <2>1, <5>1 DEF Live
        <5> QED BY <2>1, <5>1, <5>2, ServingSame DEF names
      <4>5. SpecFor(s)'.route[h] = SpecFor(s).route[h]
        BY <4>3, <4>4, SpecForIs
      <4> QED BY <3>1, <3>5, <4>5 DEF RouteAgrees
    <3> QED BY <3>1, <3>2, <3>3, <3>4, <3>5 DEF RouteAgrees
  <2> QED BY <1>1, <2>2, <2>5, <2>6, ReachedKnows DEF Agrees
<1>6. ASSUME NEW h \in Hostname, NEW e \in Environment, AddDomain(h, e) PROVE ToBeTold(s)' \/ Agrees(s, spec)'
  <2>1. /\ UNCHANGED <<place, version>> /\ domain[h].row = No
        /\ domain' = [domain EXCEPT ![h] = [row |-> rows + 1, env |-> e, verified |-> FALSE]]
    BY <1>6 DEF AddDomain, CreateDomain
  <2>2. Reaches(s) /\ GetProject
    BY <2>1 DEF Reaches, GetServer, GetProject, place
  <2>3. ~ domain[h].verified /\ ~ domain'[h].verified
        /\ \A other \in Hostname : other # h => domain'[other] = domain[other]
    BY <2>1, <2>2, ReachedKnows DEF NamesOK
  <2>4. ListLivePlacementsForServer(s)' = ListLivePlacementsForServer(s)
    BY <2>1 DEF ListLivePlacementsForServer
  <2>5. /\ ListDomainsForServer(s)' = ListDomainsForServer(s)
        /\ \A other \in ListDomainsForServer(s) : domain'[other].env = domain[other].env
    BY <2>1, <2>3 DEF ListDomainsForServer, ServerFor, place
  <2>6. SpecFor(s)' = SpecFor(s)
    BY <2>1, <2>4, <2>5, SpecSame
  <2>7. CASE Agrees(s, spec)
    <3>1. \A v : (Stays(v)' <=> Stays(v)) /\ (Fails(v)' <=> Fails(v))
      BY <2>1 DEF Stays, Fails, place
    <3>2. \A other \in Hostname : domain[other].row # No /\ moves[domain[other].env] = 2 =>
            domain'[other].row # No /\ moves'[domain'[other].env] = 2
      BY <2>1, <2>3 DEF place
    <3> QED BY <2>2, <2>6, <2>7, <3>1, <3>2, ReachedKnows, AgreesSame
  <2> QED BY <1>1, <2>2, <2>7, ReachedKnows
<1> QED BY <1>2, <1>3, <1>4, <1>5, <1>6 DEF Administer

\* One hostname changes, and not for a server it is not led to there.
LEMMA NameAgrees ==
    ASSUME NEW s, NEW spec, NEW other \in Hostname, RouteAgrees(s, spec, other), UNCHANGED <<place, version>>,
           domain'[other].row = domain[other].row, domain'[other].env = domain[other].env,
           domain'[other].verified = domain[other].verified \/ ServerFor(other) # s
    PROVE  RouteAgrees(s, spec, other)'
<1> USE DEF place
<1>1. ListLivePlacementsForServer(s)' = ListLivePlacementsForServer(s)
  BY DEF ListLivePlacementsForServer
<1>2. other \in ListDomainsForServer(s)' <=> other \in ListDomainsForServer(s)
  BY DEF ListDomainsForServer, ServerFor
<1>3. Serving(s, domain[other].env)' = Serving(s, domain[other].env)
  <2>1. Placed(s, domain[other].env)' = Placed(s, domain[other].env)
    BY <1>1 DEF Placed
  <2>2. Live(s, domain[other].env)' = Live(s, domain[other].env)
    BY <2>1 DEF Live
  <2> QED BY <2>1, <2>2, ServingSame
<1>4. SpecFor(s)'.route[other] = SpecFor(s).route[other]
  BY <1>2, <1>3, SpecForIs
<1> QED BY <1>4 DEF RouteAgrees, Fails, Stays

LEMMA ToldRecordVerified ==
    ASSUME TypeInvariant, NamesInvariant, ToldInvariant, NEW r \in Request, RecordVerified(r)
    PROVE  ToldOrToBe'
<1> DEFINE q == request[r]
<1>0. /\ NamesOK /\ RequestsOK /\ RowsKnown /\ q.pc = "found" /\ q.row \in Row /\ q.server \in Server
      /\ UNCHANGED <<place, version, servers, hungUp>> /\ LookedAt(q)
      /\ domain' = [h \in Hostname |-> IF domain[h].row = q.row
                                      THEN [row |-> q.row, env |-> domain[h].env, verified |-> TRUE]
                                      ELSE domain[h]]
      /\ Turns(r, IF GetDomain(q.row) = {} THEN Idle ELSE Telling(q.server))
  BY DEF TypeInvariant, ProjectsTypeOK, NamesInvariant, RecordVerified, RequestsKnown, MarkDomainVerified
<1>a. GoesOn
  BY StepsGoOn DEF NameStep
<1> HIDE DEF q
<1>1. CASE GetDomain(q.row) = {}
  <2>1. domain' = domain
    BY <1>0, <1>1 DEF GetDomain, NamesOK
  <2> QED BY <1>0, <1>a, <2>1, TablesSame DEF ToldInvariant, servers
<1>2. ASSUME GetDomain(q.row) # {}, NEW s \in Server, Reaches(s)', GetProject',
             NEW spec \in Spec, IsLast(s, spec)'
      PROVE  ToBeTold(s)' \/ Agrees(s, spec)'
  <2>1. Reaches(s) /\ GetProject /\ IsLast(s, spec) /\ (ToBeTold(s) => ToBeTold(s)')
    BY <1>0, <1>a, <1>2, OthersGoOn DEF Reaches, GetServer, GetProject, place, servers
  <2>2. CASE s = q.server
    BY <1>0, <1>2, <2>2, TurnsToTellIt
  <2>3. CASE ToBeTold(s)
    BY <2>1, <2>3
  <2>4. CASE s # q.server /\ Agrees(s, spec)
    <3>1. WantAgrees(s, spec)'
      BY <1>0, <2>4, SpecForIs DEF Agrees, WantAgrees, ListLivePlacementsForServer, Stays, Fails, place, servers
    <3>2. ASSUME NEW h \in Hostname PROVE RouteAgrees(s, spec, h)'
      <4>1. /\ domain'[h].row = domain[h].row /\ domain'[h].env = domain[h].env
            /\ domain[h].row # q.row => domain'[h].verified = domain[h].verified
        BY <1>0
      <4>2. RouteAgrees(s, spec, h) /\ UNCHANGED <<place, version>>
        BY <1>0, <2>4 DEF Agrees, servers
      <4>3. CASE domain[h].row # q.row \/ ServerFor(h) # s
        BY <4>1, <4>2, <4>3, NameAgrees
      <4>4. CASE domain[h].row = q.row /\ ServerFor(h) = s
        <5> DEFINE x == spec.route[h]
        <5>1. domain[h].row # No /\ moves[domain[h].env] = 2
          BY <1>0, <2>4, <4>4 DEF LookedAt
        <5>2. CASE x = No
          BY <4>1, <4>2, <5>1, <5>2 DEF RouteAgrees, place
        <5>3. CASE x # No /\ (Fails(x) \/ ~ Stays(x))
          BY <4>2, <5>3 DEF RouteAgrees, Fails, Stays, place
        <5>4. CASE x # No /\ x = SpecFor(s).route[h]
          <6>1. version[x].env = domain[h].env
            BY <5>4, SpecForIs, ServingPlaced
          <6> QED BY <4>2, <5>1, <5>4, <6>1 DEF RouteAgrees, Stays, place
        <5> QED BY <4>2, <5>2, <5>3, <5>4 DEF RouteAgrees
      <4> QED BY <4>3, <4>4
    <3> QED BY <3>1, <3>2 DEF Agrees
  <2> QED BY <2>1, <2>2, <2>3, <2>4, ReachedKnows
<1> QED BY <1>1, <1>2 DEF ToldOrToBe

LEMMA ToldRemoveDomain ==
    ASSUME TypeInvariant, NamesInvariant, ToldInvariant, NEW r \in Request, NEW h \in Hostname, RemoveDomain(r, h)
    PROVE  ToldOrToBe'
<1>0. /\ PlaceOK /\ NamesOK /\ RequestsOK /\ RowsKnown /\ request[r].pc = "idle" /\ domain[h].row # No
      /\ UNCHANGED <<place, version, servers, hungUp>>
      /\ domain' = [domain EXCEPT ![h] = Unnamed]
      /\ Turns(r, ToTell({ServerFor(h)} \ {None}))
  BY DEF TypeInvariant, ProjectsTypeOK, RemoveDomain, DeleteDomain
<1> SUFFICES ASSUME NEW s \in Server, Reaches(s)', GetProject', NEW spec \in Spec, IsLast(s, spec)'
             PROVE  ToBeTold(s)' \/ Agrees(s, spec)'
  BY DEF ToldOrToBe
<1>1. Reaches(s) /\ GetProject /\ IsLast(s, spec) /\ (ToBeTold(s) => ToBeTold(s)')
  <2>1. GoesOn
    BY StepsGoOn DEF NameStep
  <2> QED BY <1>0, <2>1, OthersGoOn DEF Reaches, GetServer, GetProject, place, servers
<1>2. CASE s = ServerFor(h)
  <2>1. ToTell({ServerFor(h)} \ {None}) = Telling(s)
    <3>1. {ServerFor(h)} \ {None} = {s} /\ (CHOOSE t \in {s} : TRUE) = s
      BY <1>2
    <3> QED BY <3>1 DEF ToTell
  <2> QED BY <1>0, <2>1, TurnsToTellIt
<1>3. CASE ToBeTold(s)
  BY <1>1, <1>3
<1>4. CASE s # ServerFor(h) /\ Agrees(s, spec)
  <2>1. WantAgrees(s, spec)'
    BY <1>0, <1>4, SpecForIs DEF Agrees, WantAgrees, ListLivePlacementsForServer, Stays, Fails, place, servers
  <2>2. ASSUME NEW other \in Hostname PROVE RouteAgrees(s, spec, other)'
    <3>1. RouteAgrees(s, spec, other) /\ UNCHANGED <<place, version>>
      BY <1>0, <1>4 DEF Agrees, servers
    <3>2. CASE other # h
      BY <1>0, <3>1, <3>2, NameAgrees DEF NamesOK
    <3>3. CASE other = h
      <4>1. SpecFor(s).route[h] = No /\ SpecFor(s)'.route[h] = No
        <5>1. h \notin ListDomainsForServer(s)
          BY <1>4 DEF ListDomainsForServer
        <5>2. h \notin ListDomainsForServer(s)'
          BY <1>0 DEF ListDomainsForServer, Unnamed, NamesOK
        <5> QED BY <5>1, <5>2, SpecForIs
      <4> QED BY <3>1, <3>3, <4>1 DEF RouteAgrees, Fails, Stays, place
    <3> QED BY <3>2, <3>3
  <2> QED BY <2>1, <2>2 DEF Agrees
<1> QED BY <1>1, <1>2, <1>3, <1>4, ReachedKnows

\* Only versions a server is not told of and need not be told of change.
LEMMA AgreesElsewhere ==
    ASSUME NEW s \in Server, NEW spec, Agrees(s, spec), UNCHANGED <<place, names>>,
           spec.want \subseteq Version,
           \A h \in Hostname : spec.route[h] \in spec.want \cup {No},
           \A w \in Version :
              \/ version'[w] = version[w]
              \/ /\ w \notin spec.want /\ w \notin ListLivePlacementsForServer(s)
                 /\ w \notin ListLivePlacementsForServer(s)'
    PROVE  Agrees(s, spec)'
<1> USE DEF place, names
<1>1. ListLivePlacementsForServer(s)' = ListLivePlacementsForServer(s)
      /\ ListLivePlacementsForServer(s) \subseteq Version
  <2>1. \A w \in Version : version'[w] = version[w] =>
           (w \in ListLivePlacementsForServer(s)' <=> w \in ListLivePlacementsForServer(s))
    BY DEF ListLivePlacementsForServer
  <2>2. ListLivePlacementsForServer(s) \subseteq Version /\ ListLivePlacementsForServer(s)' \subseteq Version
    BY DEF ListLivePlacementsForServer
  <2> QED BY <2>1, <2>2
<1>2. \A w \in spec.want \cup ListLivePlacementsForServer(s) : version'[w] = version[w]
  BY <1>1
<1>3. ListDomainsForServer(s)' = ListDomainsForServer(s)
  BY DEF ListDomainsForServer, ServerFor
<1>4. SpecFor(s)' = SpecFor(s)
  BY <1>1, <1>2, <1>3, SpecSame
<1>5. \A w \in spec.want \cup SpecFor(s).want : (Stays(w)' <=> Stays(w)) /\ (Fails(w)' <=> Fails(w))
  BY <1>2, SpecForIs DEF Stays, Fails
<1> QED BY <1>4, <1>5, AgreesSame

LEMMA ToldDeploy ==
    ASSUME TypeInvariant, NamesInvariant, ToldInvariant, NEW r \in Request, DeployStep(r)
    PROVE  ToldOrToBe'
<1>0. /\ VersionsOK /\ RequestsOK /\ RequestsKnown /\ ToldOrToBe
      /\ UNCHANGED <<place, names, online>> /\ GoesOn
  BY DeployFrame, StepsGoOn DEF TypeInvariant, ProjectsTypeOK, ToldInvariant
<1>1. CASE \/ MintToken(r) \/ \E e \in Environment : DeployEnvironment(r, e) \/ DeliverPush(r, e)
  <2>1. UNCHANGED version
    BY <1>1 DEF MintToken, DeployEnvironment, DeliverPush
  <2> QED BY <1>0, <2>1, TablesSame DEF names
<1>2. ASSUME NEW s \in Server, Reaches(s)', GetProject', NEW spec \in Spec, IsLast(s, spec)', ~ MintToken(r),
             \A e \in Environment : ~ DeployEnvironment(r, e) /\ ~ DeliverPush(r, e)
      PROVE  ToBeTold(s)' \/ Agrees(s, spec)'
  <2>1. Reaches(s) /\ GetProject /\ IsLast(s, spec)
    BY <1>0, <1>2, OthersGoOn DEF Reaches, GetServer, GetProject, place
  <2>2. ToBeTold(s) => ToBeTold(s)'
    BY <1>0, OthersGoOn
  <2>3. /\ spec.want \subseteq Version
        /\ \A h \in Hostname : spec.route[h] \in spec.want \cup {No}
        /\ \A h \in Hostname : domain[h].verified => domain[h].row # No
        /\ \A w \in spec.want : Exists(w) /\ version[w].server = s
        /\ ToBeTold(s) \/ Agrees(s, spec)
    BY <2>1, ReachedKnows
  <2>4. ASSUME Agrees(s, spec),
               \A w \in Version :
                  \/ version'[w] = version[w]
                  \/ /\ w \notin spec.want /\ w \notin ListLivePlacementsForServer(s)
                     /\ w \notin ListLivePlacementsForServer(s)'
        PROVE  Agrees(s, spec)'
    BY <1>0, <2>3, <2>4, AgreesElsewhere
  <2>5. ASSUME Agrees(s, spec), NEW v \in Version,
               \A w \in Version : version'[w] = IF w = v THEN SetDeploymentStatus(v, "failed") ELSE version[w]
        PROVE  Agrees(s, spec)'
    BY <1>0, <2>3, <2>5, AgreesFailing
  <2>6. CASE AskBuild(r)
    <3> DEFINE v == request[r].version
    <3>1. v \in Version
      BY <1>0, <2>6 DEF AskBuild, RequestsKnown
    <3>2. \/ UNCHANGED version
          \/ version' = [version EXCEPT ![v] = IF Exists(v) THEN SetDeploymentStatus(v, "failed") ELSE Gone]
      BY <2>6 DEF AskBuild
    <3>3. CASE UNCHANGED version
      BY <2>2, <2>3, <2>4, <3>1, <3>3
    <3>4. CASE Exists(v) /\ version' = [version EXCEPT ![v] = SetDeploymentStatus(v, "failed")]
      BY <1>0, <2>2, <2>3, <2>5, <3>1, <3>4 DEF VersionsOK
    <3>5. CASE ~ Exists(v) /\ version' = [version EXCEPT ![v] = Gone]
      <4>1. v \notin spec.want /\ v \notin ListLivePlacementsForServer(s) /\ v \notin ListLivePlacementsForServer(s)'
        BY <1>0, <2>3, <3>1, <3>5 DEF Exists, ListLivePlacementsForServer, Gone, VersionsOK
      <4>2. \A w \in Version : w # v => version'[w] = version[w]
        BY <1>0, <3>5 DEF VersionsOK
      <4> QED BY <2>2, <2>3, <2>4, <3>1, <4>1, <4>2
    <3> QED BY <3>2, <3>3, <3>4, <3>5
  <2>7. ASSUME NEW v \in Version, RecordDeploy(r, v) PROVE ToBeTold(s)' \/ Agrees(s, spec)'
    <3>1. /\ version[v].status = "none"
          /\ \/ UNCHANGED version
             \/ version' = [version EXCEPT ![v] =
                              CreatePlacement(request[r].env, request[r].server, "building", No)]
      BY <2>7 DEF RecordDeploy, CreateDeployment
    <3>2. \A w \in Version : w # v => version'[w] = version[w]
      <4>1. CASE UNCHANGED version
        BY <4>1
      <4>2. CASE version' = [version EXCEPT ![v] =
                              CreatePlacement(request[r].env, request[r].server, "building", No)]
        BY <1>0, <4>2 DEF VersionsOK
      <4> QED BY <3>1, <4>1, <4>2
    <3>3. v \notin spec.want /\ v \notin ListLivePlacementsForServer(s)
      BY <2>3, <3>1 DEF Exists, ListLivePlacementsForServer
    <3>4. version'[v].status \in {"none", "building"}
      BY <1>0, <3>1 DEF CreatePlacement, VersionsOK
    <3>5. v \notin ListLivePlacementsForServer(s)'
      BY <3>4 DEF ListLivePlacementsForServer
    <3> QED BY <2>2, <2>3, <2>4, <3>1, <3>2, <3>3, <3>5
  <2>8. ASSUME NEW v \in Version, NEW ok \in BOOLEAN, FinishBuild(r, v, ok) PROVE ToBeTold(s)' \/ Agrees(s, spec)'
    <3>1. /\ Turns(r, ToTell(IF ok THEN ListPlacements(v) ELSE {}))
          /\ version' = [version EXCEPT ![v] =
                           IF ~ Exists(v) THEN version[v]
                           ELSE IF ok THEN SetDeploymentImage(v, "deploying")
                           ELSE SetDeploymentStatus(v, "failed")]
      BY <2>8 DEF FinishBuild
    <3>5. CASE ~ Exists(v)
      BY <1>0, <2>2, <2>3, <2>4, <3>1, <3>5 DEF VersionsOK
    <3>2. CASE Exists(v) /\ ~ ok
      <4>1. \A w \in Version : version'[w] = IF w = v THEN SetDeploymentStatus(v, "failed") ELSE version[w]
        BY <1>0, <3>1, <3>2 DEF VersionsOK
      <4> QED BY <2>2, <2>3, <2>5, <3>1, <4>1
    <3>3. CASE ok /\ version[v].server = s
      BY <1>0, <3>1, <3>3, ToTellPlaced, TurnsToTellIt
    <3>4. CASE Exists(v) /\ ok /\ version[v].server # s
      <4>1. version'[v].server = version[v].server /\ \A w \in Version : w # v => version'[w] = version[w]
        BY <1>0, <3>1, <3>4 DEF SetDeploymentImage, VersionsOK
      <4>2. v \notin spec.want /\ v \notin ListLivePlacementsForServer(s) /\ v \notin ListLivePlacementsForServer(s)'
        BY <2>3, <3>4, <4>1 DEF ListLivePlacementsForServer
      <4> QED BY <2>2, <2>3, <2>4, <3>1, <4>1, <4>2
    <3> QED BY <3>2, <3>3, <3>4, <3>5
  <2>9. ASSUME NEW v \in Version, NEW t \in Server, NEW healthy \in BOOLEAN, FinishRollout(r, t, v, healthy)
        PROVE  ToBeTold(s)' \/ Agrees(s, spec)'
    <3>1. /\ Turns(r, ToTell(IF healthy THEN ListPlacements(v) ELSE {})) /\ Exists(v)
          /\ \A w \in Version :
               version'[w] = IF w = v THEN SetDeploymentStatus(v, IF healthy THEN "live" ELSE "failed")
                             ELSE IF healthy THEN SupersedePrevious(w, v) ELSE version[w]
      BY <2>9 DEF FinishRollout
    <3>2. CASE ~ healthy
      BY <2>2, <2>3, <2>5, <3>1, <3>2
    <3>3. CASE healthy /\ version[v].server = s
      BY <1>0, <3>1, <3>3, ToTellPlaced, TurnsToTellIt
    <3>4. CASE healthy /\ version[v].server # s
      <4> DEFINE e == version[v].env
      <4>1. \A w \in Version :
              /\ version'[w].env = version[w].env /\ version'[w].server = version[w].server
              /\ version'[w] = version[w] \/ (version[w].env = e /\ Exists(w))
        <5>1. \A w, status : /\ SetDeploymentStatus(w, status).env = version[w].env
                             /\ SetDeploymentStatus(w, status).server = version[w].server
          BY DEF SetDeploymentStatus
        <5>2. \A w \in Version :
                \/ version'[w] = version[w]
                \/ /\ version[w].env = e /\ Exists(w)
                   /\ \E status \in {"live", "superseded"} : version'[w] = SetDeploymentStatus(w, status)
          BY <3>1, <3>4 DEF SupersedePrevious, Exists
        <5> QED BY <5>1, <5>2
      <4>2. CASE moves[e] = 2
        <5>1. \A h \in Hostname : spec.route[h] \in Version \cup {No}
          BY <2>3
        <5>2. ASSUME Agrees(s, spec) PROVE Agrees(s, spec)'
          BY <1>0, <2>3, <4>1, <4>2, <5>1, <5>2, AgreesMoved
        <5> QED BY <2>2, <2>3, <3>1, <5>2
      <4>3. CASE moves[e] # 2
        <5>1. \A w \in Version : Exists(w) /\ version[w].env = e => version[w].server = version[v].server
          BY <2>1, <3>1, <4>3 DEF ToldInvariant, PlacedOnce, GetProject
        <5>2. \A w \in Version : version'[w] = version[w] \/ version[w].server # s
          BY <3>4, <4>1, <5>1
        <5>3. \A w \in Version : version[w].server # s =>
                /\ w \notin spec.want /\ w \notin ListLivePlacementsForServer(s)
                /\ w \notin ListLivePlacementsForServer(s)'
          BY <2>3, <4>1 DEF ListLivePlacementsForServer
        <5> QED BY <2>2, <2>3, <2>4, <3>1, <5>2, <5>3
      <4> QED BY <4>2, <4>3
    <3> QED BY <3>2, <3>3, <3>4
  <2>10. ASSUME NEW v \in Version, NEW previous \in Version, Rollback(r, v, previous)
         PROVE  ToBeTold(s)' \/ Agrees(s, spec)'
    <3>1. PICK t \in ListPlacements(previous) :
            /\ version' = [version EXCEPT ![v] =
                             CreatePlacement(version[previous].env, t, "deploying", version[previous].image)]
            /\ Turns(r, Telling(t))
      BY <2>10 DEF Rollback
    <3>2. version[v].status = "none" /\ t \in Server
      BY <2>10 DEF Rollback, CreateDeployment, ListPlacements
    <3>3. CASE t = s
      BY <1>0, <3>1, <3>3, TurnsToTellIt
    <3>4. CASE t # s
      <4>1. version'[v].server = t /\ \A w \in Version : w # v => version'[w] = version[w]
        BY <1>0, <3>1 DEF CreatePlacement, VersionsOK
      <4>2. v \notin spec.want /\ v \notin ListLivePlacementsForServer(s) /\ v \notin ListLivePlacementsForServer(s)'
        BY <2>3, <3>2, <3>4, <4>1 DEF ListLivePlacementsForServer, Exists
      <4> QED BY <2>2, <2>3, <2>4, <3>1, <3>2, <4>1, <4>2
    <3> QED BY <3>3, <3>4
  <2> QED BY <1>2, <2>6, <2>7, <2>8, <2>9, <2>10 DEF DeployStep
<1> QED BY <1>1, <1>2 DEF ToldOrToBe

\* Reading a specification and writing it, and losing the connection or the caller.
LEMMA ToldReach ==
    ASSUME TypeInvariant, NamesInvariant, ToldInvariant, ReachStep
    PROVE  ToldOrToBe'
<1>0. /\ ServersOK /\ RequestsOK /\ RequestsKnown /\ ToldOrToBe
      /\ UNCHANGED <<place, version, domain>>
  BY ReachFrame DEF TypeInvariant, ProjectsTypeOK, ToldInvariant, names
<1> SUFFICES ASSUME NEW s \in Server, Reaches(s)', GetProject', NEW spec \in Spec, IsLast(s, spec)'
             PROVE  ToBeTold(s)' \/ Agrees(s, spec)'
  BY DEF ToldOrToBe
<1>a. ASSUME Reaches(s), IsLast(s, spec), ToBeTold(s) => ToBeTold(s)' PROVE ToBeTold(s)' \/ Agrees(s, spec)'
  BY <1>0, <1>a, AgreesStill DEF ToldOrToBe, GetProject, place
<1>1. ASSUME NEW r \in Request, NEW t \in Server, Connects(r, t) PROVE ToBeTold(s)' \/ Agrees(s, spec)'
  <2>1. CASE s = t
    <3>1. Turns(r, Telling(s))
      BY <1>1, <2>1 DEF Connects
    <3> QED BY <1>0, <3>1, TurnsToTellIt
  <2>2. CASE s # t
    <3>1. GoesOn
      BY <1>1, PointsOf DEF Connects, GoesOn, handing, hungUp
    <3>2. Reaches(s)
      BY <1>0, <1>1, <2>2 DEF Connects, Reaches, GetServer, place
    <3> QED BY <1>0, <1>a, <3>1, <3>2, OthersGoOn
  <2> QED BY <2>1, <2>2
<1>2. ASSUME NEW t \in Server, Disconnects(t) PROVE ToBeTold(s)' \/ Agrees(s, spec)'
  <2>1. Reaches(s) /\ s # t
    BY <1>0, <1>2 DEF Disconnects, Reaches, GetServer, place
  <2>2. /\ UNCHANGED <<told, crossed, untold>>
        /\ \A x \in Request : /\ request[x] = Telling(s) => request'[x] = Telling(s)
                              /\ request[x] = Sending(s) <=> request'[x] = Sending(s)
                              /\ request[x] = Sending(s) => sending'[x] = sending[x]
    BY <1>2, <2>1, PointsOf DEF Disconnects, hungUp
  <2>3. /\ ToBeTold(s) => ToBeTold(s)'
        /\ IsLast(s, spec)
    BY <2>2, StillLast
  <2> QED BY <1>a, <2>1, <2>3
<1>3. ASSUME NEW r \in Request, ReadSpec(r) PROVE ToBeTold(s)' \/ Agrees(s, spec)'
  <2> DEFINE t == request[r].server
  <2>1. /\ t \in Server /\ request[r].pc = "reconcile" /\ UNCHANGED <<told, online>> /\ Reaches(s)
        /\ \A x \in Request : x # r => request'[x] = request[x] /\ sending'[x] = sending[x]
    BY <1>0, <1>3 DEF ReadSpec, RequestsKnown, Turns, RequestsOK, ServersOK, Reaches, GetServer, place
  <2>2. CASE s # t
    <3>1. request'[r] \in {Sending(t), Idle}
      BY <1>0, <1>3 DEF ReadSpec, Turns, RequestsOK
    <3>2. s \in crossed \cup untold => s \in crossed' \cup untold'
      BY <1>3, <2>2 DEF ReadSpec
    <3>3. \A x \in Request : /\ request[x] = Telling(s) => request'[x] = Telling(s)
                             /\ request[x] = Sending(s) <=> request'[x] = Sending(s)
                             /\ request[x] = Sending(s) => sending'[x] = sending[x]
      BY <2>1, <2>2, <3>1, PointsOf
    <3>4. /\ ToBeTold(s) => ToBeTold(s)'
          /\ IsLast(s, spec)
      BY <2>1, <3>2, <3>3, StillLast
    <3> QED BY <1>a, <2>1, <3>4
  <2>3. CASE s = t
    <3>1. /\ request'[r] = Sending(s) /\ sending'[r] = SpecFor(s)
          /\ crossed' = IF Crossing(s) THEN crossed \cup {s} ELSE crossed \ {s}
      BY <1>0, <1>3, <2>1, <2>3 DEF ReadSpec, Turns, RequestsOK, ServersOK
    <3>2. CASE Crossing(s)
      BY <3>1, <3>2 DEF ToBeTold
    <3>3. CASE ~ Crossing(s)
      <4>1. Crossing(s)'
        BY <3>1 DEF Crossing
      <4>2. \A x \in Request : request'[x] = Sending(s) => x = r
        BY <2>1, <3>3 DEF Crossing
      <4>3. spec = SpecFor(s)
        BY <3>1, <4>1, <4>2 DEF IsLast
      <4>4. \A v \in SpecFor(s).want : ~ Fails(v)
        BY SpecForIs DEF ListLivePlacementsForServer, Fails
      <4>5. Agrees(s, spec)
        BY <4>3, <4>4 DEF Agrees, WantAgrees, RouteAgrees
      <4> QED BY <1>0, <4>5, AgreesStill
    <3> QED BY <3>2, <3>3
  <2> QED BY <2>2, <2>3
<1>4. ASSUME NEW r \in Request, SendSpec(r) PROVE ToBeTold(s)' \/ Agrees(s, spec)'
  <2> DEFINE t == request[r].server
  <2>1. /\ t \in Server /\ request[r] = Sending(t) /\ UNCHANGED <<online, crossed, untold>>
        /\ Reaches(s) /\ request'[r] = Idle
        /\ \A x \in Request : x # r => request'[x] = request[x] /\ sending'[x] = sending[x]
        /\ told' = [told EXCEPT ![t] = sending[r]]
    BY <1>0, <1>4 DEF SendSpec, RequestsKnown, Turns, RequestsOK, ServersOK, Reaches, GetServer,
                      place, hungUp
  <2>2. ToBeTold(s) => ToBeTold(s)'
    BY <2>1, PointsOf DEF ToBeTold
  <2>3. IsLast(s, spec)
    <3>1. CASE s # t
      <4>1. told'[s] = told[s]
        BY <1>0, <2>1, <3>1 DEF ServersOK
      <4>2. \A x \in Request : /\ request[x] = Telling(s) => request'[x] = Telling(s)
                               /\ request[x] = Sending(s) <=> request'[x] = Sending(s)
                               /\ request[x] = Sending(s) => sending'[x] = sending[x]
        BY <2>1, <3>1, PointsOf
      <4> QED BY <2>1, <4>1, <4>2, StillLast
    <3>2. CASE s = t
      <4>1. Crossing(s) /\ told'[s] = sending[r]
        BY <1>0, <2>1, <3>2 DEF Crossing, ServersOK
      <4>2. \A x \in Request : request'[x] = Sending(s) => request[x] = Sending(s) /\ sending'[x] = sending[x]
        BY <2>1, PointsOf
      <4> QED BY <2>1, <3>2, <4>1, <4>2 DEF IsLast
    <3> QED BY <3>1, <3>2
  <2> QED BY <1>a, <2>1, <2>2, <2>3
<1>5. ASSUME NEW r \in Request, HangUp(r) PROVE ToBeTold(s)' \/ Agrees(s, spec)'
  <2> DEFINE t == request[r].server
  <2>1. /\ UNCHANGED <<online, told, crossed>> /\ Reaches(s) /\ request'[r] = Idle
        /\ \A x \in Request : x # r => request'[x] = request[x] /\ sending'[x] = sending[x]
        /\ untold' = IF request[r].pc = "recorded" THEN untold ELSE untold \cup {t}
        /\ request[r].pc \in {"recorded", "reconcile", "sending"}
    BY <1>0, <1>5 DEF HangUp, Turns, RequestsOK, ServersOK, Reaches, GetServer, place
  <2>2. CASE s \in untold'
    BY <2>2 DEF ToBeTold
  <2>3. CASE s \notin untold'
    <3>1. request[r] # Telling(s) /\ request[r] # Sending(s) /\ Idle # Sending(s)
      BY <2>1, <2>3, PointsOf
    <3>2. \A x \in Request : /\ request[x] = Telling(s) => request'[x] = Telling(s)
                             /\ request[x] = Sending(s) <=> request'[x] = Sending(s)
                             /\ request[x] = Sending(s) => sending'[x] = sending[x]
      BY <2>1, <3>1
    <3>3. s \in crossed \cup untold => s \in crossed' \cup untold'
      BY <2>1
    <3>4. /\ ToBeTold(s) => ToBeTold(s)'
          /\ IsLast(s, spec)
      BY <2>1, <3>2, <3>3, StillLast
    <3> QED BY <1>a, <2>1, <3>4
  <2> QED BY <2>2, <2>3
<1> QED BY <1>1, <1>2, <1>3, <1>4, <1>5 DEF ReachStep

LEMMA ToldKept ==
    ASSUME TypeInvariant, NamesInvariant, ToldInvariant, [ProjectsNext]_projectVars
    PROVE  ToldInvariant'
<1>0. RequestsOK /\ ToldOrToBe
  BY DEF TypeInvariant, ProjectsTypeOK, ToldInvariant
<1>1. PlacedOnce'
  BY PlacedKept DEF ToldInvariant
<1>2. ToldKnown'
  BY ToldKnownKept DEF ToldInvariant
<1>3. ToldOrToBe'
  <2>1. CASE Administer
    BY <2>1, ToldAdminister
  <2>2. CASE Grant \/ TakeAway \/ DeliverInstallation
    BY <1>0, <2>2, StepsGoOn, TablesSame DEF Grant, TakeAway, DeliverInstallation, names, servers
  <2>3. ASSUME NEW r \in Request, NameStep(r) PROVE ToldOrToBe'
    <3>1. UNCHANGED <<place, version, servers, hungUp>>
      BY <2>3, NameFrame
    <3>2. CASE (\E h \in Hostname : VerifyDomain(r, h)) \/ \E yes \in BOOLEAN : PointsAt(r, yes)
      <4>1. UNCHANGED domain
        BY <3>2 DEF VerifyDomain, PointsAt, names
      <4> QED BY <1>0, <2>3, <3>1, <4>1, StepsGoOn, TablesSame DEF servers
    <3>3. CASE RecordVerified(r)
      BY <3>3, ToldRecordVerified
    <3>4. CASE \E h \in Hostname : RemoveDomain(r, h)
      BY <3>4, ToldRemoveDomain
    <3> QED BY <2>3, <3>2, <3>3, <3>4 DEF NameStep
  <2>4. ASSUME NEW r \in Request, AccessStep(r) PROVE ToldOrToBe'
    <3>1. UNCHANGED <<place, version, names, servers, hungUp>>
      BY <2>4, AccessFrame
    <3> QED BY <1>0, <2>4, <3>1, StepsGoOn, TablesSame DEF names, servers
  <2>5. ASSUME NEW r \in Request, DeployStep(r) PROVE ToldOrToBe'
    BY <2>5, ToldDeploy
  <2>6. CASE ReachStep
    BY <2>6, ToldReach
  <2>7. CASE UNCHANGED projectVars
    BY <1>0, <2>7, StepsGoOn, TablesSame DEF projectVars, names, servers
  <2> QED BY <2>1, <2>2, <2>3, <2>4, <2>5, <2>6, <2>7 DEF ProjectsNext
<1> QED BY <1>1, <1>2, <1>3 DEF ToldInvariant

LEMMA AgreesIsUpToDate ==
    ASSUME NEW s, NEW spec \in Spec, Agrees(s, spec)
    PROVE  UpToDate(s, spec)
<1>1. \A v \in spec.want : v # No
  BY DEF Spec
<1> QED BY <1>1 DEF UpToDate, Agrees, WantAgrees, RouteAgrees, Stays, Fails

LEMMA AgreesThen ==
    ASSUME TypeInvariant, NamesInvariant, ToldInvariant
    PROVE  ToldWhatChanged
<1> SUFFICES ASSUME NEW s \in Server, Reaches(s), GetProject, ~ ToBeTold(s)
             PROVE  IF Crossing(s)
                    THEN \E r \in Request : request[r] = Sending(s) /\ UpToDate(s, sending[r])
                    ELSE UpToDate(s, told[s])
  BY DEF ToldWhatChanged, ToBeTold
<1>1. \A spec \in Spec : IsLast(s, spec) => UpToDate(s, spec)
  BY AgreesIsUpToDate DEF ToldInvariant, ToldOrToBe
<1>2. told[s] \in Spec /\ \A r \in Request : sending[r] \in Spec
  BY DEF TypeInvariant, ProjectsTypeOK, ServersOK
<1> QED BY <1>1, <1>2 DEF IsLast, Crossing

\* Whenever a deployment, a rollback, a hostname or a failure changes what a connected server
\* should run, either the specification it has or is being written says so, or somebody is yet
\* to read another, unless the caller hung up or two of them crossed: for any number of
\* requests at once, whatever their order, each reading and writing in steps of its own.
THEOREM ServersAreTold == ProjectsSpec => []ToldWhatChanged
<1>1. ProjectsInit => NamesInvariant /\ ToldInvariant
  <2> SUFFICES ASSUME ProjectsInit PROVE NamesInvariant /\ ToldInvariant
    OBVIOUS
  <2>1. NamesInvariant
    BY DEF ProjectsInit, NamesInvariant, RowsAreNew, Proven, LookedAt, Unnamed, Idle, At
  <2>2. PlacedOnce
    BY ToTellPoint DEF ProjectsInit, PlacedOnce, Exists, Unmade
  <2>3. ToldKnown
    BY PointsOf DEF ProjectsInit, ToldKnown, KnownTo, Handed, Nothing, GetProject
  <2>4. ToldOrToBe
    BY DEF ProjectsInit, ToldOrToBe, GetProject
  <2> QED BY <2>1, <2>2, <2>3, <2>4 DEF ToldInvariant
<1>2. TypeInvariant /\ NamesInvariant /\ ToldInvariant /\ [ProjectsNext]_projectVars => NamesInvariant' /\ ToldInvariant'
  BY NamesProvenKept, ToldKept DEF TypeInvariant, ProjectsTypeOK
<1>3. TypeInvariant /\ NamesInvariant /\ ToldInvariant => ToldWhatChanged
  BY AgreesThen
<1> QED BY <1>1, <1>2, <1>3, ProjectsInvariant, PTL DEF ProjectsSpec

=============================================================================
