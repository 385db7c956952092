--------------------------- MODULE ProjectsProofs ---------------------------
(****************************************************************************)
(* What a project, its hostnames and its versions keep true over any        *)
(* number of servers, environments, requests and versions.                  *)
(****************************************************************************)
EXTENDS Projects, TLAPS, WellFoundedInduction

USE NoneIsNothing, BoundsCounted DEF Version, Row, No

\* Versions are numbers, so among any there is a first.
LEMMA FirstVersion ==
    ASSUME NEW S, S \subseteq Version, S # {}
    PROVE  \E v \in S : \A w \in S : v <= w
<1>1. S \subseteq Nat
  OBVIOUS
<1>2. \E v \in S : \A w \in S : ~ (w < v)
  <2>1. PICK v \in S : \A w \in S : ~ (<<w, v>> \in OpToRel(<, Nat))
    BY <1>1, NatLessThanWellFounded, WFMin, Zenon
  <2>2. \A w \in S : ~ (w < v)
    BY <1>1, <2>1, Zenon DEF OpToRel
  <2> QED BY <2>2, Zenon
<1> QED BY <1>1, <1>2

LEMMA NothingType == Nothing \in Spec
BY DEF Nothing, Spec

\* SpecFor leads a hostname to a version, or nowhere.
LEMMA SpecForType ==
    ASSUME NEW s \in Server
    PROVE  SpecFor(s) \in Spec
<1>1. ASSUME NEW e PROVE Serving(s, e) \in Version \cup {No}
  <2> DEFINE placed == {v \in ListLivePlacementsForServer(s) : version[v].env = e}
             live   == {v \in placed : version[v].status = "live"}
             best   == IF live # {} THEN live ELSE placed
  <2>1. best \subseteq Version
    BY DEF ListLivePlacementsForServer
  <2>2. CASE best = {}
    BY <2>2, Zenon DEF Serving
  <2>3. CASE best # {}
    <3>1. \E v \in best : \A w \in best : v <= w
      <4> HIDE DEF best
      <4> QED BY <2>1, <2>3, FirstVersion
    <3>2. Serving(s, e) = CHOOSE v \in best : \A w \in best : v <= w
      BY <2>3, Zenon DEF Serving
    <3> HIDE DEF best
    <3> QED BY <2>1, <3>1, <3>2
  <2> QED BY <2>2, <2>3
<1>2. ListLivePlacementsForServer(s) \subseteq Version
  BY DEF ListLivePlacementsForServer
<1> QED BY <1>1, <1>2 DEF SpecFor, Spec

LEMMA AtType ==
    ASSUME NEW pc \in {"idle", "targeted", "minted", "recorded", "looking", "found", "granted", "owned",
                       "reconcile", "sending"},
           NEW e \in Environment \cup {None}, NEW s \in Server \cup {None},
           NEW v \in Version \cup {No}, NEW h \in Hostname \cup {None}, NEW row \in Row \cup {No}
    PROVE  At(pc, e, s, v, h, row) \in RequestState
BY DEF At, RequestState

LEMMA ToTellType ==
    /\ Idle \in RequestState
    /\ \A s \in Server : Telling(s) \in RequestState /\ Sending(s) \in RequestState
    /\ \A placed \in SUBSET Server : ToTell(placed) \in RequestState
<1>1. Idle \in RequestState
  BY DEF Idle, At, RequestState
<1>2. \A s \in Server : Telling(s) \in RequestState /\ Sending(s) \in RequestState
  BY DEF Telling, Sending, At, RequestState
<1> QED BY <1>1, <1>2 DEF ToTell

\* The fields of a request.
LEMMA RequestFields ==
    ASSUME RequestsOK, NEW r \in Request
    PROVE  /\ request[r] \in RequestState
           /\ request[r].env \in Environment \cup {None} /\ request[r].server \in Server \cup {None}
           /\ request[r].version \in Version \cup {No}
           /\ request[r].host \in Hostname \cup {None} /\ request[r].row \in Row \cup {No}
BY DEF RequestsOK, RequestState

\* What a request has read is there to be used at each of its points.
RequestsKnown ==
    \A r \in Request :
        LET q == request[r] IN
        /\ q.pc \in {"targeted", "minted", "recorded", "looking", "found", "reconcile", "sending"} =>
             q.server \in Server
        /\ q.pc \in {"targeted", "minted"} => q.env \in Environment
        /\ q.pc = "recorded" => q.version \in Version
        /\ q.pc \in {"looking", "found"} => q.row \in Row /\ q.host \in Hostname
        /\ q.pc = "sending" => q = Sending(q.server)

\* A turn to a point at which what is read is there.
LEMMA TurnsKnown ==
    ASSUME RequestsOK, RequestsKnown, NEW r \in Request, NEW q \in RequestState, Turns(r, q),
           q.pc \in {"targeted", "minted", "recorded", "looking", "found", "reconcile", "sending"} =>
             q.server \in Server,
           q.pc \in {"targeted", "minted"} => q.env \in Environment,
           q.pc = "recorded" => q.version \in Version,
           q.pc \in {"looking", "found"} => q.row \in Row /\ q.host \in Hostname,
           q.pc = "sending" => q = Sending(q.server)
    PROVE  RequestsOK' /\ RequestsKnown'
BY DEF RequestsOK, RequestsKnown, Turns

\* The fields of what a request turns to.
LEMMA AtFields ==
    ASSUME NEW pc, NEW e, NEW s, NEW v, NEW h, NEW row
    PROVE  /\ At(pc, e, s, v, h, row).pc = pc /\ At(pc, e, s, v, h, row).env = e
           /\ At(pc, e, s, v, h, row).server = s /\ At(pc, e, s, v, h, row).version = v
           /\ At(pc, e, s, v, h, row).host = h /\ At(pc, e, s, v, h, row).row = row
BY DEF At

\* The ends of a request, of which nothing more is asked.
LEMMA TurnsIdle ==
    ASSUME RequestsOK, RequestsKnown, NEW r \in Request, Turns(r, Idle)
    PROVE  RequestsOK' /\ RequestsKnown'
<1>1. Idle \in RequestState /\ Idle.pc = "idle"
  BY ToTellType DEF Idle, At
<1> QED BY <1>1, TurnsKnown

LEMMA TurnsTelling ==
    ASSUME RequestsOK, RequestsKnown, NEW r \in Request, NEW s \in Server, Turns(r, Telling(s))
    PROVE  RequestsOK' /\ RequestsKnown'
<1>1. Telling(s) \in RequestState /\ Telling(s).pc = "reconcile" /\ Telling(s).server = s
  BY ToTellType DEF Telling, At
<1> QED BY <1>1, TurnsKnown

LEMMA TurnsToTell ==
    ASSUME RequestsOK, RequestsKnown, NEW r \in Request, NEW placed \in SUBSET Server, Turns(r, ToTell(placed))
    PROVE  RequestsOK' /\ RequestsKnown'
<1>1. CASE placed = {}
  BY <1>1, TurnsIdle DEF ToTell
<1>2. CASE placed # {}
  <2>1. PICK s \in Server : ToTell(placed) = Telling(s)
    BY <1>2 DEF ToTell
  <2> QED BY <2>1, TurnsTelling
<1> QED BY <1>1, <1>2

LEMMA TurnsSending ==
    ASSUME RequestsOK, RequestsKnown, NEW r \in Request, NEW s \in Server, Turns(r, Sending(s))
    PROVE  RequestsOK' /\ RequestsKnown'
<1>1. Sending(s) \in RequestState /\ Sending(s).pc = "sending" /\ Sending(s).server = s
  BY ToTellType DEF Sending, At
<1> QED BY <1>1, TurnsKnown

\* A step that reaches a server takes requests to no other points.
LEMMA ReachKnown ==
    ASSUME RequestsOK, RequestsKnown, ReachStep
    PROVE  /\ RequestsOK' /\ RequestsKnown'
           /\ \A r \in Request :
                request'[r] = request[r] \/ request'[r].pc \in {"idle", "reconcile", "sending"}
<1> DEFINE Goal == /\ RequestsOK' /\ RequestsKnown'
                   /\ \A r \in Request :
                        request'[r] = request[r] \/ request'[r].pc \in {"idle", "reconcile", "sending"}
<1>0. Idle.pc = "idle" /\ \A s : Telling(s).pc = "reconcile" /\ Sending(s).pc = "sending"
  BY DEF Idle, Telling, Sending, At
<1>1. ASSUME NEW r \in Request, NEW s \in Server, Connects(r, s) PROVE Goal
  <2>1. Turns(r, Telling(s))
    BY <1>1 DEF Connects
  <2>2. RequestsOK' /\ RequestsKnown'
    BY <2>1, TurnsTelling
  <2> QED BY <1>0, <2>1, <2>2 DEF Turns, RequestsOK
<1>2. ASSUME NEW s \in Server, Disconnects(s) PROVE Goal
  <2>1. request' = [r \in Request |-> IF request[r] = Sending(s) THEN Idle ELSE request[r]]
    BY <1>2 DEF Disconnects
  <2>2. Idle \in RequestState
    BY ToTellType
  <2>3. RequestsOK'
    BY <2>1, <2>2 DEF RequestsOK
  <2>4. \A r \in Request : request'[r] = request[r] \/ request'[r] = Idle
    BY <2>1
  <2>5. RequestsKnown'
    BY <1>0, <2>4 DEF RequestsKnown
  <2> QED BY <1>0, <2>3, <2>4, <2>5
<1>3. ASSUME NEW r \in Request, ReadSpec(r) PROVE Goal
  <2>1. request[r].server \in Server
    BY <1>3 DEF ReadSpec, RequestsKnown
  <2>2. Turns(r, Sending(request[r].server)) \/ Turns(r, Idle)
    BY <1>3 DEF ReadSpec
  <2>3. RequestsOK' /\ RequestsKnown'
    BY <2>1, <2>2, TurnsSending, TurnsIdle
  <2> QED BY <1>0, <2>2, <2>3 DEF Turns, RequestsOK
<1>4. ASSUME NEW r \in Request, SendSpec(r) \/ HangUp(r) PROVE Goal
  <2>1. Turns(r, Idle)
    BY <1>4 DEF SendSpec, HangUp
  <2>2. RequestsOK' /\ RequestsKnown'
    BY <2>1, TurnsIdle
  <2> QED BY <1>0, <2>1, <2>2 DEF Turns, RequestsOK
<1> HIDE DEF Goal
<1>5. Goal
  BY <1>1, <1>2, <1>3, <1>4 DEF ReachStep
<1> QED BY <1>5 DEF Goal

\* What each kind of step leaves alone.
LEMMA AdministerFrame ==
    ASSUME Administer
    PROVE  UNCHANGED <<code, servers, request, hungUp>>
<1>1. ASSUME Create PROVE UNCHANGED <<code, servers, request, hungUp>>
  BY <1>1 DEF Create, place, names, code, servers, hungUp
<1>2. ASSUME Delete PROVE UNCHANGED <<code, servers, request, hungUp>>
  BY <1>2 DEF Delete, place, names, code, servers, hungUp
<1>3. ASSUME NEW s \in Server, DeleteServer(s) PROVE UNCHANGED <<code, servers, request, hungUp>>
  BY <1>3 DEF DeleteServer, place, names, code, servers, hungUp
<1>4. ASSUME NEW s \in Server, NEW e \in Environment, UpdateEnvironment(e, s) PROVE UNCHANGED <<code, servers, request, hungUp>>
  BY <1>4 DEF UpdateEnvironment, place, names, code, servers, hungUp
<1>5. ASSUME NEW h \in Hostname, NEW e \in Environment, AddDomain(h, e) PROVE UNCHANGED <<code, servers, request, hungUp>>
  BY <1>5 DEF AddDomain, place, names, code, servers, hungUp
<1> QED BY <1>1, <1>2, <1>3, <1>4, <1>5 DEF Administer

LEMMA NameFrame ==
    ASSUME NEW r \in Request, NameStep(r)
    PROVE  UNCHANGED <<place, version, code, servers, upsets, hungUp>>
<1>1. ASSUME NEW h \in Hostname, VerifyDomain(r, h) PROVE UNCHANGED <<place, version, code, servers, upsets, hungUp>>
  BY <1>1 DEF VerifyDomain, place, names, code, servers, hungUp
<1>2. ASSUME NEW h \in Hostname, RemoveDomain(r, h) PROVE UNCHANGED <<place, version, code, servers, upsets, hungUp>>
  BY <1>2 DEF RemoveDomain, place, names, code, servers, hungUp
<1>3. ASSUME NEW yes \in BOOLEAN, PointsAt(r, yes) PROVE UNCHANGED <<place, version, code, servers, upsets, hungUp>>
  BY <1>3 DEF PointsAt, place, names, code, servers, hungUp
<1>4. ASSUME RecordVerified(r) PROVE UNCHANGED <<place, version, code, servers, upsets, hungUp>>
  BY <1>4 DEF RecordVerified, place, names, code, servers, hungUp
<1> QED BY <1>1, <1>2, <1>3, <1>4 DEF NameStep

LEMMA AccessFrame ==
    ASSUME NEW r \in Request, AccessStep(r)
    PROVE  UNCHANGED <<place, version, names, servers, upsets, hungUp>>
<1>1. ASSUME ConnectInstallation(r) PROVE UNCHANGED <<place, version, names, servers, upsets, hungUp>>
  BY <1>1 DEF ConnectInstallation, place, names, code, servers, hungUp
<1>2. ASSUME CreateInstallation(r) PROVE UNCHANGED <<place, version, names, servers, upsets, hungUp>>
  BY <1>2 DEF CreateInstallation, place, names, code, servers, hungUp
<1>3. ASSUME OwnsInstallation(r) PROVE UNCHANGED <<place, version, names, servers, upsets, hungUp>>
  BY <1>3 DEF OwnsInstallation, place, names, code, servers, hungUp
<1>4. ASSUME ConnectRepositoryToProject(r) PROVE UNCHANGED <<place, version, names, servers, upsets, hungUp>>
  BY <1>4 DEF ConnectRepositoryToProject, place, names, code, servers, hungUp
<1> QED BY <1>1, <1>2, <1>3, <1>4 DEF AccessStep

LEMMA DeployFrame ==
    ASSUME NEW r \in Request, DeployStep(r)
    PROVE  UNCHANGED <<place, names, code, online, told, handing, upsets, hungUp>>
<1>1. ASSUME NEW e \in Environment, DeployEnvironment(r, e) PROVE UNCHANGED <<place, names, code, online, told, handing, upsets, hungUp>>
  BY <1>1 DEF DeployEnvironment, place, names, code, servers, hungUp
<1>2. ASSUME NEW e \in Environment, DeliverPush(r, e) PROVE UNCHANGED <<place, names, code, online, told, handing, upsets, hungUp>>
  BY <1>2 DEF DeliverPush, place, names, code, servers, hungUp
<1>3. ASSUME MintToken(r) PROVE UNCHANGED <<place, names, code, online, told, handing, upsets, hungUp>>
  BY <1>3 DEF MintToken, place, names, code, servers, hungUp
<1>4. ASSUME AskBuild(r) PROVE UNCHANGED <<place, names, code, online, told, handing, upsets, hungUp>>
  BY <1>4 DEF AskBuild, place, names, code, servers, hungUp
<1>5. ASSUME NEW v \in Version, RecordDeploy(r, v) PROVE UNCHANGED <<place, names, code, online, told, handing, upsets, hungUp>>
  BY <1>5 DEF RecordDeploy, place, names, code, servers, hungUp
<1>6. ASSUME NEW v \in Version, NEW ok \in BOOLEAN, FinishBuild(r, v, ok) PROVE UNCHANGED <<place, names, code, online, told, handing, upsets, hungUp>>
  BY <1>6 DEF FinishBuild, place, names, code, servers, hungUp
<1>7. ASSUME NEW v \in Version, NEW s \in Server, NEW healthy \in BOOLEAN, FinishRollout(r, s, v, healthy) PROVE UNCHANGED <<place, names, code, online, told, handing, upsets, hungUp>>
  BY <1>7 DEF FinishRollout, place, names, code, servers, hungUp
<1>8. ASSUME NEW v \in Version, NEW previous \in Version, Rollback(r, v, previous) PROVE UNCHANGED <<place, names, code, online, told, handing, upsets, hungUp>>
  BY <1>8 DEF Rollback, place, names, code, servers, hungUp
<1> QED BY <1>1, <1>2, <1>3, <1>4, <1>5, <1>6, <1>7, <1>8 DEF DeployStep

LEMMA ReachFrame ==
    ASSUME ReachStep
    PROVE  UNCHANGED <<place, version, names, code>>
<1>1. ASSUME NEW r \in Request, NEW s \in Server, Connects(r, s)
      PROVE  UNCHANGED <<place, version, names, code>>
  BY <1>1 DEF Connects, place, names, code, servers, hungUp
<1>2. ASSUME NEW s \in Server, Disconnects(s) PROVE UNCHANGED <<place, version, names, code>>
  BY <1>2 DEF Disconnects, place, names, code, servers, hungUp
<1>3. ASSUME NEW r \in Request, ReadSpec(r) \/ SendSpec(r) PROVE UNCHANGED <<place, version, names, code>>
  BY <1>3 DEF ReadSpec, SendSpec, place, names, code, servers, hungUp
<1>4. ASSUME NEW r \in Request, HangUp(r) PROVE UNCHANGED <<place, version, names, code>>
  BY <1>4 DEF HangUp, place, names, code, servers, hungUp
<1> QED BY <1>1, <1>2, <1>3, <1>4 DEF ReachStep

LEMMA PlaceKept ==
    ASSUME PlaceOK, [ProjectsNext]_projectVars
    PROVE  PlaceOK'
<1> USE DEF PlaceOK, place, names, code, servers, hungUp
<1>1. ASSUME Administer PROVE PlaceOK'
  <2>1. ASSUME Create PROVE PlaceOK'
    BY <2>1 DEF Create
  <2>2. ASSUME Delete PROVE PlaceOK'
    BY <2>2 DEF Delete, DeleteProject, Gone, Unnamed, Upset, GetProject, Exists
  <2>3. ASSUME NEW s \in Server, DeleteServer(s) PROVE PlaceOK'
    BY <2>3 DEF DeleteServer, DeleteServerRow, Upset, GetServer
  <2>4. ASSUME NEW s \in Server, NEW e \in Environment, UpdateEnvironment(e, s) PROVE PlaceOK'
    BY <2>4 DEF UpdateEnvironment, SetEnvironmentServer, Upset, GetServer, GetProject
  <2>5. ASSUME NEW h \in Hostname, NEW e \in Environment, AddDomain(h, e) PROVE PlaceOK'
    BY <2>5 DEF AddDomain
  <2> QED BY <1>1, <2>1, <2>2, <2>3, <2>4, <2>5 DEF Administer
<1>2. CASE Grant
  BY <1>2 DEF Grant
<1>3. CASE TakeAway
  BY <1>3 DEF TakeAway, Upset
<1>4. CASE DeliverInstallation
  BY <1>4 DEF DeliverInstallation, RevokeInstallation
<1>5. ASSUME NEW r \in Request, NameStep(r) PROVE PlaceOK'
  BY <1>5, NameFrame
<1>6. ASSUME NEW r \in Request, AccessStep(r) PROVE PlaceOK'
  BY <1>6, AccessFrame
<1>7. ASSUME NEW r \in Request, DeployStep(r) PROVE PlaceOK'
  BY <1>7, DeployFrame
<1>8. ASSUME ReachStep PROVE PlaceOK'
  BY <1>8, ReachFrame
<1>9. CASE UNCHANGED projectVars
  BY <1>9 DEF projectVars
<1> QED BY <1>1, <1>2, <1>3, <1>4, <1>5, <1>6, <1>7, <1>8, <1>9 DEF ProjectsNext

LEMMA VersionsKept ==
    ASSUME PlaceOK, VersionsOK, RequestsOK, RequestsKnown, [ProjectsNext]_projectVars
    PROVE  VersionsOK'
<1> USE DEF PlaceOK, VersionsOK, VersionStatus, place, names, code, servers, hungUp
<1>1. ASSUME Administer PROVE VersionsOK'
  <2>1. ASSUME Create PROVE VersionsOK'
    BY <2>1 DEF Create
  <2>2. ASSUME Delete PROVE VersionsOK'
    BY <2>2 DEF Delete, DeleteProject, Gone, Unnamed, Upset, GetProject, Exists
  <2>3. ASSUME NEW s \in Server, DeleteServer(s) PROVE VersionsOK'
    BY <2>3 DEF DeleteServer, DeleteServerRow, Upset, GetServer
  <2>4. ASSUME NEW s \in Server, NEW e \in Environment, UpdateEnvironment(e, s) PROVE VersionsOK'
    BY <2>4 DEF UpdateEnvironment
  <2>5. ASSUME NEW h \in Hostname, NEW e \in Environment, AddDomain(h, e) PROVE VersionsOK'
    BY <2>5 DEF AddDomain
  <2> QED BY <1>1, <2>1, <2>2, <2>3, <2>4, <2>5 DEF Administer
<1>2. CASE Grant
  BY <1>2 DEF Grant
<1>3. CASE TakeAway
  BY <1>3 DEF TakeAway, Upset
<1>4. CASE DeliverInstallation
  BY <1>4 DEF DeliverInstallation, RevokeInstallation
<1>5. ASSUME NEW r \in Request, NameStep(r) PROVE VersionsOK'
  BY <1>5, NameFrame
<1>6. ASSUME NEW r \in Request, AccessStep(r) PROVE VersionsOK'
  BY <1>6, AccessFrame
<1>7. ASSUME NEW r \in Request, DeployStep(r) PROVE VersionsOK'
  <2>1. ASSUME NEW e \in Environment, DeployEnvironment(r, e) PROVE VersionsOK'
    BY <2>1 DEF DeployEnvironment
  <2>2. ASSUME NEW e \in Environment, DeliverPush(r, e) PROVE VersionsOK'
    BY <2>2 DEF DeliverPush
  <2>3. ASSUME MintToken(r) PROVE VersionsOK'
    BY <2>3 DEF MintToken
  <2>4. ASSUME AskBuild(r) PROVE VersionsOK'
    <3>1. request[r].version \in Version
      BY <2>4 DEF AskBuild, RequestsKnown
    <3>2. UNCHANGED known
      BY <2>4 DEF AskBuild
    <3>3. \/ UNCHANGED version
          \/ version' = [version EXCEPT ![request[r].version] =
                             IF Exists(request[r].version)
                             THEN SetDeploymentStatus(request[r].version, "failed") ELSE Gone]
      BY <2>4 DEF AskBuild
    <3>4. Gone \in [env : Environment \cup {None}, status : VersionStatus,
                    image : Version \cup {No}, server : known \cup {None}]
      BY DEF Gone
    <3>5. SetDeploymentStatus(request[r].version, "failed") \in
            [env : Environment \cup {None}, status : VersionStatus,
             image : Version \cup {No}, server : known \cup {None}]
      BY <3>1 DEF SetDeploymentStatus
    <3>6. CASE UNCHANGED version
      BY <3>2, <3>6
    <3>7. CASE version' = [version EXCEPT ![request[r].version] =
                             IF Exists(request[r].version)
                             THEN SetDeploymentStatus(request[r].version, "failed") ELSE Gone]
      BY <3>1, <3>2, <3>4, <3>5, <3>7
    <3> QED BY <3>3, <3>6, <3>7
  <2>5. ASSUME NEW v \in Version, RecordDeploy(r, v) PROVE VersionsOK'
    <3>1. ASSUME request[r].pc = "minted" PROVE request[r].env \in Environment
      BY <3>1 DEF RequestsKnown
    <3>2. ASSUME NEW e \in Environment, NEW s \in known
          PROVE  CreatePlacement(e, s, "building", No) \in
                   [env : Environment \cup {None}, status : VersionStatus,
                    image : Version \cup {No}, server : known \cup {None}]
      BY DEF CreatePlacement
    <3>3. known' = known
      BY <2>5 DEF RecordDeploy
    <3>4. request[r].pc = "minted"
      BY <2>5 DEF RecordDeploy
    <3>5. CASE GetServer(request[r].server) /\ GetProject
      <4>1. version' = [version EXCEPT ![v] = CreatePlacement(request[r].env, request[r].server, "building", No)]
        BY <2>5, <3>5 DEF RecordDeploy
      <4>2. CreatePlacement(request[r].env, request[r].server, "building", No) \in
              [env : Environment \cup {None}, status : VersionStatus,
               image : Version \cup {No}, server : known \cup {None}]
        BY <3>1, <3>2, <3>4, <3>5 DEF GetServer
      <4> QED BY <4>1, <4>2, <3>3
    <3>6. CASE ~ (GetServer(request[r].server) /\ GetProject)
      BY <2>5, <3>3, <3>6 DEF RecordDeploy
    <3> QED BY <3>5, <3>6
  <2>6. ASSUME NEW v \in Version, NEW ok \in BOOLEAN, FinishBuild(r, v, ok) PROVE VersionsOK'
    BY <2>6 DEF FinishBuild, SetDeploymentImage, SetDeploymentStatus
  <2>7. ASSUME NEW v \in Version, NEW s \in Server, NEW healthy \in BOOLEAN, FinishRollout(r, s, v, healthy) PROVE VersionsOK'
    BY <2>7 DEF FinishRollout, SetDeploymentStatus, SupersedePrevious
  <2>8. ASSUME NEW v \in Version, NEW previous \in Version, Rollback(r, v, previous) PROVE VersionsOK'
    BY <2>8 DEF Rollback, CreatePlacement, ListPlacements, Exists
  <2> QED BY <1>7, <2>1, <2>2, <2>3, <2>4, <2>5, <2>6, <2>7, <2>8 DEF DeployStep
<1>8. ASSUME ReachStep PROVE VersionsOK'
  BY <1>8, ReachFrame
<1>9. CASE UNCHANGED projectVars
  BY <1>9 DEF projectVars
<1> QED BY <1>1, <1>2, <1>3, <1>4, <1>5, <1>6, <1>7, <1>8, <1>9 DEF ProjectsNext

LEMMA NamesKept ==
    ASSUME NamesOK, PlaceOK, RequestsOK, RequestsKnown, [ProjectsNext]_projectVars
    PROVE  NamesOK'
<1> USE DEF NamesOK, place, names, code, servers, hungUp
<1>1. ASSUME Administer PROVE NamesOK'
  <2>1. ASSUME Create PROVE NamesOK'
    BY <2>1 DEF Create
  <2>2. ASSUME Delete PROVE NamesOK'
    BY <2>2 DEF Delete, DeleteProject, Gone, Unnamed, Upset, GetProject, Exists
  <2>3. ASSUME NEW s \in Server, DeleteServer(s) PROVE NamesOK'
    BY <2>3 DEF DeleteServer
  <2>4. ASSUME NEW s \in Server, NEW e \in Environment, UpdateEnvironment(e, s) PROVE NamesOK'
    BY <2>4 DEF UpdateEnvironment
  <2>5. ASSUME NEW h \in Hostname, NEW e \in Environment, AddDomain(h, e) PROVE NamesOK'
    BY <2>5 DEF AddDomain, CreateDomain, GetDeployTarget, GetProject
  <2> QED BY <1>1, <2>1, <2>2, <2>3, <2>4, <2>5 DEF Administer
<1>2. CASE Grant
  BY <1>2 DEF Grant
<1>3. CASE TakeAway
  BY <1>3 DEF TakeAway, Upset
<1>4. CASE DeliverInstallation
  BY <1>4 DEF DeliverInstallation, RevokeInstallation
<1>5. ASSUME NEW r \in Request, NameStep(r) PROVE NamesOK'
  <2>1. ASSUME NEW h \in Hostname, VerifyDomain(r, h) PROVE NamesOK'
    BY <2>1 DEF VerifyDomain
  <2>2. ASSUME NEW h \in Hostname, RemoveDomain(r, h) PROVE NamesOK'
    BY <2>2 DEF RemoveDomain, DeleteDomain, ServerFor, ToTell, Unnamed
  <2>3. ASSUME NEW yes \in BOOLEAN, PointsAt(r, yes) PROVE NamesOK'
    BY <2>3 DEF PointsAt, RequestsKnown
  <2>4. ASSUME RecordVerified(r) PROVE NamesOK'
    BY <2>4, RequestFields DEF RecordVerified, MarkDomainVerified
  <2> QED BY <1>5, <2>1, <2>2, <2>3, <2>4 DEF NameStep
<1>6. ASSUME NEW r \in Request, AccessStep(r) PROVE NamesOK'
  BY <1>6, AccessFrame
<1>7. ASSUME NEW r \in Request, DeployStep(r) PROVE NamesOK'
  BY <1>7, DeployFrame
<1>8. ASSUME ReachStep PROVE NamesOK'
  BY <1>8, ReachFrame
<1>9. CASE UNCHANGED projectVars
  BY <1>9 DEF projectVars
<1> QED BY <1>1, <1>2, <1>3, <1>4, <1>5, <1>6, <1>7, <1>8, <1>9 DEF ProjectsNext

LEMMA CodeKept ==
    ASSUME CodeOK, [ProjectsNext]_projectVars
    PROVE  CodeOK'
<1> USE DEF CodeOK, place, names, code, servers, hungUp
<1>1. ASSUME Administer PROVE CodeOK'
  BY <1>1, AdministerFrame
<1>2. CASE Grant
  BY <1>2 DEF Grant
<1>3. CASE TakeAway
  BY <1>3 DEF TakeAway, Upset
<1>4. CASE DeliverInstallation
  BY <1>4 DEF DeliverInstallation, RevokeInstallation
<1>5. ASSUME NEW r \in Request, NameStep(r) PROVE CodeOK'
  BY <1>5, NameFrame
<1>6. ASSUME NEW r \in Request, AccessStep(r) PROVE CodeOK'
  <2>1. ASSUME ConnectInstallation(r) PROVE CodeOK'
    BY <2>1 DEF ConnectInstallation
  <2>2. ASSUME CreateInstallation(r) PROVE CodeOK'
    BY <2>2 DEF CreateInstallation
  <2>3. ASSUME OwnsInstallation(r) PROVE CodeOK'
    BY <2>3 DEF OwnsInstallation
  <2>4. ASSUME ConnectRepositoryToProject(r) PROVE CodeOK'
    BY <2>4 DEF ConnectRepositoryToProject, SetProjectRepository, GetProject
  <2> QED BY <1>6, <2>1, <2>2, <2>3, <2>4 DEF AccessStep
<1>7. ASSUME NEW r \in Request, DeployStep(r) PROVE CodeOK'
  BY <1>7, DeployFrame
<1>8. ASSUME ReachStep PROVE CodeOK'
  BY <1>8, ReachFrame
<1>9. CASE UNCHANGED projectVars
  BY <1>9 DEF projectVars
<1> QED BY <1>1, <1>2, <1>3, <1>4, <1>5, <1>6, <1>7, <1>8, <1>9 DEF ProjectsNext

LEMMA ServersKept ==
    ASSUME ServersOK, RequestsOK, RequestsKnown, [ProjectsNext]_projectVars
    PROVE  ServersOK'
<1> USE DEF ServersOK, place, names, code, servers, handing, hungUp
<1>1. ASSUME Administer PROVE ServersOK'
  BY <1>1, AdministerFrame
<1>2. CASE Grant
  BY <1>2 DEF Grant
<1>3. CASE TakeAway
  BY <1>3 DEF TakeAway, Upset
<1>4. CASE DeliverInstallation
  BY <1>4 DEF DeliverInstallation, RevokeInstallation
<1>5. ASSUME NEW r \in Request, NameStep(r) PROVE ServersOK'
  BY <1>5, NameFrame
<1>6. ASSUME NEW r \in Request, AccessStep(r) PROVE ServersOK'
  BY <1>6, AccessFrame
<1>7. ASSUME NEW r \in Request, DeployStep(r) PROVE ServersOK'
  <2>1. ASSUME NEW e \in Environment, DeployEnvironment(r, e) PROVE ServersOK'
    BY <2>1 DEF DeployEnvironment
  <2>2. ASSUME NEW e \in Environment, DeliverPush(r, e) PROVE ServersOK'
    BY <2>2 DEF DeliverPush
  <2>3. ASSUME MintToken(r) PROVE ServersOK'
    BY <2>3 DEF MintToken
  <2>4. ASSUME AskBuild(r) PROVE ServersOK'
    <3>1. request[r].version \in Version
      BY <2>4 DEF AskBuild, RequestsKnown
    <3>2. /\ UNCHANGED <<online, told, handing>>
          /\ asked' = asked \/ asked' = asked \cup {request[r].version}
      BY <2>4 DEF AskBuild
    <3> QED BY <3>1, <3>2
  <2>5. ASSUME NEW v \in Version, RecordDeploy(r, v) PROVE ServersOK'
    BY <2>5 DEF RecordDeploy
  <2>6. ASSUME NEW v \in Version, NEW ok \in BOOLEAN, FinishBuild(r, v, ok) PROVE ServersOK'
    BY <2>6 DEF FinishBuild
  <2>7. ASSUME NEW v \in Version, NEW s \in Server, NEW healthy \in BOOLEAN, FinishRollout(r, s, v, healthy) PROVE ServersOK'
    BY <2>7 DEF FinishRollout
  <2>8. ASSUME NEW v \in Version, NEW previous \in Version, Rollback(r, v, previous) PROVE ServersOK'
    BY <2>8 DEF Rollback
  <2> QED BY <1>7, <2>1, <2>2, <2>3, <2>4, <2>5, <2>6, <2>7, <2>8 DEF DeployStep
<1>8. ASSUME ReachStep PROVE ServersOK'
  <2>1. ASSUME NEW r \in Request, NEW s \in Server, Connects(r, s) PROVE ServersOK'
    BY <2>1 DEF Connects
  <2>2. ASSUME NEW s \in Server, Disconnects(s) PROVE ServersOK'
    BY <2>2, NothingType DEF Disconnects, Upset
  <2>3. ASSUME NEW r \in Request, ReadSpec(r) \/ SendSpec(r) PROVE ServersOK'
    <3>1. request[r].server \in Server
      BY <2>3 DEF ReadSpec, SendSpec, RequestsKnown
    <3>2. SpecFor(request[r].server) \in Spec
      BY <3>1, SpecForType
    <3>3. CASE ReadSpec(r)
      <4>1. /\ UNCHANGED <<online, told, asked, started>>
            /\ sending' = sending \/ sending' = [sending EXCEPT ![r] = SpecFor(request[r].server)]
            /\ crossed' \in {crossed, crossed \cup {request[r].server}, crossed \ {request[r].server}}
        BY <3>3 DEF ReadSpec
      <4> QED BY <3>1, <3>2, <4>1
    <3>4. CASE SendSpec(r)
      <4>1. /\ UNCHANGED <<online, asked, crossed>>
            /\ told' = [told EXCEPT ![request[r].server] = sending[r]]
            /\ started' = [started EXCEPT ![request[r].server] = @ \cup sending[r].want]
            /\ sending' = [sending EXCEPT ![r] = Nothing]
        BY <3>4 DEF SendSpec
      <4>2. sending[r].want \subseteq Version
        BY DEF Spec
      <4> QED BY <3>1, <4>1, <4>2, NothingType
    <3> QED BY <2>3, <3>3, <3>4
  <2>4. ASSUME NEW r \in Request, HangUp(r) PROVE ServersOK'
    BY <2>4, NothingType DEF HangUp
  <2> QED BY <1>8, <2>1, <2>2, <2>3, <2>4 DEF ReachStep
<1>9. CASE UNCHANGED projectVars
  BY <1>9 DEF projectVars
<1> QED BY <1>1, <1>2, <1>3, <1>4, <1>5, <1>6, <1>7, <1>8, <1>9 DEF ProjectsNext

LEMMA HungUpKept ==
    ASSUME HungUpOK, RequestsOK, RequestsKnown, [ProjectsNext]_projectVars
    PROVE  HungUpOK'
<1> USE DEF HungUpOK, place, names, code, servers, hungUp
<1>1. ASSUME Administer PROVE HungUpOK'
  <2>1. ASSUME Create PROVE HungUpOK'
    BY <2>1 DEF Create
  <2>2. ASSUME Delete PROVE HungUpOK'
    BY <2>2 DEF Delete, DeleteProject, Gone, Unnamed, Upset, GetProject, Exists
  <2>3. ASSUME NEW s \in Server, DeleteServer(s) PROVE HungUpOK'
    BY <2>3 DEF DeleteServer, DeleteServerRow, Upset, GetServer
  <2>4. ASSUME NEW s \in Server, NEW e \in Environment, UpdateEnvironment(e, s) PROVE HungUpOK'
    BY <2>4 DEF UpdateEnvironment, SetEnvironmentServer, Upset, GetServer, GetProject
  <2>5. ASSUME NEW h \in Hostname, NEW e \in Environment, AddDomain(h, e) PROVE HungUpOK'
    BY <2>5 DEF AddDomain
  <2> QED BY <1>1, <2>1, <2>2, <2>3, <2>4, <2>5 DEF Administer
<1>2. CASE Grant
  BY <1>2 DEF Grant
<1>3. CASE TakeAway
  BY <1>3 DEF TakeAway, Upset
<1>4. CASE DeliverInstallation
  BY <1>4 DEF DeliverInstallation, RevokeInstallation
<1>5. ASSUME NEW r \in Request, NameStep(r) PROVE HungUpOK'
  BY <1>5, NameFrame
<1>6. ASSUME NEW r \in Request, AccessStep(r) PROVE HungUpOK'
  BY <1>6, AccessFrame
<1>7. ASSUME NEW r \in Request, DeployStep(r) PROVE HungUpOK'
  BY <1>7, DeployFrame
<1>8. ASSUME ReachStep PROVE HungUpOK'
  <2>1. ASSUME NEW r \in Request, NEW s \in Server, Connects(r, s) PROVE HungUpOK'
    BY <2>1 DEF Connects
  <2>2. ASSUME NEW s \in Server, Disconnects(s) PROVE HungUpOK'
    BY <2>2 DEF Disconnects, Upset
  <2>3. ASSUME NEW r \in Request, ReadSpec(r) \/ SendSpec(r) PROVE HungUpOK'
    BY <2>3 DEF ReadSpec, SendSpec
  <2>4. ASSUME NEW r \in Request, HangUp(r) PROVE HungUpOK'
    <3>1. /\ request[r].pc = "recorded" => request[r].version \in Version
          /\ request[r].pc \in {"reconcile", "sending"} => request[r].server \in Server
      BY DEF RequestsKnown
    <3>2. upsets' \in 0..MaxUpsets
      BY <2>4 DEF HangUp, Upset
    <3>3. untold' \subseteq Server /\ unasked' \subseteq Version
      BY <2>4, <3>1 DEF HangUp
    <3> QED BY <3>2, <3>3
  <2> QED BY <1>8, <2>1, <2>2, <2>3, <2>4 DEF ReachStep
<1>9. CASE UNCHANGED projectVars
  BY <1>9 DEF projectVars
<1> QED BY <1>1, <1>2, <1>3, <1>4, <1>5, <1>6, <1>7, <1>8, <1>9 DEF ProjectsNext

LEMMA NothingKept ==
    ASSUME ProjectsTypeOK, RequestsKnown, [ProjectsNext]_projectVars
    PROVE  NothingLeft'
<1> USE DEF NothingLeft, ProjectsTypeOK, Exists, Unnamed, place, names, code, servers, hungUp
<1>1. ASSUME Administer PROVE NothingLeft'
  <2>1. ASSUME Create PROVE NothingLeft'
    BY <2>1 DEF Create
  <2>2. ASSUME Delete PROVE NothingLeft'
    BY <2>2 DEF Delete, DeleteProject, Gone, Unnamed, Upset, GetProject, Exists
  <2>3. ASSUME NEW s \in Server, DeleteServer(s) PROVE NothingLeft'
    BY <2>3 DEF DeleteServer, DeleteServerRow, Upset, GetServer
  <2>4. ASSUME NEW s \in Server, NEW e \in Environment, UpdateEnvironment(e, s) PROVE NothingLeft'
    BY <2>4 DEF UpdateEnvironment, SetEnvironmentServer, Upset, GetServer, GetProject
  <2>5. ASSUME NEW h \in Hostname, NEW e \in Environment, AddDomain(h, e) PROVE NothingLeft'
    BY <2>5 DEF AddDomain, CreateDomain, GetDeployTarget, GetProject
  <2> QED BY <1>1, <2>1, <2>2, <2>3, <2>4, <2>5 DEF Administer
<1>2. CASE Grant
  BY <1>2 DEF Grant
<1>3. CASE TakeAway
  BY <1>3 DEF TakeAway, Upset
<1>4. CASE DeliverInstallation
  BY <1>4 DEF DeliverInstallation, RevokeInstallation
<1>5. ASSUME NEW r \in Request, NameStep(r) PROVE NothingLeft'
  <2>1. ASSUME NEW h \in Hostname, VerifyDomain(r, h) PROVE NothingLeft'
    BY <2>1 DEF VerifyDomain
  <2>2. ASSUME NEW h \in Hostname, RemoveDomain(r, h) PROVE NothingLeft'
    BY <2>2 DEF RemoveDomain, DeleteDomain, ServerFor, ToTell, Unnamed
  <2>3. ASSUME NEW yes \in BOOLEAN, PointsAt(r, yes) PROVE NothingLeft'
    BY <2>3 DEF PointsAt
  <2>4. ASSUME RecordVerified(r) PROVE NothingLeft'
    <3>1. request[r].pc = "found" => request[r].row # No
      BY DEF RequestsKnown
    <3>2. UNCHANGED <<place, version>>
      BY <2>4 DEF RecordVerified
    <3>3. \A h \in Hostname : domain[h] = Unnamed => domain'[h] = Unnamed
      BY <2>4, <3>1 DEF RecordVerified, MarkDomainVerified
    <3> QED BY <3>2, <3>3
  <2> QED BY <1>5, <2>1, <2>2, <2>3, <2>4 DEF NameStep
<1>6. ASSUME NEW r \in Request, AccessStep(r) PROVE NothingLeft'
  BY <1>6, AccessFrame
<1>7. ASSUME NEW r \in Request, DeployStep(r) PROVE NothingLeft'
  <2>1. ASSUME NEW e \in Environment, DeployEnvironment(r, e) PROVE NothingLeft'
    BY <2>1 DEF DeployEnvironment
  <2>2. ASSUME NEW e \in Environment, DeliverPush(r, e) PROVE NothingLeft'
    BY <2>2 DEF DeliverPush
  <2>3. ASSUME MintToken(r) PROVE NothingLeft'
    BY <2>3 DEF MintToken
  <2>4. ASSUME AskBuild(r) PROVE NothingLeft'
    <3>1. UNCHANGED <<place, domain>>
      BY <2>4 DEF AskBuild
    <3>2. ASSUME NEW v \in Version, ~ Exists(v) PROVE ~ Exists(v)'
      <4>1. \/ UNCHANGED version
            \/ version' = [version EXCEPT ![request[r].version] =
                   IF Exists(request[r].version)
                   THEN SetDeploymentStatus(request[r].version, "failed") ELSE Gone]
        BY <2>4 DEF AskBuild
      <4>2. version' = [version EXCEPT ![request[r].version] = Gone] => ~ Exists(v)'
        BY <3>2 DEF Gone, VersionsOK
      <4>3. request[r].version = v \/ v # request[r].version
        OBVIOUS
      <4> QED BY <4>1, <4>2, <4>3, <3>2 DEF VersionsOK, Gone
    <3> QED BY <3>1, <3>2
  <2>5. ASSUME NEW v \in Version, RecordDeploy(r, v) PROVE NothingLeft'
    BY <2>5 DEF RecordDeploy, CreateDeployment, CreatePlacement, GetProject, GetServer
  <2>6. ASSUME NEW v \in Version, NEW ok \in BOOLEAN, FinishBuild(r, v, ok) PROVE NothingLeft'
    <3>1. UNCHANGED <<place, domain>>
      BY <2>6 DEF FinishBuild
    <3>2. \A w \in Version : ~ Exists(w) => version'[w] = version[w]
      BY <2>6 DEF FinishBuild, VersionsOK
    <3> QED BY <3>1, <3>2
  <2>7. ASSUME NEW v \in Version, NEW s \in Server, NEW healthy \in BOOLEAN, FinishRollout(r, s, v, healthy) PROVE NothingLeft'
    BY <2>7 DEF FinishRollout, SetDeploymentStatus, SupersedePrevious, ListPlacements, ToTell, Exists
  <2>8. ASSUME NEW v \in Version, NEW previous \in Version, Rollback(r, v, previous) PROVE NothingLeft'
    BY <2>8 DEF Rollback, CreateDeployment, CreatePlacement, ListPlacements, Exists
  <2> QED BY <1>7, <2>1, <2>2, <2>3, <2>4, <2>5, <2>6, <2>7, <2>8 DEF DeployStep
<1>8. ASSUME ReachStep PROVE NothingLeft'
  BY <1>8, ReachFrame
<1>9. CASE UNCHANGED projectVars
  BY <1>9 DEF projectVars
<1> QED BY <1>1, <1>2, <1>3, <1>4, <1>5, <1>6, <1>7, <1>8, <1>9 DEF ProjectsNext

\* A hostname in use is an environment's.
RowsKnown == \A h \in Hostname : domain[h].row # No => domain[h].env \in Environment

LEMMA RowsKept ==
    ASSUME RowsKnown, NamesOK, RequestsKnown, [ProjectsNext]_projectVars
    PROVE  RowsKnown'
<1> USE DEF RowsKnown, NamesOK, Unnamed, place, names, code, servers, hungUp
<1>1. ASSUME Administer PROVE RowsKnown'
  <2>1. ASSUME Create PROVE RowsKnown'
    BY <2>1 DEF Create
  <2>2. ASSUME Delete PROVE RowsKnown'
    BY <2>2 DEF Delete, DeleteProject
  <2>3. ASSUME NEW s \in Server, DeleteServer(s) PROVE RowsKnown'
    BY <2>3 DEF DeleteServer
  <2>4. ASSUME NEW s \in Server, NEW e \in Environment, UpdateEnvironment(e, s) PROVE RowsKnown'
    BY <2>4 DEF UpdateEnvironment
  <2>5. ASSUME NEW h \in Hostname, NEW e \in Environment, AddDomain(h, e) PROVE RowsKnown'
    BY <2>5 DEF AddDomain, CreateDomain
  <2> QED BY <1>1, <2>1, <2>2, <2>3, <2>4, <2>5 DEF Administer
<1>2. CASE Grant
  BY <1>2 DEF Grant
<1>3. CASE TakeAway
  BY <1>3 DEF TakeAway
<1>4. CASE DeliverInstallation
  BY <1>4 DEF DeliverInstallation
<1>5. ASSUME NEW r \in Request, NameStep(r) PROVE RowsKnown'
  <2>1. ASSUME NEW h \in Hostname, VerifyDomain(r, h) PROVE RowsKnown'
    BY <2>1 DEF VerifyDomain
  <2>2. ASSUME NEW h \in Hostname, RemoveDomain(r, h) PROVE RowsKnown'
    BY <2>2 DEF RemoveDomain, DeleteDomain
  <2>3. ASSUME NEW yes \in BOOLEAN, PointsAt(r, yes) PROVE RowsKnown'
    BY <2>3 DEF PointsAt
  <2>4. ASSUME RecordVerified(r) PROVE RowsKnown'
    <3>1. request[r].pc = "found" => request[r].row # No
      BY DEF RequestsKnown
    <3> QED BY <2>4, <3>1 DEF RecordVerified, MarkDomainVerified
  <2> QED BY <1>5, <2>1, <2>2, <2>3, <2>4 DEF NameStep
<1>6. ASSUME NEW r \in Request, AccessStep(r) PROVE RowsKnown'
  BY <1>6, AccessFrame
<1>7. ASSUME NEW r \in Request, DeployStep(r) PROVE RowsKnown'
  BY <1>7, DeployFrame
<1>8. ASSUME ReachStep PROVE RowsKnown'
  BY <1>8, ReachFrame
<1>9. CASE UNCHANGED projectVars
  BY <1>9 DEF projectVars
<1> QED BY <1>1, <1>2, <1>3, <1>4, <1>5, <1>6, <1>7, <1>8, <1>9 DEF ProjectsNext

LEMMA RequestsKept ==
    ASSUME PlaceOK, VersionsOK, NamesOK, RowsKnown, RequestsOK, RequestsKnown, [ProjectsNext]_projectVars
    PROVE  RequestsOK' /\ RequestsKnown'
<1>0. ASSUME UNCHANGED request PROVE RequestsOK' /\ RequestsKnown'
  BY <1>0 DEF RequestsOK, RequestsKnown
<1>a. \A e \in Environment : serverOf[e] \in Server \cup {None}
  BY DEF PlaceOK
<1>b. \A h \in Hostname : domain[h].row # No => ServerFor(h) \in Server \cup {None} /\ domain[h].row \in Row
  BY <1>a DEF RowsKnown, ServerFor, NamesOK
<1>1. ASSUME Administer PROVE RequestsOK' /\ RequestsKnown'
  BY <1>0, <1>1, AdministerFrame
<1>2. CASE Grant \/ TakeAway \/ DeliverInstallation
  BY <1>0, <1>2 DEF Grant, TakeAway, DeliverInstallation
<1>3. ASSUME NEW r \in Request, NameStep(r) PROVE RequestsOK' /\ RequestsKnown'
  <2>1. ASSUME NEW h \in Hostname, VerifyDomain(r, h) PROVE RequestsOK' /\ RequestsKnown'
    <3> DEFINE q == At("looking", None, ServerFor(h), No, h, domain[h].row)
    <3>1. ServerFor(h) \in Server /\ domain[h].row \in Row /\ Turns(r, q)
      BY <2>1, <1>b DEF VerifyDomain
    <3>2. q \in RequestState
      BY <3>1, AtType
    <3>3. q.pc = "looking" /\ q.server = ServerFor(h) /\ q.row = domain[h].row /\ q.host = h
      BY AtFields
    <3> HIDE DEF q
    <3> QED BY <3>1, <3>2, <3>3, TurnsKnown
  <2>2. ASSUME NEW h \in Hostname, RemoveDomain(r, h) PROVE RequestsOK' /\ RequestsKnown'
    <3>1. {ServerFor(h)} \ {None} \in SUBSET Server
      BY <2>2, <1>b DEF RemoveDomain
    <3>2. Turns(r, ToTell({ServerFor(h)} \ {None}))
      BY <2>2 DEF RemoveDomain
    <3> QED BY <3>1, <3>2, TurnsToTell
  <2>3. ASSUME NEW yes \in BOOLEAN, PointsAt(r, yes) PROVE RequestsOK' /\ RequestsKnown'
    <3> DEFINE q == At("found", None, request[r].server, No, request[r].host, request[r].row)
    <3>1. request[r].server \in Server /\ request[r].row \in Row /\ request[r].host \in Hostname
      BY <2>3 DEF PointsAt, RequestsKnown
    <3>2. q \in RequestState
      BY <3>1, AtType
    <3>3. q.pc = "found" /\ q.server = request[r].server /\ q.row = request[r].row /\ q.host = request[r].host
      BY AtFields
    <3>4. Turns(r, q) \/ Turns(r, Idle)
      BY <2>3 DEF PointsAt
    <3> HIDE DEF q
    <3> QED BY <3>1, <3>2, <3>3, <3>4, TurnsKnown, TurnsIdle
  <2>4. ASSUME RecordVerified(r) PROVE RequestsOK' /\ RequestsKnown'
    <3>1. request[r].server \in Server
      BY <2>4 DEF RecordVerified, RequestsKnown
    <3>2. Turns(r, Telling(request[r].server)) \/ Turns(r, Idle)
      BY <2>4 DEF RecordVerified
    <3> QED BY <3>1, <3>2, TurnsTelling, TurnsIdle
  <2> QED BY <1>3, <2>1, <2>2, <2>3, <2>4 DEF NameStep
<1>4. ASSUME NEW r \in Request, AccessStep(r) PROVE RequestsOK' /\ RequestsKnown'
  <2>1. ASSUME NEW pc \in {"granted", "owned"}, Turns(r, At(pc, None, None, No, None, No))
        PROVE  RequestsOK' /\ RequestsKnown'
    <3> DEFINE q == At(pc, None, None, No, None, No)
    <3>1. q \in RequestState
      BY AtType
    <3>2. q.pc = pc /\ Turns(r, q)
      BY <2>1, AtFields
    <3> HIDE DEF q
    <3> QED BY <2>1, <3>1, <3>2, TurnsKnown
  <2>2. \/ Turns(r, At("granted", None, None, No, None, No)) \/ Turns(r, At("owned", None, None, No, None, No))
        \/ Turns(r, Idle)
    BY <1>4 DEF AccessStep, ConnectInstallation, CreateInstallation, OwnsInstallation, ConnectRepositoryToProject
  <2> QED BY <2>1, <2>2, TurnsIdle
<1>5. ASSUME NEW r \in Request, DeployStep(r) PROVE RequestsOK' /\ RequestsKnown'
  <2>1. ASSUME NEW pc \in {"targeted", "minted"}, NEW e \in Environment, NEW s \in Server,
               Turns(r, At(pc, e, s, No, None, No))
        PROVE  RequestsOK' /\ RequestsKnown'
    <3> DEFINE q == At(pc, e, s, No, None, No)
    <3>1. q \in RequestState
      BY AtType
    <3>2. q.pc = pc /\ q.env = e /\ q.server = s /\ Turns(r, q)
      BY <2>1, AtFields
    <3> HIDE DEF q
    <3> QED BY <2>1, <3>1, <3>2, TurnsKnown
  <2>2. ASSUME NEW e \in Environment, DeployEnvironment(r, e) \/ DeliverPush(r, e)
        PROVE  RequestsOK' /\ RequestsKnown'
    <3>1. serverOf[e] \in Server /\ Turns(r, At("targeted", e, serverOf[e], No, None, No))
      BY <2>2, <1>a DEF DeployEnvironment, DeliverPush, GetDeployTarget
    <3> QED BY <2>1, <3>1
  <2>3. ASSUME MintToken(r) PROVE RequestsOK' /\ RequestsKnown'
    <3>1. request[r].server \in Server /\ request[r].env \in Environment
      BY <2>3 DEF MintToken, RequestsKnown
    <3>2. Turns(r, At("minted", request[r].env, request[r].server, No, None, No)) \/ Turns(r, Idle)
      BY <2>3 DEF MintToken
    <3> QED BY <2>1, <3>1, <3>2, TurnsIdle
  <2>4. ASSUME AskBuild(r) PROVE RequestsOK' /\ RequestsKnown'
    BY <2>4, TurnsIdle DEF AskBuild
  <2>5. ASSUME NEW v \in Version, RecordDeploy(r, v) PROVE RequestsOK' /\ RequestsKnown'
    <3> DEFINE q == At("recorded", None, request[r].server, v, None, No)
    <3>1. request[r].server \in Server
      BY <2>5 DEF RecordDeploy, RequestsKnown
    <3>2. q \in RequestState
      BY <3>1, AtType
    <3>3. q.pc = "recorded" /\ q.server = request[r].server /\ q.version = v
      BY AtFields
    <3>4. Turns(r, q) \/ Turns(r, Idle)
      BY <2>5 DEF RecordDeploy
    <3> HIDE DEF q
    <3> QED BY <3>1, <3>2, <3>3, <3>4, TurnsKnown, TurnsIdle
  <2>6. ASSUME NEW v \in Version, NEW ok \in BOOLEAN, FinishBuild(r, v, ok) PROVE RequestsOK' /\ RequestsKnown'
    <3>1. Turns(r, ToTell(IF ok THEN ListPlacements(v) ELSE {}))
      BY <2>6 DEF FinishBuild
    <3>2. (IF ok THEN ListPlacements(v) ELSE {}) \in SUBSET Server
      BY DEF ListPlacements
    <3> QED BY <3>1, <3>2, TurnsToTell
  <2>7. ASSUME NEW v \in Version, NEW s \in Server, NEW healthy \in BOOLEAN, FinishRollout(r, s, v, healthy)
        PROVE  RequestsOK' /\ RequestsKnown'
    <3>1. Turns(r, ToTell(IF healthy THEN ListPlacements(v) ELSE {}))
      BY <2>7 DEF FinishRollout
    <3>2. (IF healthy THEN ListPlacements(v) ELSE {}) \in SUBSET Server
      BY DEF ListPlacements
    <3> QED BY <3>1, <3>2, TurnsToTell
  <2>8. ASSUME NEW v \in Version, NEW previous \in Version, Rollback(r, v, previous)
        PROVE  RequestsOK' /\ RequestsKnown'
    <3>1. PICK s \in ListPlacements(previous) : Turns(r, Telling(s))
      BY <2>8 DEF Rollback
    <3>2. s \in Server
      BY DEF ListPlacements
    <3> QED BY <3>1, <3>2, TurnsTelling
  <2> QED BY <1>5, <2>2, <2>3, <2>4, <2>5, <2>6, <2>7, <2>8 DEF DeployStep
<1>6. ASSUME ReachStep PROVE RequestsOK' /\ RequestsKnown'
  BY <1>6, ReachKnown
<1>7. CASE UNCHANGED projectVars
  BY <1>0, <1>7 DEF projectVars
<1> QED BY <1>1, <1>2, <1>3, <1>4, <1>5, <1>6, <1>7 DEF ProjectsNext

\* What holds of the data, with what the requests and the rows know of it.
TypeInvariant == ProjectsTypeOK /\ RequestsKnown /\ RowsKnown

LEMMA TypeInvariantInit == ProjectsInit => TypeInvariant
<1> SUFFICES ASSUME ProjectsInit PROVE TypeInvariant
  OBVIOUS
<1> USE DEF ProjectsInit, Unmade, Unnamed
<1>1. PlaceOK
  BY DEF PlaceOK
<1>2. VersionsOK /\ NamesOK
  BY DEF VersionsOK, VersionStatus, NamesOK
<1>3. ServersOK
  BY NothingType DEF ServersOK
<1>4. CodeOK /\ HungUpOK
  <2>1. CodeOK
    BY Zenon DEF CodeOK
  <2>2. HungUpOK
    BY DEF HungUpOK
  <2> QED BY <2>1, <2>2
<1>5. RequestsOK /\ RequestsKnown
  BY ToTellType DEF RequestsOK, RequestsKnown, Idle, At
<1>6. NothingLeft /\ RowsKnown
  BY DEF NothingLeft, RowsKnown, Exists
<1> QED BY <1>1, <1>2, <1>3, <1>4, <1>5, <1>6 DEF TypeInvariant, ProjectsTypeOK

LEMMA TypeInvariantStep == TypeInvariant /\ [ProjectsNext]_projectVars => TypeInvariant'
<1> SUFFICES ASSUME TypeInvariant, [ProjectsNext]_projectVars PROVE TypeInvariant'
  OBVIOUS
<1> USE DEF TypeInvariant
<1>1. ProjectsTypeOK /\ RequestsKnown /\ RowsKnown
  OBVIOUS
<1>2. PlaceOK /\ VersionsOK /\ NamesOK /\ CodeOK /\ ServersOK /\ HungUpOK /\ RequestsOK /\ NothingLeft
  BY <1>1 DEF ProjectsTypeOK
<1>3. PlaceOK'
  BY <1>2, PlaceKept
<1>4. VersionsOK'
  BY <1>1, <1>2, VersionsKept
<1>5. NamesOK'
  BY <1>1, <1>2, NamesKept
<1>6. CodeOK'
  BY <1>2, CodeKept
<1>7. ServersOK'
  BY <1>1, <1>2, ServersKept
<1>8. HungUpOK'
  BY <1>1, <1>2, HungUpKept
<1>9. NothingLeft'
  BY <1>1, NothingKept
<1>10. RowsKnown'
  BY <1>1, <1>2, RowsKept
<1>11. RequestsOK' /\ RequestsKnown'
  BY <1>1, <1>2, RequestsKept
<1> QED BY <1>3, <1>4, <1>5, <1>6, <1>7, <1>8, <1>9, <1>10, <1>11 DEF ProjectsTypeOK

\* What a request has read before it acts on it is of the kind it acts on, and a hostname in
\* use is an environment's, through every order of requests, deletions and disconnections.
THEOREM ProjectsInvariant == ProjectsSpec => []TypeInvariant
BY TypeInvariantInit, TypeInvariantStep, PTL DEF ProjectsSpec

\* Every row is of a project, an environment and a server that are there, though a deployment
\* is recorded of what an earlier transaction read: the foreign keys of RecordDeploy.
THEOREM ProjectsTypeCorrect == ProjectsSpec => []ProjectsTypeOK
BY ProjectsInvariant, PTL DEF TypeInvariant

LEMMA ToTellPoint ==
    ASSUME NEW placed
    PROVE  ToTell(placed).pc \in {"idle", "reconcile"} /\ Idle.pc = "idle"
BY DEF ToTell, Idle, Telling, At

\* Where one step of a request may take it.
LEMMA NameTurns ==
    ASSUME NEW r \in Request, NameStep(r)
    PROVE  /\ request[r].pc # "recorded"
           /\ \/ UNCHANGED request
              \/ \E q : Turns(r, q) /\ q.pc \in {"idle", "looking", "found", "reconcile"}
<1>1. \A e, s, v, h, row : At("looking", e, s, v, h, row).pc = "looking" /\ At("found", e, s, v, h, row).pc = "found"
  BY DEF At
<1>2. \A s : Telling(s).pc = "reconcile"
  BY DEF Telling, At
<1>3. \A placed : ToTell(placed).pc \in {"idle", "reconcile"} /\ Idle.pc = "idle"
  BY ToTellPoint
<1>4. CASE \E h \in Hostname : VerifyDomain(r, h)
  BY <1>1, <1>4 DEF VerifyDomain
<1>5. CASE \E h \in Hostname : RemoveDomain(r, h)
  BY <1>3, <1>5 DEF RemoveDomain
<1>6. CASE \E yes \in BOOLEAN : PointsAt(r, yes)
  BY <1>1, <1>3, <1>6 DEF PointsAt
<1>7. CASE RecordVerified(r)
  BY <1>2, <1>3, <1>7 DEF RecordVerified
<1> QED BY <1>4, <1>5, <1>6, <1>7 DEF NameStep

LEMMA AccessTurns ==
    ASSUME NEW r \in Request, AccessStep(r)
    PROVE  /\ request[r].pc # "recorded"
           /\ \E q : Turns(r, q) /\ q.pc \in {"idle", "granted", "owned"}
BY AtFields DEF AccessStep, ConnectInstallation, CreateInstallation, OwnsInstallation,
                ConnectRepositoryToProject, Idle

LEMMA DeployTurns ==
    ASSUME NEW r \in Request, DeployStep(r)
    PROVE  \E q : Turns(r, q) /\ q.pc \in {"idle", "targeted", "minted", "recorded", "reconcile"}
<1>1. \A e, s, v, h, row : /\ At("targeted", e, s, v, h, row).pc = "targeted"
                           /\ At("minted", e, s, v, h, row).pc = "minted"
                           /\ At("recorded", e, s, v, h, row).pc = "recorded"
  BY DEF At
<1>2. \A s : Telling(s).pc = "reconcile"
  BY DEF Telling, At
<1>3. \A placed : ToTell(placed).pc \in {"idle", "reconcile"} /\ Idle.pc = "idle"
  BY ToTellPoint
<1>4. CASE \E e \in Environment : DeployEnvironment(r, e) \/ DeliverPush(r, e)
  BY <1>1, <1>4 DEF DeployEnvironment, DeliverPush
<1>5. CASE MintToken(r) \/ AskBuild(r)
  BY <1>1, <1>3, <1>5 DEF MintToken, AskBuild
<1>6. CASE \E v \in Version : RecordDeploy(r, v)
  BY <1>1, <1>3, <1>6 DEF RecordDeploy
<1>7. CASE \E v \in Version : \E ok \in BOOLEAN : FinishBuild(r, v, ok)
  BY <1>3, <1>7 DEF FinishBuild
<1>8. CASE \E v \in Version : \E s \in Server, healthy \in BOOLEAN : FinishRollout(r, s, v, healthy)
  BY <1>3, <1>8 DEF FinishRollout
<1>9. CASE \E v \in Version : \E previous \in Version : Rollback(r, v, previous)
  BY <1>2, <1>9 DEF Rollback
<1> QED BY <1>4, <1>5, <1>6, <1>7, <1>8, <1>9 DEF DeployStep

\* One that connects an installation while access has been taken away is noticed.
AccessInvariant ==
    /\ AccessIsKnown
    /\ \A r \in Request : request[r].pc = "granted" /\ ~ granted => delivery \/ raced

LEMMA AccessKept ==
    ASSUME CodeOK, RequestsOK, RequestsKnown, AccessInvariant, [ProjectsNext]_projectVars
    PROVE  AccessInvariant'
<1> USE DEF AccessInvariant, AccessIsKnown, CodeOK, code, servers
<1>1. CASE Administer
  BY <1>1, AdministerFrame
<1>2. CASE Grant
  BY <1>2 DEF Grant
<1>3. CASE TakeAway
  BY <1>3 DEF TakeAway
<1>4. CASE DeliverInstallation
  BY <1>4 DEF DeliverInstallation, RevokeInstallation
<1>5. ASSUME NEW r \in Request, NameStep(r) \/ DeployStep(r) PROVE AccessInvariant'
  <2>1. UNCHANGED code
    BY <1>5, NameFrame, DeployFrame
  <2>2. UNCHANGED request \/ \E q : Turns(r, q) /\ q.pc # "granted"
    BY <1>5, NameTurns, DeployTurns
  <2> QED BY <2>1, <2>2 DEF RequestsOK, Turns
<1>6. ASSUME NEW r \in Request, AccessStep(r) PROVE AccessInvariant'
  <2> USE DEF RequestsOK, Turns
  <2>1. CASE ConnectInstallation(r)
    BY <2>1 DEF ConnectInstallation
  <2>2. CASE CreateInstallation(r)
    BY <2>2, ToTellPoint DEF CreateInstallation
  <2>3. CASE OwnsInstallation(r)
    BY <2>3, AtFields DEF OwnsInstallation
  <2>4. CASE ConnectRepositoryToProject(r)
    BY <2>4, ToTellPoint DEF ConnectRepositoryToProject
  <2> QED BY <1>6, <2>1, <2>2, <2>3, <2>4 DEF AccessStep
<1>7. CASE ReachStep
  <2>1. UNCHANGED code
    BY <1>7, ReachFrame
  <2>2. \A r \in Request : request'[r] = request[r] \/ request'[r].pc # "granted"
    BY <1>7, ReachKnown
  <2> QED BY <2>1, <2>2
<1>8. CASE UNCHANGED projectVars
  BY <1>8 DEF projectVars
<1> QED BY <1>1, <1>2, <1>3, <1>4, <1>5, <1>6, <1>7, <1>8 DEF ProjectsNext

\* Access that GitHub took away, and has said so, is not left recorded as given, unless it
\* said so while somebody was connecting it, for any number of requests.
THEOREM RevocationIsKnown == ProjectsSpec => []AccessIsKnown
<1>1. ProjectsInit => AccessInvariant
  BY DEF ProjectsInit, AccessInvariant, AccessIsKnown, Idle, At
<1>2. TypeInvariant /\ AccessInvariant /\ [ProjectsNext]_projectVars => AccessInvariant'
  BY AccessKept DEF TypeInvariant, ProjectsTypeOK
<1>3. AccessInvariant => AccessIsKnown
  BY DEF AccessInvariant
<1> QED BY <1>1, <1>2, <1>3, ProjectsInvariant, PTL DEF ProjectsSpec

\* The servers and the images of versions are kept, or lost, together.
ImagesInvariant ==
    \A v \in Version :
        version[v].image # No =>
            LET built == version[version[v].image] IN
            /\ built.status # "none"
            /\ None \in {version[v].server, built.server} \/ version[v].server = built.server

LEMMA ImagesKept ==
    ASSUME VersionsOK, RequestsOK, RequestsKnown, ImagesInvariant, [ProjectsNext]_projectVars
    PROVE  ImagesInvariant'
<1> USE DEF ImagesInvariant, VersionsOK
<1>1. CASE Administer
  <2>1. CASE Create \/ (\E s \in Server, e \in Environment : UpdateEnvironment(e, s))
                    \/ (\E h \in Hostname, e \in Environment : AddDomain(h, e))
    BY <2>1 DEF Create, UpdateEnvironment, AddDomain
  <2>2. CASE Delete
    BY <2>2 DEF Delete, DeleteProject, Gone, Exists
  <2>3. ASSUME NEW s \in Server, DeleteServer(s) PROVE ImagesInvariant'
    BY <2>3 DEF DeleteServer, DeleteServerRow
  <2> QED BY <1>1, <2>1, <2>2, <2>3 DEF Administer
<1>2. CASE Grant \/ TakeAway \/ DeliverInstallation
  BY <1>2 DEF Grant, TakeAway, DeliverInstallation
<1>3. ASSUME NEW r \in Request, NameStep(r) \/ AccessStep(r) PROVE ImagesInvariant'
  BY <1>3, NameFrame, AccessFrame
<1>4. ASSUME NEW r \in Request, DeployStep(r) PROVE ImagesInvariant'
  <2>1. CASE MintToken(r) \/ \E e \in Environment : DeployEnvironment(r, e) \/ DeliverPush(r, e)
    BY <2>1 DEF MintToken, DeployEnvironment, DeliverPush
  <2>2. CASE AskBuild(r)
    <3> DEFINE q == request[r]
    <3>1. q.version \in Version
      BY <2>2 DEF AskBuild, RequestsKnown
    <3>2. \/ UNCHANGED version
          \/ version' = [version EXCEPT ![q.version] = SetDeploymentStatus(q.version, "failed")]
          \/ version' = [version EXCEPT ![q.version] = Gone]
      BY <2>2 DEF AskBuild
    <3> HIDE DEF q
    <3>3. CASE UNCHANGED version
      BY <3>3
    <3>4. CASE version' = [version EXCEPT ![q.version] = SetDeploymentStatus(q.version, "failed")]
      <4>1. \A w \in Version : /\ version'[w].image = version[w].image
                               /\ version'[w].server = version[w].server
                               /\ version[w].status # "none" => version'[w].status # "none"
        BY <3>1, <3>4 DEF SetDeploymentStatus
      <4> QED BY <4>1
    <3>5. CASE version' = [version EXCEPT ![q.version] = Gone]
      BY <3>1, <3>5 DEF Gone
    <3> QED BY <3>2, <3>3, <3>4, <3>5
  <2>3. ASSUME NEW v \in Version, RecordDeploy(r, v) PROVE ImagesInvariant'
    <3>1. \/ UNCHANGED version
          \/ version' = [version EXCEPT ![v] = CreatePlacement(request[r].env, request[r].server, "building", No)]
      BY <2>3 DEF RecordDeploy
    <3>2. version[v].status = "none"
      BY <2>3 DEF RecordDeploy, CreateDeployment
    <3> QED BY <3>1, <3>2 DEF CreatePlacement
  <2>4. ASSUME NEW v \in Version, NEW ok \in BOOLEAN, FinishBuild(r, v, ok) PROVE ImagesInvariant'
    BY <2>4 DEF FinishBuild, SetDeploymentImage, SetDeploymentStatus
  <2>5. ASSUME NEW v \in Version, NEW s \in Server, NEW healthy \in BOOLEAN, FinishRollout(r, s, v, healthy)
        PROVE  ImagesInvariant'
    <3>1. \A w \in Version : /\ version'[w].image = version[w].image /\ version'[w].server = version[w].server
                             /\ version[w].status # "none" => version'[w].status # "none"
      BY <2>5 DEF FinishRollout, SetDeploymentStatus, SupersedePrevious
    <3> QED BY <3>1
  <2>6. ASSUME NEW v \in Version, NEW previous \in Version, Rollback(r, v, previous) PROVE ImagesInvariant'
    <3>1. PICK s \in ListPlacements(previous) :
            version' = [version EXCEPT ![v] =
              CreatePlacement(version[previous].env, s, "deploying", version[previous].image)]
      BY <2>6 DEF Rollback
    <3>2. version[v].status = "none" /\ version[previous].image # No /\ s = version[previous].server
      BY <2>6, <3>1 DEF Rollback, CreateDeployment, ListPlacements
    <3> QED BY <3>1, <3>2 DEF CreatePlacement
  <2> QED BY <1>4, <2>1, <2>2, <2>3, <2>4, <2>5, <2>6 DEF DeployStep
<1>5. CASE ReachStep
  BY <1>5, ReachFrame
<1>6. CASE UNCHANGED projectVars
  BY <1>6 DEF projectVars
<1> QED BY <1>1, <1>2, <1>3, <1>4, <1>5, <1>6 DEF ProjectsNext

\* A version runs where its image was built, over any number of rollbacks of rollbacks,
\* moves and deletions of servers.
THEOREM RollbackFindsItsImage == ProjectsSpec => []ImageIsThere
<1>1. ProjectsInit => ImagesInvariant
  BY DEF ProjectsInit, ImagesInvariant, Unmade
<1>2. TypeInvariant /\ ImagesInvariant /\ [ProjectsNext]_projectVars => ImagesInvariant'
  BY ImagesKept DEF TypeInvariant, ProjectsTypeOK
<1>3. ImagesInvariant => ImageIsThere
  BY DEF ImagesInvariant, ImageIsThere
<1> QED BY <1>1, <1>2, <1>3, ProjectsInvariant, PTL DEF ProjectsSpec

LEMMA BuildingKept ==
    ASSUME VersionsOK, RequestsOK, RequestsKnown, BuildingIsAsked, [ProjectsNext]_projectVars
    PROVE  BuildingIsAsked'
<1> USE DEF BuildingIsAsked, VersionsOK, RequestsOK, servers, hungUp
\* It is enough that no version comes to be building, and nothing that explains one goes.
<1>0. ASSUME \A v \in Version : version'[v].status = "building" => version[v].status = "building",
             \A v \in asked : v \in asked' \/ version'[v].status # "building", unasked \subseteq unasked',
             \A r \in Request : request[r].pc = "recorded" => request'[r] = request[r]
      PROVE  BuildingIsAsked'
  BY <1>0
<1>1. CASE Administer
  <2>1. CASE Create \/ (\E s \in Server, e \in Environment : UpdateEnvironment(e, s))
                    \/ (\E h \in Hostname, e \in Environment : AddDomain(h, e))
    BY <2>1 DEF Create, UpdateEnvironment, AddDomain
  <2>2. CASE Delete
    BY <2>2 DEF Delete, DeleteProject, Gone, Exists
  <2>3. ASSUME NEW s \in Server, DeleteServer(s) PROVE BuildingIsAsked'
    BY <2>3 DEF DeleteServer, DeleteServerRow
  <2> QED BY <1>1, <2>1, <2>2, <2>3 DEF Administer
<1>2. CASE Grant \/ TakeAway \/ DeliverInstallation
  BY <1>2 DEF Grant, TakeAway, DeliverInstallation
<1>3. ASSUME NEW r \in Request, NameStep(r) \/ AccessStep(r) PROVE BuildingIsAsked'
  <2>1. UNCHANGED <<version, servers, hungUp>>
    BY <1>3, NameFrame, AccessFrame
  <2>2. request[r].pc # "recorded" /\ (UNCHANGED request \/ \E q : Turns(r, q))
    BY <1>3, NameTurns, AccessTurns
  <2> QED BY <1>0, <2>1, <2>2 DEF Turns
<1>4. ASSUME NEW r \in Request, DeployStep(r) PROVE BuildingIsAsked'
  <2>1. CASE MintToken(r) \/ \E e \in Environment : DeployEnvironment(r, e) \/ DeliverPush(r, e)
    BY <2>1, <1>0 DEF MintToken, DeployEnvironment, DeliverPush, Turns
  <2>2. CASE AskBuild(r)
    <3> DEFINE q == request[r]
    <3>1. q.pc = "recorded" /\ q.version \in Version /\ UNCHANGED unasked
          /\ \A other \in Request : other # r => request'[other] = request[other]
      BY <2>2 DEF AskBuild, RequestsKnown, Turns
    <3>2. \/ asked' = asked \cup {q.version} /\ UNCHANGED version
          \/ asked' = asked /\ version'[q.version].status # "building"
             /\ \A v \in Version : v # q.version => version'[v] = version[v]
      BY <2>2, <3>1 DEF AskBuild, SetDeploymentStatus, Gone
    <3> HIDE DEF q
    <3>3. ASSUME NEW v \in Version, version'[v].status = "building"
          PROVE  v \in asked' \cup unasked'
                 \/ \E other \in Request : request'[other].pc = "recorded" /\ request'[other].version = v
      BY <3>1, <3>2, <3>3 DEF q
    <3> QED BY <3>3
  <2>3. ASSUME NEW v \in Version, RecordDeploy(r, v) PROVE BuildingIsAsked'
    <3>1. request[r].pc = "minted" /\ UNCHANGED <<asked, unasked>>
      BY <2>3 DEF RecordDeploy
    <3>2. CASE UNCHANGED version /\ Turns(r, Idle)
      BY <1>0, <3>1, <3>2 DEF Turns
    <3>3. CASE /\ \A w \in Version : w # v => version'[w] = version[w]
               /\ Turns(r, At("recorded", None, request[r].server, v, None, No))
      <4>1. request'[r].pc = "recorded" /\ request'[r].version = v
        BY <3>3, AtFields DEF Turns
      <4>2. \A other \in Request : other # r => request'[other] = request[other]
        BY <3>3 DEF Turns
      <4>3. ASSUME NEW w \in Version, w # v, version'[w].status = "building"
            PROVE  w \in asked' \cup unasked'
                   \/ \E other \in Request : request'[other].pc = "recorded" /\ request'[other].version = w
        <5>1. w \in asked \cup unasked
              \/ \E other \in Request : request[other].pc = "recorded" /\ request[other].version = w
          BY <3>3, <4>3
        <5> QED BY <3>1, <4>2, <5>1
      <4> QED BY <4>1, <4>3
    <3>4. \/ UNCHANGED version /\ Turns(r, Idle)
          \/ /\ \A w \in Version : w # v => version'[w] = version[w]
             /\ Turns(r, At("recorded", None, request[r].server, v, None, No))
      BY <2>3 DEF RecordDeploy
    <3> QED BY <3>2, <3>3, <3>4
  <2>4. ASSUME NEW v \in Version, NEW ok \in BOOLEAN, FinishBuild(r, v, ok) PROVE BuildingIsAsked'
    <3>1. request[r].pc = "idle" /\ UNCHANGED unasked /\ asked' = asked \ {v} /\ \E q : Turns(r, q)
      BY <2>4 DEF FinishBuild
    <3>2. version'[v].status # "building" /\ \A w \in Version : w # v => version'[w] = version[w]
      BY <2>4 DEF FinishBuild, SetDeploymentImage, SetDeploymentStatus, Exists
    <3> QED BY <1>0, <3>1, <3>2 DEF Turns
  <2>5. ASSUME NEW v \in Version, NEW s \in Server, NEW healthy \in BOOLEAN, FinishRollout(r, s, v, healthy)
        PROVE  BuildingIsAsked'
    <3>1. \A w \in Version : version'[w].status = "building" => version[w].status = "building"
      BY <2>5 DEF FinishRollout, SetDeploymentStatus, SupersedePrevious
    <3>2. request[r].pc = "idle" /\ UNCHANGED <<asked, unasked>> /\ \E q : Turns(r, q)
      BY <2>5 DEF FinishRollout
    <3> QED BY <1>0, <3>1, <3>2 DEF Turns
  <2>6. ASSUME NEW v \in Version, NEW previous \in Version, Rollback(r, v, previous) PROVE BuildingIsAsked'
    <3>1. \A w \in Version : version'[w].status = "building" => version[w].status = "building"
      BY <2>6 DEF Rollback, CreatePlacement
    <3>2. request[r].pc = "idle" /\ UNCHANGED <<asked, unasked>> /\ \E q : Turns(r, q)
      BY <2>6 DEF Rollback
    <3> QED BY <1>0, <3>1, <3>2 DEF Turns
  <2> QED BY <1>4, <2>1, <2>2, <2>3, <2>4, <2>5, <2>6 DEF DeployStep
<1>5. CASE ReachStep
  <2>0. UNCHANGED version
    BY <1>5, ReachFrame
  <2>1. CASE \E s \in Server : Disconnects(s) \/ \E r \in Request : Connects(r, s)
    BY <2>0, <2>1, <1>0 DEF Connects, Disconnects, Turns, Sending, At
  <2>2. CASE \E r \in Request : ReadSpec(r) \/ SendSpec(r)
    BY <2>0, <2>2, <1>0 DEF ReadSpec, SendSpec, Turns
  <2>3. ASSUME NEW r \in Request, HangUp(r) PROVE BuildingIsAsked'
    <3>1. /\ UNCHANGED asked /\ unasked \subseteq unasked'
          /\ request[r].pc = "recorded" => request[r].version \in unasked'
          /\ \A other \in Request : other # r => request'[other] = request[other]
      BY <2>3 DEF HangUp, Turns
    <3> QED BY <2>0, <3>1
  <2> QED BY <1>5, <2>1, <2>2, <2>3 DEF ReachStep
<1>6. CASE UNCHANGED projectVars
  BY <1>6 DEF projectVars
<1> QED BY <1>1, <1>2, <1>3, <1>4, <1>5, <1>6 DEF ProjectsNext

\* A version waits for a build only when its server was asked for one or is about to be, but
\* for the requests cut off between the two.
THEOREM BuildsAreAskedFor == ProjectsSpec => []BuildingIsAsked
<1>1. ProjectsInit => BuildingIsAsked
  BY DEF ProjectsInit, BuildingIsAsked, Unmade
<1>2. TypeInvariant /\ BuildingIsAsked /\ [ProjectsNext]_projectVars => BuildingIsAsked'
  BY BuildingKept DEF TypeInvariant, ProjectsTypeOK
<1> QED BY <1>1, <1>2, ProjectsInvariant, PTL DEF ProjectsSpec

\* A row is of one hostname and never comes again, even to a lookup that is still out.
RowsAreNew ==
    /\ \A h \in Hostname : domain[h].row <= rows
    /\ \A h, other \in Hostname : domain[h].row # No /\ domain[h].row = domain[other].row => h = other
    /\ \A r \in Request : request[r].pc \in {"looking", "found"} => request[r].row <= rows

\* Nothing is verified without a lookup, which was of the server its environment still has
\* unless that moved; an environment with a hostname has had a server.
Proven(h) ==
    domain[h].verified =>
        /\ domain[h].row # No
        /\ \E s \in Server : <<domain[h].row, s>> \in seen
        /\ moves[domain[h].env] # 2 /\ ServerFor(h) # None => <<domain[h].row, ServerFor(h)>> \in seen

\* A lookup that is out is of the server the environment still has.
LookedAt(q) ==
    /\ q.pc = "found" => <<q.row, q.server>> \in seen
    /\ q.pc \in {"looking", "found"} =>
         \A h \in Hostname : domain[h].row = q.row =>
            moves[domain[h].env] = 2 \/ ServerFor(h) \in {q.server, None}

NamesInvariant ==
    /\ RowsAreNew
    /\ \A e \in Environment : serverOf[e] # None => moves[e] # 0
    /\ \A h \in Hostname : domain[h].row # No => moves[domain[h].env] # 0
    /\ \A h \in Hostname : Proven(h)
    /\ \A r \in Request : LookedAt(request[r])

\* Requests that turn to nothing about hostnames leave the invariant to the names.
LEMMA OtherTurns ==
    ASSUME NamesInvariant, UNCHANGED <<place, names>>,
           \A r \in Request : request'[r] = request[r] \/ request'[r].pc \notin {"looking", "found"}
    PROVE  NamesInvariant'
<1> USE DEF place, names
<1>1. \A other \in Request : request'[other].pc \in {"looking", "found"} => request'[other] = request[other]
  OBVIOUS
<1>2. RowsAreNew'
  BY <1>1 DEF NamesInvariant, RowsAreNew
<1>3. \A h \in Hostname : Proven(h)'
  BY DEF NamesInvariant, Proven, ServerFor
<1>4. \A other \in Request : LookedAt(request[other])'
  BY <1>1 DEF NamesInvariant, LookedAt, ServerFor
<1> QED BY <1>2, <1>3, <1>4 DEF NamesInvariant

LEMMA NamesProvenAdminister ==
    ASSUME PlaceOK, NamesOK, RowsKnown, RequestsOK, RequestsKnown, NamesInvariant, Administer
    PROVE  NamesInvariant'
<1> USE DEF NamesInvariant, PlaceOK, NamesOK, RowsKnown, place, names
<1>0. UNCHANGED request
  BY AdministerFrame
<1>1. CASE Create
  BY <1>1 DEF Create, RowsAreNew, Proven, LookedAt, ServerFor
<1>2. CASE Delete
  BY <1>0, <1>2, RequestFields DEF Delete, DeleteProject, Unnamed, RowsAreNew, Proven, LookedAt, RequestsKnown
<1>3. ASSUME NEW s \in Server, DeleteServer(s) PROVE NamesInvariant'
  <2>1. UNCHANGED <<moves, names, request>>
    BY <1>3 DEF DeleteServer
  <2>2. \A e \in Environment : serverOf'[e] \in {serverOf[e], None}
    BY <1>3 DEF DeleteServer, DeleteServerRow
  <2>3. RowsAreNew'
    BY <2>1 DEF RowsAreNew
  <2>4. \A h \in Hostname : Proven(h)'
    BY <2>1, <2>2 DEF Proven, ServerFor
  <2>5. \A r \in Request : LookedAt(request[r])'
    BY <2>1, <2>2, RequestFields DEF LookedAt, ServerFor, RequestsKnown
  <2> QED BY <2>1, <2>2, <2>3, <2>4, <2>5
<1>4. ASSUME NEW s \in Server, NEW e \in Environment, UpdateEnvironment(e, s) PROVE NamesInvariant'
  <2>1. /\ UNCHANGED <<names, request>>
        /\ serverOf' = [serverOf EXCEPT ![e] = s]
        /\ moves' = [moves EXCEPT ![e] = IF moves[e] = 0 THEN 1 ELSE 2]
    BY <1>4 DEF UpdateEnvironment, SetEnvironmentServer
  <2>2. RowsAreNew'
    BY <2>1 DEF RowsAreNew
  <2>3. \A other \in Environment : moves'[other] # 0 \/ serverOf'[other] = None
    BY <2>1
  <2>4. \A h \in Hostname : domain[h].row # No =>
          \/ moves'[domain[h].env] = 2
          \/ moves'[domain[h].env] = moves[domain[h].env] /\ moves[domain[h].env] # 0 /\ ServerFor(h)' = ServerFor(h)
    BY <2>1 DEF ServerFor
  <2>5. \A h \in Hostname : Proven(h)'
    BY <2>1, <2>4 DEF Proven
  <2>6. \A r \in Request : LookedAt(request[r])'
    BY <2>1, <2>4 DEF LookedAt, RequestsKnown
  <2> QED BY <2>1, <2>2, <2>3, <2>4, <2>5, <2>6
<1>5. ASSUME NEW h \in Hostname, NEW e \in Environment, AddDomain(h, e) PROVE NamesInvariant'
  <2>1. /\ UNCHANGED <<place, seen, request>> /\ rows' = rows + 1
        /\ domain' = [domain EXCEPT ![h] = [row |-> rows + 1, env |-> e, verified |-> FALSE]]
        /\ serverOf[e] # None
    BY <1>5 DEF AddDomain, CreateDomain, GetDeployTarget
  <2>2. RowsAreNew'
    BY <2>1, RequestFields DEF RowsAreNew
  <2>3. \A other \in Hostname : other # h => domain'[other] = domain[other] /\ ServerFor(other)' = ServerFor(other)
    BY <2>1 DEF ServerFor
  <2>4. \A other \in Hostname : Proven(other)'
    BY <2>1, <2>3 DEF Proven
  <2>5. \A r \in Request : request[r].pc \in {"looking", "found"} => request[r].row # rows + 1
    BY RequestFields DEF RowsAreNew
  <2>6. \A r \in Request : LookedAt(request[r])'
    BY <2>1, <2>3, <2>5 DEF LookedAt
  <2> QED BY <2>1, <2>2, <2>3, <2>4, <2>6
<1> QED BY <1>1, <1>2, <1>3, <1>4, <1>5 DEF Administer

LEMMA NamesProvenStep ==
    ASSUME PlaceOK, NamesOK, RowsKnown, RequestsOK, RequestsKnown, NamesInvariant,
           NEW r \in Request, NameStep(r)
    PROVE  NamesInvariant'
<1> USE DEF NamesInvariant, NamesOK
<1>0. UNCHANGED <<serverOf, moves>>
  BY NameFrame DEF place
<1>1. ASSUME NEW h \in Hostname, VerifyDomain(r, h) PROVE NamesInvariant'
  <2> DEFINE q == At("looking", None, ServerFor(h), No, h, domain[h].row)
  <2>1. q.pc = "looking" /\ q.row = domain[h].row /\ q.server = ServerFor(h)
    BY AtFields
  <2>2. domain[h].row # No /\ UNCHANGED names
        /\ \A other \in Request : request'[other] = IF other = r THEN q ELSE request[other]
    BY <1>1 DEF VerifyDomain, Turns, RequestsOK
  <2> HIDE DEF q
  <2>3. RowsAreNew'
    BY <2>1, <2>2 DEF RowsAreNew, names
  <2>4. \A other \in Hostname : Proven(other)'
    BY <1>0, <2>2 DEF Proven, ServerFor, names
  <2>5. LookedAt(q)
    BY <2>1, <2>2 DEF LookedAt, RowsAreNew
  <2>6. \A other \in Request : LookedAt(request[other])'
    BY <1>0, <2>2, <2>5 DEF LookedAt, ServerFor, names
  <2> QED BY <1>0, <2>2, <2>3, <2>4, <2>6 DEF names
<1>2. ASSUME NEW h \in Hostname, RemoveDomain(r, h) PROVE NamesInvariant'
  <2>1. domain' = [domain EXCEPT ![h] = Unnamed] /\ UNCHANGED <<rows, seen>> /\ request[r].pc = "idle"
    BY <1>2 DEF RemoveDomain, DeleteDomain
  <2>2. \A other \in Request : request'[other].pc \in {"looking", "found"} => request'[other] = request[other]
    BY <1>2, ToTellPoint DEF RemoveDomain, Turns, RequestsOK
  <2>3. \A other \in Hostname : other # h => domain'[other] = domain[other] /\ ServerFor(other)' = ServerFor(other)
    BY <1>0, <2>1 DEF ServerFor
  <2>4. domain'[h].row = No /\ domain'[h].verified = FALSE
    BY <2>1 DEF Unnamed
  <2>5. RowsAreNew'
    BY <2>1, <2>2, <2>3, <2>4 DEF RowsAreNew
  <2>6. \A other \in Hostname : Proven(other)'
    BY <1>0, <2>1, <2>3, <2>4 DEF Proven
  <2>7. \A other \in Request : LookedAt(request[other])'
    BY <1>0, <2>1, <2>2, <2>3, <2>4 DEF LookedAt, RequestsKnown
  <2> QED BY <1>0, <2>3, <2>4, <2>5, <2>6, <2>7
<1>3. ASSUME NEW yes \in BOOLEAN, PointsAt(r, yes) PROVE NamesInvariant'
  <2> DEFINE p == request[r]
             q == At("found", None, p.server, No, p.host, p.row)
  <2>1. p.pc = "looking" /\ UNCHANGED <<domain, rows>> /\ seen \subseteq seen'
    BY <1>3 DEF PointsAt
  <2>2. q.pc = "found" /\ q.row = p.row /\ q.server = p.server /\ Idle.pc = "idle"
    BY AtFields, ToTellPoint
  <2>3. \/ /\ \A other \in Request : request'[other] = IF other = r THEN q ELSE request[other]
           /\ <<p.row, p.server>> \in seen'
        \/ \A other \in Request : request'[other] = IF other = r THEN Idle ELSE request[other]
    BY <1>3 DEF PointsAt, Turns, RequestsOK
  <2> HIDE DEF p, q
  <2>4. RowsAreNew'
    BY <2>1, <2>2, <2>3 DEF RowsAreNew, p
  <2>5. \A h \in Hostname : Proven(h)'
    BY <1>0, <2>1 DEF Proven, ServerFor
  <2>6. \A other \in Request : LookedAt(request[other])'
    <3>1. ASSUME NEW other \in Request, request'[other] = request[other] PROVE LookedAt(request[other])'
      BY <1>0, <2>1, <3>1 DEF LookedAt, ServerFor
    <3>2. ASSUME request'[r] = q, <<p.row, p.server>> \in seen' PROVE LookedAt(request[r])'
      <4>1. LookedAt(p)
        BY DEF p
      <4>2. \A h \in Hostname : domain[h].row = p.row =>
               moves[domain[h].env] = 2 \/ ServerFor(h) \in {p.server, None}
        BY <2>1, <4>1 DEF LookedAt
      <4>3. \A h \in Hostname : domain'[h].row = p.row =>
               moves'[domain'[h].env] = 2 \/ ServerFor(h)' \in {p.server, None}
        BY <1>0, <2>1, <4>2 DEF ServerFor
      <4> QED BY <2>2, <3>2, <4>3 DEF LookedAt
    <3>3. ASSUME request'[r] = Idle PROVE LookedAt(request[r])'
      BY <2>2, <3>3 DEF LookedAt
    <3> QED BY <2>3, <3>1, <3>2, <3>3
  <2> QED BY <1>0, <2>1, <2>4, <2>5, <2>6
<1>4. CASE RecordVerified(r)
  <2> DEFINE q == request[r]
  <2>1. q.pc = "found" /\ UNCHANGED <<rows, seen>> /\ q.row # No
    BY <1>4 DEF RecordVerified, RequestsKnown
  <2>2. \A other \in Request : request'[other].pc \in {"looking", "found"} => request'[other] = request[other]
    <3>1. PICK t : t.pc \notin {"looking", "found"} /\ request' = [request EXCEPT ![r] = t]
      <4>1. Idle.pc = "idle" /\ Telling(q.server).pc = "reconcile"
        BY ToTellPoint, AtFields DEF Telling
      <4>2. \/ request' = [request EXCEPT ![r] = Idle]
            \/ request' = [request EXCEPT ![r] = Telling(q.server)]
        BY <1>4 DEF RecordVerified, Turns
      <4> QED BY <4>1, <4>2
    <3> QED BY <3>1 DEF RequestsOK
  <2>3. \A h \in Hostname : /\ domain'[h].row = domain[h].row /\ domain'[h].env = domain[h].env
                            /\ domain[h].row # q.row => domain'[h].verified = domain[h].verified
    BY <1>4 DEF RecordVerified, MarkDomainVerified
  <2>4. \A h \in Hostname : ServerFor(h)' = ServerFor(h)
    BY <1>0, <2>3 DEF ServerFor
  <2>5. LookedAt(q) /\ q.server \in Server
    BY <2>1 DEF RequestsKnown
  <2> HIDE DEF q
  <2>6. RowsAreNew'
    BY <2>1, <2>2, <2>3 DEF RowsAreNew
  <2>7. ASSUME NEW h \in Hostname PROVE Proven(h)'
    <3>1. CASE domain[h].row = q.row
      BY <1>0, <2>1, <2>3, <2>4, <2>5, <3>1 DEF Proven, LookedAt
    <3>2. CASE domain[h].row # q.row
      BY <1>0, <2>1, <2>3, <2>4, <3>2 DEF Proven
    <3> QED BY <3>1, <3>2
  <2>8. \A other \in Request : LookedAt(request[other])'
    BY <1>0, <2>1, <2>2, <2>3, <2>4 DEF LookedAt
  <2> QED BY <1>0, <2>3, <2>6, <2>7, <2>8
<1> QED BY <1>1, <1>2, <1>3, <1>4 DEF NameStep

LEMMA NamesProvenKept ==
    ASSUME PlaceOK, NamesOK, RowsKnown, RequestsOK, RequestsKnown, NamesInvariant, [ProjectsNext]_projectVars
    PROVE  NamesInvariant'
<1>0. ASSUME UNCHANGED <<place, names, request>> PROVE NamesInvariant'
  BY <1>0 DEF place, names, NamesInvariant, RowsAreNew, Proven, LookedAt, ServerFor
<1>1. CASE Administer
  BY <1>1, NamesProvenAdminister
<1>2. CASE Grant \/ TakeAway \/ DeliverInstallation
  BY <1>0, <1>2 DEF Grant, TakeAway, DeliverInstallation
<1>3. ASSUME NEW r \in Request, NameStep(r) PROVE NamesInvariant'
  BY <1>3, NamesProvenStep
<1>4. ASSUME NEW r \in Request, AccessStep(r) \/ DeployStep(r) PROVE NamesInvariant'
  <2>1. UNCHANGED <<place, names>>
    BY <1>4, AccessFrame, DeployFrame
  <2>2. \E q : Turns(r, q) /\ q.pc \notin {"looking", "found"}
    BY <1>4, AccessTurns, DeployTurns
  <2>3. \A other \in Request : request'[other] = request[other] \/ request'[other].pc \notin {"looking", "found"}
    BY <2>2 DEF Turns, RequestsOK
  <2> QED BY <2>1, <2>3, OtherTurns
<1>5. CASE ReachStep
  <2>1. UNCHANGED <<place, names>>
    BY <1>5, ReachFrame
  <2>2. \A r \in Request : request'[r] = request[r] \/ request'[r].pc \notin {"looking", "found"}
    BY <1>5, ReachKnown
  <2> QED BY <2>1, <2>2, OtherTurns
<1>6. CASE UNCHANGED projectVars
  BY <1>0, <1>6 DEF projectVars
<1> QED BY <1>1, <1>2, <1>3, <1>4, <1>5, <1>6 DEF ProjectsNext

LEMMA ProvenNames ==
    ASSUME PlaceOK, RowsKnown, NamesInvariant
    PROVE  NamesAreProven
<1> SUFFICES ASSUME NEW h \in Hostname
             PROVE  /\ Allow(h) => \E s \in Server : <<domain[h].row, s>> \in seen
                    /\ \A s \in Server : SpecFor(s).route[h] # No =>
                         <<domain[h].row, s>> \in seen \/ moves[domain[h].env] = 2
  BY DEF NamesAreProven
<1>1. Proven(h)
  BY DEF NamesInvariant
<1>2. Allow(h) => \E s \in Server : <<domain[h].row, s>> \in seen
  BY <1>1 DEF Allow, Proven
<1>3. ASSUME NEW s \in Server, SpecFor(s).route[h] # No
      PROVE  <<domain[h].row, s>> \in seen \/ moves[domain[h].env] = 2
  <2>1. h \in ListDomainsForServer(s)
    BY <1>3 DEF SpecFor
  <2>2. domain[h].verified /\ ServerFor(h) = s /\ s # None
    BY <2>1 DEF ListDomainsForServer
  <2> QED BY <1>1, <2>2 DEF Proven
<1> QED BY <1>2, <1>3

\* No traffic is sent and no certificate given for a hostname before a lookup for that very
\* row has shown where it points, for any number of hostnames and requests.
THEOREM HostnamesAreProven == ProjectsSpec => []NamesAreProven
<1>1. ProjectsInit => NamesInvariant
  BY DEF ProjectsInit, NamesInvariant, RowsAreNew, Proven, LookedAt, Unnamed, Idle, At
<1>2. TypeInvariant /\ NamesInvariant /\ [ProjectsNext]_projectVars => NamesInvariant'
  BY NamesProvenKept DEF TypeInvariant, ProjectsTypeOK
<1>3. TypeInvariant /\ NamesInvariant => NamesAreProven
  BY ProvenNames DEF TypeInvariant, ProjectsTypeOK
<1> QED BY <1>1, <1>2, <1>3, ProjectsInvariant, PTL DEF ProjectsSpec

=============================================================================
