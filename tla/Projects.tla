------------------------------ MODULE Projects ------------------------------
(****************************************************************************)
(* A project's environments over several servers (internal/deploy): they    *)
(* are given servers and moved, deployed to by people and by pushes, given  *)
(* hostnames, rolled back and deleted, while access to the code comes and   *)
(* goes.                                                                    *)
(*                                                                          *)
(* A request is a few transactions with GitHub, a name server or a server's *)
(* connection in between, and what it read first it does not read again: a  *)
(* server's specification too is read first and written to it later.        *)
(* One environment holds one app, so an environment stands for its service. *)
(* What a server does with what it is told is Agent's, how that reaches it  *)
(* is Yol's: here the last specification sent to it is enough.              *)
(****************************************************************************)
EXTENDS Naturals

CONSTANTS
    Server,
    Environment,  \* those of the project
    Hostname,
    Request,      \* bound: requests, pushes, reports and new connections at once
    MaxVersions,  \* bound: deployments recorded
    MaxDomains,   \* bound: rows ever added to domains
    MaxMade,      \* bound: deployments and those rows together
    MaxUpsets,    \* bound: things taken away: a server, its connection, access, a caller
    None

ASSUME NoneIsNothing == None \notin Server \cup Environment \cup Hostname
ASSUME BoundsCounted ==
    MaxVersions \in Nat /\ MaxDomains \in Nat /\ MaxMade \in Nat /\ MaxUpsets \in Nat

Version == 1..MaxVersions  \* numbered as they are created
Row     == 1..MaxDomains
No      == 0               \* no version, no row

VARIABLES
    known,      \* servers with a row
    project,    \* "absent", "present" or, deleted, "gone"
    repository, \* whether the project has one
    serverOf,   \* environments.server_id
    moves,      \* history: 0, or 1 once an environment has had a server, or 2 another since
    version,    \* deployments, each with its one placement's server
    domain,     \* domains, by hostname, which is unique
    rows,       \* history: the rows added to domains so far
    seen,       \* history: what lookups have shown, the row each was for and the server
    granted,    \* whether GitHub gives access
    delivery,   \* whether GitHub has yet to say that it was taken away
    access,     \* github_installations: "none", "active" or "revoked"
    raced,      \* history: access was taken away while it was being recorded
    online,     \* the servers Hub has a connection to
    told,       \* the specification each server was last sent
    asked,      \* the builds servers were asked for and have said nothing of
    sending,    \* the specification a request has read and is to write
    crossed,    \* history: servers for which one was read while another had yet to be
                \* written, and none was since both were
    started,    \* history: the versions each server was ever told to run
    request,
    upsets,     \* history: of those, how many so far
    untold,     \* history: servers to be told something by a request whose caller hung up
    unasked     \* history: builds to be asked for by one

place    == <<known, project, serverOf, moves>>
names    == <<domain, rows, seen>>
code     == <<repository, granted, delivery, access, raced>>
handing  == <<sending, crossed, started>>
servers  == <<online, told, asked, handing>>
hungUp   == <<untold, unasked>>
projectVars == <<place, version, names, code, servers, request, upsets, hungUp>>

VersionStatus == {"none", "building", "deploying", "live", "superseded", "failed", "gone"}

\* image: the version whose build made the image it runs.
Unmade  == [env |-> None, status |-> "none", image |-> No, server |-> None]
Gone    == [env |-> None, status |-> "gone", image |-> No, server |-> None]
Unnamed == [row |-> No, env |-> None, verified |-> FALSE]
Nothing == [want |-> {}, route |-> [h \in Hostname |-> No]]
Spec    == [want : SUBSET Version, route : [Hostname -> Version \cup {No}]]

\* Each pc is a point between two steps of a request; the last of most are to read a
\* server's specification and to write it.
RequestState ==
    [pc : {"idle", "targeted", "minted", "recorded", "looking", "found", "granted", "owned",
           "reconcile", "sending"},
     env : Environment \cup {None}, server : Server \cup {None},
     version : Version \cup {No}, host : Hostname \cup {None}, row : Row \cup {No}]

At(pc, e, s, v, h, row) ==
    [pc |-> pc, env |-> e, server |-> s, version |-> v, host |-> h, row |-> row]
Idle       == At("idle", None, None, No, None, No)
Telling(s) == At("reconcile", None, s, No, None, No)
Sending(s) == At("sending", None, s, No, None, No)

\* GetDeployment finds it.
Exists(v) == version[v].status \notin {"none", "gone"}

PlaceOK ==
    /\ known \subseteq Server
    /\ project \in {"absent", "present", "gone"}
    /\ serverOf \in [Environment -> known \cup {None}]
    /\ moves \in [Environment -> 0..2]
VersionsOK ==
    version \in [Version -> [env : Environment \cup {None}, status : VersionStatus,
                             image : Version \cup {No}, server : known \cup {None}]]
NamesOK ==
    /\ domain \in [Hostname -> [row : Row \cup {No}, env : Environment \cup {None}, verified : BOOLEAN]]
    /\ rows \in 0..MaxDomains
    /\ seen \subseteq Row \X Server
CodeOK ==
    /\ repository \in BOOLEAN /\ granted \in BOOLEAN /\ delivery \in BOOLEAN /\ raced \in BOOLEAN
    /\ access \in {"none", "active", "revoked"}
ServersOK ==
    /\ online \subseteq Server /\ asked \subseteq Version
    /\ told \in [Server -> Spec] /\ sending \in [Request -> Spec]
    /\ crossed \subseteq Server /\ started \in [Server -> SUBSET Version]
HungUpOK == upsets \in 0..MaxUpsets /\ untold \subseteq Server /\ unasked \subseteq Version

RequestsOK == request \in [Request -> RequestState]

\* Nothing is left of a project that is not there.
NothingLeft ==
    project # "present" =>
        /\ \A e \in Environment : serverOf[e] = None
        /\ \A v \in Version : ~ Exists(v)
        /\ \A h \in Hostname : domain[h] = Unnamed

\* Every row is of a project, an environment and a server that are there.
ProjectsTypeOK ==
    PlaceOK /\ VersionsOK /\ NamesOK /\ CodeOK /\ ServersOK /\ HungUpOK /\ RequestsOK /\ NothingLeft

ProjectsInit ==
    /\ known = Server /\ online \in SUBSET Server
    /\ project = "absent" /\ repository = FALSE
    /\ serverOf = [e \in Environment |-> None] /\ moves = [e \in Environment |-> 0]
    /\ version = [v \in Version |-> Unmade]
    /\ domain = [h \in Hostname |-> Unnamed] /\ rows = 0
    /\ seen = {}
    /\ granted = FALSE /\ delivery = FALSE /\ access = "none" /\ raced = FALSE
    /\ told = [s \in Server |-> Nothing] /\ asked = {}
    /\ sending = [r \in Request |-> Nothing] /\ crossed = {}
    /\ started = [s \in Server |-> {}]
    /\ request = [r \in Request |-> Idle]
    /\ upsets = 0 /\ untold = {} /\ unasked = {}

(****************************************************************************)
(* Queries.  What one changes of a table is all of that table that changes. *)
(****************************************************************************)

GetServer(s) == s \in known

GetProject == project = "present"

\* GetDeployTarget, with a server in it.
GetDeployTarget(e) == GetProject /\ serverOf[e] # None

\* Every row of the project goes with it.
DeleteProject ==
    /\ serverOf' = [e \in Environment |-> None]
    /\ version' = [v \in Version |-> IF Exists(v) THEN Gone ELSE version[v]]
    /\ domain' = [h \in Hostname |-> Unnamed]

SetEnvironmentServer(e, s) == serverOf' = [serverOf EXCEPT ![e] = s]

SetProjectRepository == repository' = (repository \/ GetProject)

\* What was placed on a server goes with its row, as does what names it elsewhere.
DeleteServerRow(s) ==
    /\ known' = known \ {s}
    /\ serverOf' = [e \in Environment |-> IF serverOf[e] = s THEN None ELSE serverOf[e]]
    /\ version' = [v \in Version |->
                     IF version[v].server = s
                     THEN [env |-> version[v].env, status |-> version[v].status,
                           image |-> version[v].image, server |-> None]
                     ELSE version[v]]

\* GetInstallation: one that is not revoked.
GetInstallation == access = "active"

\* RevokeInstallation, of one that is recorded.
RevokeInstallation == access' = IF access = "active" THEN "revoked" ELSE access

\* Within the bound; deployments are numbered as they are created.
RoomForOne == \A v \in Version : version[v].status # "none" => v + rows < MaxMade

\* CreateDomain: a hostname is in use once.
CreateDomain(h, e) ==
    /\ domain[h].row = No /\ rows < MaxDomains /\ RoomForOne
    /\ rows' = rows + 1
    /\ domain' = [domain EXCEPT ![h] = [row |-> rows + 1, env |-> e, verified |-> FALSE]]

\* GetDomain: the hostname of a row, if it is there, and the server of its environment.
GetDomain(row) == {h \in Hostname : domain[h].row = row}
ServerFor(h)   == serverOf[domain[h].env]

DeleteDomain(h) == domain' = [domain EXCEPT ![h] = Unnamed]

\* A variant, for the runs to refute: found by its name.
MarkDomainVerifiedNamed(q) ==
    domain' = [h \in Hostname |->
                 IF h = q.host /\ domain[h].row # No
                 THEN [row |-> domain[h].row, env |-> domain[h].env, verified |-> TRUE]
                 ELSE domain[h]]

\* MarkDomainVerified, by the row's identifier.
MarkDomainVerified(q) ==
    domain' = [h \in Hostname |->
                 IF domain[h].row = q.row
                 THEN [row |-> q.row, env |-> domain[h].env, verified |-> TRUE]
                 ELSE domain[h]]

\* ListDomainsForServer: by the server of the environment, wherever it has anything.
ListDomainsForServer(s) == {h \in Hostname : domain[h].verified /\ ServerFor(h) = s}

\* CreateDeployment: the next to be created.
CreateDeployment(v) ==
    /\ version[v].status = "none" /\ \A w \in 1..v-1 : version[w].status # "none"
    /\ RoomForOne

\* CreatePlacement: where it is to run, decided once.
CreatePlacement(e, s, status, image) == [env |-> e, status |-> status, image |-> image, server |-> s]

\* ListPlacements: there is one, or none once its server is gone.
ListPlacements(v) == {s \in Server : version[v].server = s}

SetDeploymentStatus(v, status) ==
    [env |-> version[v].env, status |-> status, image |-> version[v].image, server |-> version[v].server]

\* SetDeploymentImage, of a build: the image is known by the version that was built.
SetDeploymentImage(v, status) ==
    [env |-> version[v].env, status |-> status, image |-> v, server |-> version[v].server]

\* What SupersedePreviousDeployments leaves of a version as v goes live.
SupersedePrevious(w, v) ==
    IF version[w].env = version[v].env /\ version[w].status = "live"
    THEN SetDeploymentStatus(w, "superseded")
    ELSE version[w]

\* ListLivePlacementsForServer, those with something to run.
ListLivePlacementsForServer(s) ==
    {v \in Version : /\ version[v].server = s /\ version[v].image # No
                     /\ version[v].status \in {"live", "deploying"}}

(****************************************************************************)
(* What a server is told: SpecFor.                                          *)
(****************************************************************************)

\* Where an environment's traffic goes on a server: the live version, or the first of
\* those going out there when none is.
Serving(s, e) ==
    LET placed == {v \in ListLivePlacementsForServer(s) : version[v].env = e}
        live   == {v \in placed : version[v].status = "live"}
        best   == IF live # {} THEN live ELSE placed
    IN  IF best = {} THEN No ELSE CHOOSE v \in best : \A w \in best : v <= w

SpecFor(s) ==
    [want  |-> ListLivePlacementsForServer(s),
     route |-> [h \in Hostname |-> IF h \in ListDomainsForServer(s)
                                   THEN Serving(s, domain[h].env) ELSE No]]

\* The router's question of whether it may get a certificate for a hostname.
Allow(h) == domain[h].row # No /\ domain[h].verified

Reaches(s) == GetServer(s) /\ s \in online

\* What a request that has written has yet to tell, if anybody.
ToTell(placed) == IF placed = {} THEN Idle ELSE Telling(CHOOSE s \in placed : TRUE)

Turns(r, q) == request' = [request EXCEPT ![r] = q]

Upset == upsets < MaxUpsets /\ upsets' = upsets + 1

(****************************************************************************)
(* The project, its environments and the servers.                           *)
(****************************************************************************)

Create ==
    /\ project = "absent" /\ project' = "present"
    /\ UNCHANGED <<known, serverOf, moves, version, names, code, servers, request, upsets, hungUp>>

\* Everything of the project goes with its row; no server is told.
Delete ==
    /\ GetProject /\ project' = "gone" /\ Upset
    /\ DeleteProject
    /\ UNCHANGED <<known, moves, rows, seen, code, servers, request, hungUp>>

\* The server an environment runs on, checked to be there; neither server is told.
UpdateEnvironment(e, s) ==
    /\ GetProject /\ GetServer(s) /\ serverOf[e] # s
    /\ SetEnvironmentServer(e, s)
    /\ IF moves[e] = 0
       THEN moves' = [moves EXCEPT ![e] = 1] /\ UNCHANGED upsets
       ELSE moves' = [moves EXCEPT ![e] = 2] /\ Upset
    /\ UNCHANGED <<known, project, version, names, code, servers, request, hungUp>>

\* A server is deleted from the organization, and nobody is told.
DeleteServer(s) ==
    /\ GetServer(s) /\ Upset
    /\ DeleteServerRow(s)
    /\ UNCHANGED <<project, moves, names, code, servers, request, hungUp>>

(****************************************************************************)
(* Hostnames.                                                               *)
(****************************************************************************)

AddDomain(h, e) ==
    /\ GetDeployTarget(e) /\ CreateDomain(h, e)
    /\ UNCHANGED <<place, version, seen, code, servers, request, upsets, hungUp>>

\* VerifyDomain reads the row and the server of its environment,
VerifyDomain(r, h) ==
    /\ request[r].pc = "idle" /\ domain[h].row # No /\ ServerFor(h) # None
    /\ Turns(r, At("looking", None, ServerFor(h), No, h, domain[h].row))
    /\ UNCHANGED <<place, version, names, code, servers, upsets, hungUp>>

\* asks a name server, outside any transaction,
PointsAt(r, yes) ==
    LET q == request[r] IN
    /\ q.pc = "looking"
    /\ IF yes THEN /\ seen' = seen \cup {<<q.row, q.server>>}
                   /\ Turns(r, At("found", None, q.server, No, q.host, q.row))
              ELSE Turns(r, Idle) /\ UNCHANGED seen
    /\ UNCHANGED <<place, version, domain, rows, code, servers, upsets, hungUp>>

\* and writes down what it found, if the row is still there.
RecordVerified(r) ==
    LET q == request[r] IN
    /\ q.pc = "found"
    /\ MarkDomainVerified(q)
    /\ Turns(r, IF GetDomain(q.row) = {} THEN Idle ELSE Telling(q.server))
    /\ UNCHANGED <<place, version, rows, seen, code, servers, upsets, hungUp>>

\* A variant, for the runs to refute: the row goes and its server is not told.
RemoveDomainQuietly(r, h) ==
    /\ request[r].pc = "idle" /\ domain[h].row # No
    /\ DeleteDomain(h)
    /\ UNCHANGED <<place, version, rows, seen, code, servers, request, upsets, hungUp>>

RemoveDomain(r, h) ==
    /\ request[r].pc = "idle" /\ domain[h].row # No
    /\ DeleteDomain(h)
    /\ Turns(r, ToTell({ServerFor(h)} \ {None}))
    /\ UNCHANGED <<place, version, rows, seen, code, servers, upsets, hungUp>>

(****************************************************************************)
(* Access to the code.                                                      *)
(****************************************************************************)

\* GitHub: somebody installs the app, or gives access again.
Grant ==
    /\ ~ granted /\ granted' = TRUE /\ raced' = FALSE
    /\ UNCHANGED <<place, version, names, repository, delivery, access, servers, request, upsets, hungUp>>

\* GitHub: somebody takes access away, which it says in a delivery. Bound: one on its way.
TakeAway ==
    /\ granted /\ ~ delivery /\ granted' = FALSE /\ delivery' = TRUE /\ Upset
    /\ UNCHANGED <<place, version, names, repository, access, raced, servers, request, hungUp>>

\* deliverInstallation: what gives access again it does not act on.
DeliverInstallation ==
    /\ delivery /\ delivery' = FALSE
    /\ RevokeInstallation
    /\ raced' = (raced \/ \E r \in Request : request[r].pc = "granted")
    /\ UNCHANGED <<place, version, names, repository, granted, servers, request, upsets, hungUp>>

\* A variant, for the runs to refute: what is connected is what the caller names.
ConnectInstallationUnasked(r) ==
    /\ request[r].pc = "idle" /\ Turns(r, At("granted", None, None, No, None, No))
    /\ UNCHANGED <<place, version, names, code, servers, upsets, hungUp>>

\* ConnectInstallation asks GitHub for the installation,
ConnectInstallation(r) ==
    /\ request[r].pc = "idle" /\ granted
    /\ Turns(r, At("granted", None, None, No, None, No))
    /\ UNCHANGED <<place, version, names, code, servers, upsets, hungUp>>

\* and writes it down, one that was revoked included.
CreateInstallation(r) ==
    /\ request[r].pc = "granted" /\ access' = "active" /\ Turns(r, Idle)
    /\ UNCHANGED <<place, version, names, repository, granted, delivery, raced, servers, upsets, hungUp>>

\* ConnectRepositoryToProject: the installation is looked up in a transaction of its own.
\* Bound: a project is connected once, since again leaves it connected.
OwnsInstallation(r) ==
    /\ request[r].pc = "idle" /\ GetInstallation /\ ~ repository
    /\ Turns(r, At("owned", None, None, No, None, No))
    /\ UNCHANGED <<place, version, names, code, servers, upsets, hungUp>>

ConnectRepositoryToProject(r) ==
    /\ request[r].pc = "owned" /\ Turns(r, Idle)
    /\ SetProjectRepository
    /\ UNCHANGED <<place, version, names, granted, delivery, access, raced, servers, upsets, hungUp>>

(****************************************************************************)
(* Deploying.                                                               *)
(****************************************************************************)

\* A person deploys: the target is read, then GitHub asked for the commit.
DeployEnvironment(r, e) ==
    /\ request[r].pc = "idle" /\ GetDeployTarget(e) /\ repository /\ granted
    /\ Turns(r, At("targeted", e, serverOf[e], No, None, No))
    /\ UNCHANGED <<place, version, names, code, servers, upsets, hungUp>>

\* A push deploys: find_deploy_targets reads the target, of access not known to be revoked.
DeliverPush(r, e) ==
    /\ request[r].pc = "idle" /\ GetDeployTarget(e) /\ repository /\ GetInstallation
    /\ Turns(r, At("targeted", e, serverOf[e], No, None, No))
    /\ UNCHANGED <<place, version, names, code, servers, upsets, hungUp>>

\* Deploy takes a token from GitHub,
MintToken(r) ==
    LET q == request[r] IN
    /\ q.pc = "targeted"
    /\ Turns(r, IF granted THEN At("minted", q.env, q.server, No, None, No) ELSE Idle)
    /\ UNCHANGED <<place, version, names, code, servers, upsets, hungUp>>

\* A variant, for the runs to refute: nothing refers to what it is placed on.
RecordDeployAnyhow(r, v) ==
    LET q == request[r] IN
    /\ q.pc = "minted" /\ CreateDeployment(v)
    /\ version' = [version EXCEPT ![v] = CreatePlacement(q.env, q.server, "building", No)]
    /\ Turns(r, At("recorded", None, q.server, v, None, No))
    /\ UNCHANGED <<place, names, code, servers, upsets, hungUp>>

\* records the deployment and its placement, on the server of the target, in one
\* transaction, which the service and the server have to be there for,
RecordDeploy(r, v) ==
    LET q == request[r] IN
    /\ q.pc = "minted" /\ CreateDeployment(v)
    /\ IF GetProject /\ GetServer(q.server)
       THEN /\ version' = [version EXCEPT ![v] = CreatePlacement(q.env, q.server, "building", No)]
            /\ Turns(r, At("recorded", None, q.server, v, None, No))
       ELSE Turns(r, Idle) /\ UNCHANGED version
    /\ UNCHANGED <<place, names, code, servers, upsets, hungUp>>

\* A variant, for the runs to refute: a server that is not connected is not noticed.
AskBuildBlindly(r) ==
    LET q == request[r] IN
    /\ q.pc = "recorded" /\ Turns(r, Idle)
    /\ asked' = IF q.server \in online THEN asked \cup {q.version} ELSE asked
    /\ UNCHANGED <<place, version, names, code, online, told, handing, upsets, hungUp>>

\* and asks the server for the build; failDeployment when it is not connected.
AskBuild(r) ==
    LET q == request[r] IN
    /\ q.pc = "recorded" /\ Turns(r, Idle)
    /\ IF q.server \in online
       THEN asked' = asked \cup {q.version} /\ UNCHANGED version
       ELSE /\ version' = [version EXCEPT ![q.version] =
                              IF Exists(q.version) THEN SetDeploymentStatus(q.version, "failed") ELSE Gone]
            /\ UNCHANGED asked
    /\ UNCHANGED <<place, names, code, online, told, handing, upsets, hungUp>>

\* FinishBuild: how a build that was asked for ended, of a version that may be gone.
FinishBuild(r, v, ok) ==
    /\ request[r].pc = "idle" /\ v \in asked /\ asked' = asked \ {v}
    /\ version' = [version EXCEPT ![v] =
                     IF ~ Exists(v) THEN version[v]
                     ELSE IF ok THEN SetDeploymentImage(v, "deploying")
                     ELSE SetDeploymentStatus(v, "failed")]
    /\ Turns(r, ToTell(IF ok THEN ListPlacements(v) ELSE {}))
    /\ UNCHANGED <<place, names, code, online, told, handing, upsets, hungUp>>

\* FinishRollout: a server says how a version it was told to run is doing, or was.
FinishRollout(r, s, v, healthy) ==
    /\ request[r].pc = "idle" /\ s \in online /\ v \in started[s] /\ Exists(v)
    /\ version' = [w \in Version |->
                     IF w = v THEN SetDeploymentStatus(v, IF healthy THEN "live" ELSE "failed")
                     ELSE IF healthy THEN SupersedePrevious(w, v)
                     ELSE version[w]]
    /\ Turns(r, ToTell(IF healthy THEN ListPlacements(v) ELSE {}))
    /\ UNCHANGED <<place, names, code, servers, upsets, hungUp>>

\* A variant, for the runs to refute: to where the environment runs now.
RollbackToCurrent(r, v, previous) ==
    LET w == version[previous] IN
    /\ request[r].pc = "idle" /\ CreateDeployment(v)
    /\ Exists(previous) /\ w.image # No /\ w.status # "live" /\ serverOf[w.env] # None
    /\ version' = [version EXCEPT ![v] = CreatePlacement(w.env, serverOf[w.env], "deploying", w.image)]
    /\ Turns(r, Telling(serverOf[w.env]))
    /\ UNCHANGED <<place, names, code, servers, upsets, hungUp>>

\* Rollback: the same image, on the server the previous version was placed on.
Rollback(r, v, previous) ==
    LET w == version[previous] IN
    /\ request[r].pc = "idle" /\ CreateDeployment(v)
    /\ Exists(previous) /\ w.image # No /\ w.status # "live"
    /\ \E s \in ListPlacements(previous) :
         /\ version' = [version EXCEPT ![v] = CreatePlacement(w.env, s, "deploying", w.image)]
         /\ Turns(r, Telling(s))
    /\ UNCHANGED <<place, names, code, servers, upsets, hungUp>>

(****************************************************************************)
(* Reaching servers.                                                        *)
(****************************************************************************)

\* Two requests may be between reading a server's specification and writing it, and the
\* older may be written last.
Crossing(s) == \E r \in Request : request[r] = Sending(s)

\* Reconcile looks for the connection Hub has and reads the specification to send it, which
\* wants a row.
ReadSpec(r) ==
    LET s == request[r].server IN
    /\ request[r].pc = "reconcile"
    /\ IF Reaches(s)
       THEN /\ Turns(r, Sending(s)) /\ sending' = [sending EXCEPT ![r] = SpecFor(s)]
            /\ crossed' = IF Crossing(s) THEN crossed \cup {s} ELSE crossed \ {s}
            /\ untold' = untold \ {s}
       ELSE Turns(r, Idle) /\ UNCHANGED <<sending, crossed, untold>>
    /\ UNCHANGED <<place, version, names, code, online, told, asked, started, upsets, unasked>>

\* SendSpec signs what was read and writes it, the last step of a request.
SendSpec(r) ==
    LET s == request[r].server IN
    /\ request[r].pc = "sending" /\ Turns(r, Idle)
    /\ told' = [told EXCEPT ![s] = sending[r]]
    /\ started' = [started EXCEPT ![s] = @ \cup sending[r].want]
    /\ sending' = [sending EXCEPT ![r] = Nothing]
    /\ UNCHANGED <<place, version, names, code, online, asked, crossed, upsets, hungUp>>

\* A connection's goroutine goes on to read the specification, as a request does.
Connects(r, s) ==
    /\ request[r].pc = "idle" /\ s \in known \ online
    /\ online' = online \cup {s} /\ Turns(r, Telling(s))
    /\ UNCHANGED <<place, version, names, code, told, asked, handing, upsets, hungUp>>

\* What is being written is lost with the connection.
Disconnects(s) ==
    /\ s \in online /\ online' = online \ {s} /\ Upset
    /\ request' = [r \in Request |-> IF request[r] = Sending(s) THEN Idle ELSE request[r]]
    /\ sending' = [r \in Request |-> IF request[r] = Sending(s) THEN Nothing ELSE sending[r]]
    /\ UNCHANGED <<place, version, names, code, told, asked, crossed, started, hungUp>>

\* The caller hangs up, a push's minute is over, a report's server cannot be reached or a
\* specification cannot be read, and what is left of the request fails with it: a build
\* that was not asked for and is not recorded as failed either, a server that is not told.
HangUp(r) ==
    LET q == request[r] IN
    /\ q.pc \in {"recorded", "reconcile", "sending"}
    /\ Upset /\ Turns(r, Idle)
    /\ unasked' = IF q.pc = "recorded" THEN unasked \cup {q.version} ELSE unasked
    /\ untold'  = IF q.pc = "recorded" THEN untold ELSE untold \cup {q.server}
    /\ sending' = [sending EXCEPT ![r] = Nothing]
    /\ UNCHANGED <<place, version, names, code, online, told, asked, crossed, started>>

\* What is administered in one transaction.
Administer ==
    \/ Create \/ Delete
    \/ \E s \in Server : DeleteServer(s)
    \/ \E s \in Server, e \in Environment : UpdateEnvironment(e, s)
    \/ \E h \in Hostname, e \in Environment : AddDomain(h, e)

NameStep(r) ==
    \/ \E h \in Hostname : VerifyDomain(r, h) \/ RemoveDomain(r, h)
    \/ \E yes \in BOOLEAN : PointsAt(r, yes)
    \/ RecordVerified(r)

AccessStep(r) ==
    ConnectInstallation(r) \/ CreateInstallation(r) \/ OwnsInstallation(r) \/ ConnectRepositoryToProject(r)

DeployStep(r) ==
    \/ \E e \in Environment : DeployEnvironment(r, e) \/ DeliverPush(r, e)
    \/ MintToken(r) \/ AskBuild(r)
    \/ \E v \in Version :
         \/ RecordDeploy(r, v)
         \/ \E ok \in BOOLEAN : FinishBuild(r, v, ok)
         \/ \E s \in Server, healthy \in BOOLEAN : FinishRollout(r, s, v, healthy)
         \/ \E previous \in Version : Rollback(r, v, previous)

ReachStep ==
    \/ \E s \in Server : Disconnects(s) \/ \E r \in Request : Connects(r, s)
    \/ \E r \in Request : ReadSpec(r) \/ SendSpec(r) \/ HangUp(r)

ProjectsNext ==
    \/ Administer \/ ReachStep
    \/ Grant \/ TakeAway \/ DeliverInstallation
    \/ \E r \in Request : NameStep(r) \/ AccessStep(r) \/ DeployStep(r)

ProjectsSpec == ProjectsInit /\ [][ProjectsNext]_projectVars

(****************************************************************************)
(* Properties.                                                              *)
(****************************************************************************)

\* A hostname is sent to an app only by a server a lookup for that very row has shown it to
\* point at, and gets a certificate only once one has shown it to point anywhere it was
\* to, however adding, removing and checking it overlap: VerifyDomain, SpecFor and allow.
\* A verification is kept when its environment moves, so where it then goes is left out.
NamesAreProven ==
    \A h \in Hostname :
        /\ Allow(h) => \E s \in Server : <<domain[h].row, s>> \in seen
        /\ \A s \in Server :
             SpecFor(s).route[h] # No =>
                <<domain[h].row, s>> \in seen \/ moves[domain[h].env] = 2

\* What a server was told, or is, is what the record wants of it now, as far as it concerns
\* environments that never moved; of a version that failed it need not be told.
UpToDate(s, spec) ==
    LET Failed(v) == v # No /\ version[v].status = "failed"
        Still(v)  == moves[version[v].env] < 2
    IN  /\ {v \in SpecFor(s).want : Still(v)} = {v \in spec.want : Still(v) /\ ~ Failed(v)}
        /\ \A h \in Hostname :
             \/ spec.route[h] = SpecFor(s).route[h]
             \/ Failed(spec.route[h])
             \/ spec.route[h] # No /\ ~ Still(spec.route[h])
             \/ domain[h].row # No /\ moves[domain[h].env] = 2

\* The last specification of a connected server, which is being written or was, is up to
\* date, or somebody is about to read another, or failed to: every call of Reconcile.  Two
\* that crossed may leave it with the older, until the next that is read after both were
\* written.
ToldWhatChanged ==
    \A s \in Server :
        Reaches(s) /\ GetProject =>
            \/ s \in crossed \cup untold
            \/ \E r \in Request : request[r] = Telling(s)
            \/ IF Crossing(s)
               THEN \E r \in Request : request[r] = Sending(s) /\ UpToDate(s, sending[r])
               ELSE UpToDate(s, told[s])

\* A version that runs an image was placed on the server that built it, since images stay
\* where they were built: Rollback, however the environment has moved since.
ImageIsThere ==
    \A v \in Version :
        version[v].image # No =>
            LET built == version[version[v].image] IN
            None \in {version[v].server, built.server} \/ version[v].server = built.server

\* A version is building only while its server has been asked to build it, or is about to
\* be, or the request that was about to was cut off: Deploy and failDeployment.
BuildingIsAsked ==
    \A v \in Version :
        version[v].status = "building" =>
            \/ v \in asked \cup unasked
            \/ \E r \in Request : request[r].pc = "recorded" /\ request[r].version = v

\* Access that was taken away is not left recorded as given once GitHub has said so, unless
\* it said so while somebody was connecting it: deliverInstallation and ConnectInstallation.
AccessIsKnown ==
    access = "active" /\ ~ granted => delivery \/ raced
=============================================================================
