# Yol, specified

Yol deploys apps to servers its customers own. A control plane keeps the record of
what should run where; an agent on each server makes the machine match. These
modules say what the two do between them, model-check it on small instances, and
prove parts of it for every instance.

Everything is modelled from `src/internal`. Where the text below says *the code*, the
line is in `PROJECT.json` ("map").

## 1. The system

| Component | State | Operations | Meets | Modelled |
|---|---|---|---|---|
| Desired state (`proto/spec.go`, `sign.go`) | a specification: containers, routes, router | built, signed, verified | everything | partly: Desired |
| Agent, reconciling (`agent/reconcile.go`, `health.go`) | specification held and on disk, versions given up on, containers on the machine | plan, start, gate, move traffic, drain, retire, report | docker, the router, the timer and the connection | Agent |
| Agent, connection (`agent/agent.go`, `enroll.go`) | mode, open connection, credential | enrol, connect, be greeted, handle a message, restart | the control plane | partly: Agent, Yol, Fleet, Tails |
| Agent, router (`agent/router.go`) | the router's configuration, in the router's memory | replace it whole | every pass | partly: Agent |
| Agent, builds (`agent/build.go`, `source.go`, `nixpacks.go`) | builds under way, images | build, report, prune | the connection | partly: Yol |
| Logs (`agent/logs.go`, `server/logs.go`, `logs_handler.go`) | streams on both sides | open, deliver, stop, close | the connection, a browser | Tails |
| Deployments (`deploy/*.go`) | `deployments`: status, image, order; `placements` | deploy, roll back, finish a build, finish a rollout | specifications, connections | partly: Deployments, Yol, Projects |
| Specifications (`server/spec.go`) | none; read from the record | `SpecFor`, `SendSpec` | deployments, connections | partly: Deployments, Projects |
| Connections (`server/hub.go`, `agent_handler.go`, `build.go`) | the hub: one connection per server | add, remove, send, read | agents | partly: Yol, Fleet, Tails |
| A server's life (`server/service.go`, `bootstrap_job.go`, `survey_job.go`, `agent_auth.go`) | `servers`: status, routing mode, secret, hashes of tokens | connect, survey, choose routing, set up, enrol, heartbeat, go offline, delete | jobs, connections, the machine | partly: Fleet |
| Projects (`deploy/projects.go`, `repositories.go`, `variables.go`) | projects, environments, services, repositories, variables | create, move, connect, delete | deployments, GitHub | partly: Projects |
| Ports, domains (`deploy/ports.go`, `domains.go`, `tls_handler.go`) | allocations, hostnames | allocate, release, add, verify, remove, allow a certificate | specifications, DNS | partly: Projects |
| Members (`org/service.go`, `role.go`) | memberships, invitations | invite, revoke, accept, change role, remove | - | partly: Members |
| GitHub (`github/*.go`, `deploy/github_handler.go`) | installations | push, access granted and taken away | projects | partly: Projects |
| Accounts, survey over SSH, jobs, secrets, HTTP, web | | | | no |

What is hard here:

* **Interleaving.** On the agent the timer and the goroutine reading a connection both
  run passes, nothing keeps two passes apart, and a reader outlives its connection for
  as long as it is applying. On the control plane every connection, deploy and rollback
  is a goroutine that ends by reading a specification and, later, writing it, and so is every
  request to verify or remove a hostname; every job and
  every connection writes one server's row and looks at none of what it overwrites; every
  transaction runs READ COMMITTED and locks nothing that it read.
* **Failure.** A docker command that fails may have done its work. An inventory that
  cannot be read looks empty. The router forgets its configuration when it stops. A
  report is sent once, on whatever connection is open. A write whose context is cancelled
  may close the connection under everybody.
* **Order.** A deploy is a conversation: build asked for, build reported, specification
  sent, version started and checked, outcome reported, specification sent again, traffic
  moved, old version taken away. Any of it may be late, lost or crossed by another deploy.
  So are enrolment, the verification of a hostname and the opening of a log.
* **Restarts.** A process that starts again knows what is on disk or in the database; a
  job that stopped is tried again from its beginning.

What makes each part correct:

* Agent: nothing is taken away before everything the pass started has answered and traffic has
  moved; nothing of the customer's is touched; left alone it comes to match what it was sent; a
  version given up on is left alone.
* Deployments: one live version of a service, to which a hostname goes whatever else is
  going out; nothing unbuilt is asked for or routed to.
* The whole of a deploy: what is recorded as live has answered on the machine; while
  something is live something that answered is running; every deployment ends; a watched
  server is never changed.
* A server's life: the credential on the machine is the one the control plane knows it by;
  a setup ends; a server is shown as it is.
* Projects: a hostname is served only after it was proven to be theirs; what changed is told
  to the server it is about; a rollback goes to where its image is; nothing waits for a
  build nobody was asked for; access taken away is not used.
* Members: an organization keeps an owner, an invitation admits once, and whoever becomes an
  owner is made one by an owner's request or an invitation an owner sent.
* Logs: what was stopped stays stopped, a request is released, the end of a log arrives,
  and one reader holds up no other.

The full list of what is hard to test, line by line, is "hazards" in `PROJECT.json`.

## 2. The modules

```
Desired ── Agent ──────────────────┐
   │         └ AgentProofs ──────┐ │
   └── Deployments ──────────────┼─┴── Yol ──(implements)── Serving
             └ DeploymentsProofs ┴────── └ YolProofs

Fleet ─ FleetProofs     Projects ─ ProjectsProofs ─ ToldProofs
Members ─ MembersProofs     Tails ─ TailsProofs
```

and `MC_Agent`, `MC_Deployments`, `MC_Yol`, `MC_Fleet`, `MC_Projects`, `MC_Members`,
`MC_Tails`, the instances for TLC. The upper group is a deploy, part by part and then whole.
The lower four each take another side of the system, with as much of the rest as
their properties need: Fleet what surrounds a connection, Tails what runs over one,
Projects what a deploy is told to do and where, Members who may ask.

**Desired** - what the two sides share. A container is named for its deployment
(`ContainerNameFor`), so one name stands for a deployment, its image and its container.
A specification is the set of containers listed and where each hostname goes.

**Agent** - one machine. `held`, `disk`, `mode`, `abandoned` are the agent's fields and
its file; `docker` and `routes` are the machine; `pass[p]` is what the goroutine `p` is
doing, one record per pass whose fields are the local variables of `apply` and its
`rolloutPlan`. One action per point at which another pass can get in: `Begin` and `Plan`,
each docker command (`TakeAway`, `Create`, `GateGivesUp`, `Retire`), each health check
that answers, `Sync` for the router, `Drain` for the wait, `Report`. `Receive` is
`acceptSpec` up to applying. `Connect`, `Disconnect`, `Restart` are `session` and `Run`.
docker and visitors are external and are modelled from how the agent uses them. `answered`
and `silent` record what health checks have said, for the properties only.

`Spec` leaves the control plane open: any specification may come at any time. It is what
AgentProofs is about, so what is proved there holds of the agent under any control plane.

**Deployments** - the record, one action per transaction, and `SpecFor`, the
specification worked out from it. `DeploySpec` lets reports come in any order, late and
repeated, as the code takes them.

**Yol** - both, and the connection between them. `sender[g]` is a goroutine of the control plane: of
a connection, or of a request to deploy, to roll back, or about a hostname (`ChangeHostname`).
`ReadSpec`, which may fail, and `SendSpec` are the two steps of handing over a specification.
`order` is history: "kept" until one goroutine reads while another has yet to write, "crossed" from
then, "mended" once one is read with no other being handed over. `down` and `up` are the messages on
the open connection. `hub` may lag behind `session`, since the control plane finds out later that a
connection ended.

**Serving** - what a deploy promises with nothing said of how: a version is live only
after it answered, and stops being live only when another takes over or when it has
itself failed a check. Yol implements it, with `live` read off the record and `proven`
and `failed` off the health checks.

**Fleet** - one server's row and everything that writes it. Requests (`Connect`, `ChooseRouting`,
`AskSetup` and `QueueSetup`, `Delete`); the survey job; any number of setup jobs, each with its own
place in `Bootstrapper.Run`; the goroutine of each connection from `Accept` to `Remove`, which a
panic may take past `MarkOffline` (`ReadPanics`), and which goes on when that write fails
(`MarkOfflineFails`). The machine may be deleted and connected again as a new server: `server` is
the number of the present one, and jobs, credentials and connections know which they are of (`of`,
`madeFor`, `serves`). On the other side, the machine's enrollment file, its credential file and the
agent that trades one for the other. Every write of the status is `UpdateServerStatus`, which
overwrites whatever is there. `Crash` is the control plane: it tries its jobs again and loses its
connections and the requests on them.

**Projects** - the tables behind a deploy (`environments`, `deployments` with their placements,
`domains`, `github_installations`) over several servers. The queries are operators named
as in `db/queries`; a request is a sequence of steps, `request[r].pc` saying between which
two it is: a transaction, then GitHub, a name server or a server's connection, then another
transaction that does not read the first one's rows again. A specification is read in one
step and written in another (`ReadSpec`, `SendSpec`), the goroutine of a connection being one
more request. `told[s]` is the last specification the server `s` was sent, `started[s]` what any
of them asked for, since a report may come late, and `crossed` the servers of which two were
handed over at once. How they are delivered is Yol's and what is done with them is Agent's.

**Members** - one organization. A request reads who asks (`Resolve`), checks
(`ChangeRole`, `RemoveMember`, `FindInvitation`) and writes (`UpdateMember`, `Accept`), and
other requests' statements come in between. `overlapped` records that a check was made
between another's check and its write, `byOwner` and `fromOwner` which requests an owner began
and which invitations such a request sent.

**Tails** - the streams of one server, each through four goroutines: the request at the control
plane (`reader`), the goroutine of the connection that looks up the request's channel and then
delivers (`LookUp`, `Deliver`), the agent's session that acts on instructions (`Receive`,
`StartTail`, `Stop`) and the goroutine of the tail (`ForwardLines`, `LogEnds`, `SendDone`). A
session ends in steps, `StopAll`, `ClearConn` and `CloseNow`, while its reading goroutine goes on
until the last of them. Channels hold `Buffer` chunks and the rest is dropped. What the websocket
library does with a write on a closed connection or a cancelled context is `WriteFails`, which is
external.

A definition whose comment calls it a *variant* is a plausible mistake in the code next to
the definition it replaces. The specifications do not use variants; `PROJECT.json`
("mutants") pairs each with the property that refutes it.

## 3. What is abstracted

* A container is absent, exited or running. Image, labels and ports follow from its name,
  so the only way one can differ from what is wanted (`matches`) is by not running.
* Nothing on disk but the specification, the enrollment token and the credential; nothing
  of volumes, networks, limits and environment, which no property tells apart.
* Time: a wait for a health check ends one way or the other; the drain is the wait for
  the requests being served when traffic moved, which is what its length is chosen for. A
  token or an invitation expires at any moment.
* Giving a version up and removing it are one step, since the same goroutine does both
  and nothing reads the first without the second. The greeting and joining the hub are one
  step in Yol and Tails for the same reason; in Fleet, where what happens between them
  matters, they are two.
* A report without outcomes changes nothing on the control plane and is not put on the
  connection.
* Signatures verify. Adopted containers are left out: no caller adopts one.
* `servers.mode` is never updated in the code, so it is a constant of Agent and Yol, and in
  Fleet is chosen once.
* In Deployments a hostname is verified as soon as it is added and nothing is deleted; in
  Projects it is not, and projects and servers are.
* In Projects one environment holds one app, and a deployment has one placement, as the code
  creates them.
* Tokens and credentials are numbers, each issued once, and are known by their hash.
* A log's lines are batches, and of a chunk only whether it is the last is kept.

Everything that goes wrong in Agent and Yol - a docker command, an inventory, a save, a connection,
either process, a container, a transaction - takes one of `MaxFaults`; in Fleet a job out of time, a
crash, the end of a connection that is not recorded and connecting the machine again each do, and
connections fail and agents restart as often as they like; in Projects what is deleted, disconnected
or cut off takes one of `MaxUpsets`; in Tails each of `MaxConns` connections may be lost and
`MaxAway` browsers leave.

## 4. The runs

| Run | Instance | Shows |
|---|---|---|
| `agent_overlap` | 3 goroutines, old and new version, router, a container of the customer's; 1 overlap, 1 failure | type; nothing is taken away before what the pass started answered; the customer's container is left alone; the machine comes to match |
| `agent_serial` | 2 goroutines, a visitor's request, 2 failures | once specifications stop coming the machine matches; what was given up on is not started again |
| `deployments_record` | 2 apps, 2 versions each, 3 hostnames | type; one live version; routes go to what is asked for, built, and the hostname's own; a hostname goes to its live version |
| `yol_safe` | 2 versions, 2 connections, 1 rollback, 1 failure | type; live means answered; nothing unbuilt runs; implements Serving |
| `yol_settles` | 2 versions, a hostname, 1 rollback or request about the hostname, nothing failing | what is waited for is on its way; what was built is asked for; while one is live, one that answered is running; every deployment ends |
| `yol_watched` | a watched server, 2 connections, 1 overlap, 2 failures | it is never changed |
| `members` | 3 people, 3 roles, 2 invitations, 2 requests | type; an owner remains and an invitation admits once unless checks and writes overlap; owners come from owners |
| `fleet` | 1 setup, 2 tokens, 2 enrolments, 2 connections; 1 time-out, crash, unrecorded end or second server | type; the credential kept is the one known; a status that passes has somebody to change it; a setup ends; shown online, shown offline |
| `projects` | 2 servers, an environment, a hostname, 2 requests, 3 versions and rows in all, 1 thing taken away | type; hostnames proven, changes told, images there, builds asked for, access known |
| `tails` | 2 requests for logs, 2 connections, 1 browser gone, 1 batch of lines, channels of 1 | type; stopped stays stopped; a session takes its tails along; requests released; last chunk arrives |

and two that TLC refutes, a line of the repository's own text against what its code does
("findings" in `PROJECT.json`):

| Run | Says | Does |
|---|---|---|
| `agent_failures` | "Nothing at all is removed on a pass where something failed to come up" (`agent/reconcile.go:66`) | a container that could not be started goes to `Failures`; only one that ran and did not answer holds removals back, so the old version goes with nothing in its place |
| `members_owners` | `guardLastOwner` refuses changes that would leave an organization with no owner (`org/service.go:497`) | two owners who remove or demote each other at once are each counted while the other is still there |

### What the properties leave out, and why

Where a property has an exception, the exception is a thing the code does. They are worth
a reader's attention:

* A container that could not be started, and a router that could not be told, do not hold
  removals back (`agent/reconcile.go:152`): `agent_failures`. `RetiringComesLast` is what is left: a
  pass hears from all it did start first, and while nothing fails and passes take turns no
  hostname still leads to what goes.
* The pass that takes the old version away in a deploy has started nothing, so it does not
  wait for requests in flight (`agent/reconcile.go:73`, against `CHANGELOG.md:223`). No property
  says that requests finish.
* A specification restored from disk is held, but not applied before the agent is greeted, since it
  starts in watch mode (`agent/agent.go:112`, against `agent/agent.go:109`). `Converges` waits for
  the greeting.
* A second app going out takes the address's traffic from the first, whether or not it answers
  (`server/spec.go:206`, against `CHANGELOG.md:227`). `NamedTrafficIsLive` is about hostnames other
  than the address.
* Versions of specifications are not compared (`agent/agent.go:498`): one read earlier and written later
  takes the live version away, and the server is left with it until the next is sent for another
  reason. It takes no failure: a deploy crosses a rollback, a connection that opens, or a hostname
  being verified or removed (`deploy/domains.go:262`, `deploy/domains.go:294`), each of which reads
  and writes in a goroutine of its own. `NeverDark` holds with passes that take turns, nothing
  failing and no specification read while another is being handed over; `VersionsAreAsked`,
  `Settles` and, in Projects, `ToldWhatChanged` leave out a server whose last two crossed.
* A specification that cannot be read (a variable that cannot be decrypted, the database) is
  not sent, and nobody is told (`server/spec.go:262`). In Yol it is one of the things that fail.
* A machine connected again after its server was deleted has the old credential on it, which
  setting up does not replace and the agent prefers to its new token (`agent/agent.go:145`,
  `server/service.go:225`), so it stays out. `CredentialAuthenticates` says this is the only way.
* A report is sent once (`agent/reconcile.go:500`); lost, its deployment stays "deploying". `Settles`
  is checked with nothing failing, and `NothingGoesUnheard` and `VersionsAreAsked` say what holds
  until something does.
* Moving an environment, deleting it with its project, and deleting a server tell no server
  (`deploy/projects.go:247`, `deploy/projects.go:313`): what is running goes on running until the next
  specification is sent for another reason. A hostname verified before a move stays verified
  after it (`deploy/domains.go:24`). `ToldWhatChanged` and `NamesAreProven` leave out environments that
  have moved.
* After a move, a rollback goes to the server that has the image and tells that one
  only, while the hostname goes with the environment. `ImageIsThere` is the part that holds.
* A request cut off between recording a deployment and asking for its build leaves it
  "building" (`deploy/deploy.go:159`). `BuildingIsAsked` names those in `unasked`.
* A push reads its target before it deploys (`deploy/deploy.go:244`), so it may build on the server an
  environment has just left. The placement stays consistent with its image, which is
  what `ImageIsThere` asks.
* A suspension lifted at GitHub is not acted on (`deploy/deploy.go:312`): access recorded as revoked
  stays so until somebody connects it again. An installation confirmed by GitHub is written after it
  may have been taken away (`deploy/repositories.go:74`). `AccessIsKnown` is about the other
  direction, and leaves the second out as `raced`.
* A job out of time cannot record that it failed (`server/bootstrap_job.go:273`). `SetupEnds` leaves out
  time-outs and crashes.
* A panic while a chunk is delivered ends the goroutine of the connection past `MarkOffline`
  (`server/agent_handler.go:144` is not deferred), and an error of `MarkOffline` is dropped
  (`server/agent_auth.go:163`): the row stays online with nobody behind it. `StatusIsAttended` and
  the two that end in offline or a finished setup leave it out as `unmarked`.
* The survey of a server writes the routing mode and the status over what has been chosen
  since (`server/survey_job.go:224`). `ShownOnline` says a connected agent's heartbeats mend the status.
* The end of a session does not end everything that streams on it (against `agent/agent.go:364`).
  The tails' lock is released before the connection is dropped (`agent/agent.go:366`), and the
  reading goroutine may start another in between, or after. That tail follows its container with
  no connection, its stop cannot reach the agent, and it ends with the next session that does.
  `SessionEndsItsTails` is about every tail there is when a session begins to end.
* A chunk delivered to a channel that was closed after the lock was released panics, and the
  goroutine of the connection ends with it (`server/logs.go:64`). The last chunk may be what a full
  channel drops, and then the reader waits until its browser leaves. `LastChunkArrives` leaves out a
  lost connection and a reader that missed something, and `Released` is about a browser that has
  gone.

### Bounds

`Specs` in `MC_Agent` is the sequence of specifications of a deploy (old; old and new; new),
in any order and any number of times, so that deploys go forward, backward and across each
other. In `MC_Yol` it is every specification there is, and which are sent is worked out.
Two versions are enough for one to replace another and for two to go out at once with none
live; one rollback or hostname request is enough for two
specifications to cross. One overlap lets any
pass begin inside any other; two goroutines already give the timer against a reader, three
add a reader outliving its connection. In `yol_settles` one goroutine reads for the agent, since
no connection ends there. A deployment is made once each, so the number of
versions bounds the deploys. Without a bound on overlaps the messages to the agent
could queue up for ever.

`MaxOverlaps = 0` asks what would hold if passes took turns. That is how `agent_serial` and
`yol_settles` are to be read (what `yol_safe` checks is proved for any number): with `MaxOverlaps =
2` a pass planned before another gave a version up starts it again, and with `MaxOverlaps = 1` a
pass that began from an older specification takes away a version that has gone live since.

In `members`, two requests are what it takes for one to write between another's check and
its write, three people let an owner be made and both be removed, and the second invitation
lets a person come, be removed and be invited again. Roles are those that differ in what they may give.

In `fleet` one setup with two tokens is a setup that a crash makes start again, two
enrolments are one that was answered and one that arrives late, and two connections are an
old one ending beside a new. The second server is the machine connected again, with what the
first left on it. Two setups at once are out of TLC's reach with the rest in
place; `CredentialIsKnown` and `SomebodyAttends` are proved for any number of them.

In `projects` two servers let an environment move, two rows let a hostname be removed and
added while it is being looked up, two versions give a deploy and its rollback, and two
requests any pair in each other's gaps; one thing may be taken away. `MaxMade` bounds
deployments and hostname rows together, two of one and one of the other. The theorems are for
any number.

Larger instances that take longer than is convenient for every run were checked the same
way, without error: the invariants of `yol_settles` where the server has taken the address, with
one overlap (7.8 million states), and with a third version, to go out beside one that is live, and
no hostname (6.3 million); `projects` without `MaxMade` (13 million); `fleet` with secrets of both kinds
(1.2 million), and its invariants with faults and a second server counted apart (5 million).

In `tails` two streams share a connection, a channel of one is full at once, and a second
connection replaces the first.

Symmetry is used in runs without liveness properties, over what the specifications treat alike.

### Fairness

`Fairness` and `YolFairness` ask that goroutines run, that docker commands, health checks,
builds and requests end one way or the other (each has a timeout in the code), that the
agent keeps connecting (`Run` loops for ever) and that the control plane notices a
connection that ended (`readTimeout`). Weak fairness, but for `Begin` in Yol: a pass is kept
from beginning only by the bound on overlaps, which the code has not got, so strong fairness
there undoes the bound. Nothing makes anything fail, anybody deploy, or a stopped container
come back, and no outcome of a check or a build is preferred.

`FairFleetSpec` asks that a setup that was queued is run and goes on, that the goroutine of a
connection does (what ends one survey or another is not needed), and that an agent whose connection
stays open sends its heartbeats, which it does on a timer. It does not ask the machine to answer,
the agent to start, enrol or connect, or anybody to ask for anything.

`TailsFairness` asks that each of the program's own goroutines goes on, taking one step after
another: a request that has something to notice, a tail with its last chunk to send, the goroutine
of a connection, the agent's session and the one that reads for it. A browser need not read, a
container need not write or stop, and nothing makes a connection come or go.

## 5. What is proved

TLAPS proves, for every value of the constants:

* `AgentProofs`: `AgentTypeCorrect`, `RetiringIsProven` (`RetiringComesLast`), `ForeignIsUntouched`,
  for any containers, specifications and goroutines, and any number of overlaps and failures. The
  type invariant and `RetiringComesLast` are not inductive as they stand. `AgentInv` adds that a
  pass that has begun works from a specification somebody sent (`BegunHasSpec`), that `healthy`
  holds only versions that answered (`HealthyAnswered`), and that a pass waiting to take something
  away has heard from all it started (`RetiringHeardAll`). The last is settled in `Sync`: it is
  taken only when nothing is left to hear from, and goes on to retire only when `unproven` is empty.
  That traffic has moved by then (`TrafficMoved`) is kept while nothing fails and passes take turns:
  the router is told where the pass's specification leads, which is to nothing the pass removes, and
  nobody else tells it anything before the pass ends. Each action has a lemma; `PassFits` says what
  a pass must be for the other passes not to matter. `ForeignIsUntouched` follows from types: every
  set a pass works through holds containers of our own. `GivenUpIsLeftDown` is `GivenUpStaysDown`,
  which holds until passes first overlap. Its invariant, `InTurn`, is of the same form: while
  `overlaps` is 0, one pass is under way at most, and what it has yet to start nobody has given up
  on. It left that out when it planned, and only a pass that has started everything gives up on
  more.
* `DeploymentsProofs`: `DeployTypeCorrect`, `OneIsLive`, `OnlyWhatRunsIsRouted` and
  `LiveHasItsTraffic`, for any services and versions, with reports in any order and in
  either mode of server. `DeployInv` adds the types; the step that matters for `OneIsLive` is
  `RecordRollout`. The last two rest on `ServingIsPlaced`: where `SpecFor` chooses the first of
  those going out there is a first, which `OldestExists` takes from `<` being well-founded,
  and where it chooses the only service served there is one, the versions being finitely many.
  `LiveHasItsTraffic` (`NamedTrafficIsLive`) follows from `OneLive`, since a service's
  traffic goes to what is live if anything is, and from what is live having an image, or `SpecFor`
  would not list it.
  `SpecForIsSpec` says that what an agent is handed is always of the form `Agent` assumes.
* `YolProofs`: `YolTypeCorrect`, `LiveIsProven`, `OnlyTheBuiltRuns`, `WatchedIsLeft`, for any
  number of versions, connections, failures, overlaps and rollbacks. `RecordIsDeploySpec` says
  that the record, under the real agent and connections, is an execution of `DeploySpec`, so
  that everything proved in DeploymentsProofs holds of the whole. `PromiseIsKept` is the
  refinement: `YolSpec` implements `Serving!Spec`. None of it is inductive without knowing
  what is on the way. `YolInv` follows each fact from the machine to the record: a version
  that is listed, in a pass, on disk, in a message or in a goroutine, has its image; one
  that is reported healthy, at any of those places, has answered; one that is reported
  unproven has failed a check; and an order to build a version is in one place at most
  (`OrderedOnce`), or a second report of one build could take back what the first led to.
  `RecordGrounded` then says the same of the record. The invariants of Agent and Deployments
  are reused through their own lemmas. `AgentOfTheWhole` carries what AgentProofs says of the
  agent over to the whole, whose faults are not only the agent's, traffic that has moved included.
* `YolProofs`, of deploys that go well: `LitUntilTrouble` is `NeverDark`: in every behaviour
  until something fails, passes overlap or a specification is read while another is being handed
  over, for any services and versions, with any number of rollbacks, connections and changes of
  hostnames.
  What is counted only grows (`CountsGrow`), so the invariant, `CalmInv`, is conditional on nothing
  having been counted yet (`Calm`). What has answered runs for as long as what the agent holds, or the
  pass at work, asks for it (`AnsweredRun`). It could stop only by being started or checked
  again, and a version is started, and heard of, once (`TriedOnce`, `HeardOnce`, `BuiltGoesOut`).
  Between the record and the machine specifications keep their order: what a pass works on, what
  is held, what is on the way, what is about to be sent and what the record asks for each
  *follow* all those before (`SpecsInTurn`). As `Follows` has it, a later one may add what has not
  answered and drop what is known, and nothing else. So what is live, which has answered and which
  the record asks for, is held; so it runs. That they are written in the order they
  are read is what `order = "kept"` says, and is assumed: with two of them being handed over the code
  compares no versions, and either may be written first; that is why the theorem ends there.
  `OneConnection` says of a calm history that the hub's connection is the agent's, and that
  what is read or written is for it. A server that is watched never has
  anything live (`WatchedHasNoLive`).
* `YolProofs`, of deploys that come to an end: `NobodyWaitsInVain` and `TheLastSpecAsks` are the
  safety that `Settles` rests on, proved for any instance where `Settles` itself is checked on
  one. `NothingGoesUnheard` says that whoever waits has something to wait for, and holds until
  something fails, however passes overlap and specifications cross. Its invariant, `FlowInv`, is
  that the hub's connection is the agent's, which decides its mode, so that nothing is refused
  (`Connected`); that a pass reports nothing it did not start, and does not go past the gate while
  it waits (`Tidy`); that containers do not exit (`NoneExited`), so one that runs is waited for
  until it is known of (`Waiting`); and that orders, results and outcomes are only ever handed on
  (`BuildsPend`, `OutcomesGo`). `PassGoes` says once what the steps of a pass do to what it started
  and heard, and the rest is stated of that. `VersionsAreAsked` closes the gap before a version
  runs: what was built is asked for by the last specification written, or by one about to be.
  Its invariant, `AskInv`, says so except while the last two crossed, since of two goroutines the
  one that read first may write last, and again once another is read with nothing else being handed
  over. It needs `OneConnection`, and that what is going out has an image (`OutIsBuilt`), or `SpecFor`
  would leave it out. What is left to liveness is that what is on its way arrives.
* `MembersProofs`: `MembersTypeCorrect`, `OwnerIsKept`, `InvitationAdmitsOnce`,
  `OnlyOwnersMakeOwners`, for any number of people, invitations and requests. `ChecksStand` is the
  strengthening: while no checks overlapped, at most one request is between its check and
  its write, and what it checked is still so. That another owner is left follows from the
  count (`MoreThanOneOwner`), the people being finitely many. `OnlyOwnersMakeOwners` holds however
  requests overlap: whatever is about to make somebody an owner was begun by one, or is an
  invitation that such a request sent.
* `FleetProofs`: `FleetTypeCorrect`, `CredentialIsKnown` and `SomebodyAttends`, for any number of
  servers in turn, setups, tokens, enrolments and connections. `CredentialIsKnown` is that the
  agent's credential is the one known, or was made for a server before this one. A credential's hash
  could be replaced by an enrolment that comes later. `HeldIsKnown` says it cannot: once an answer
  is on its way to an agent, no request still on its way carries the token in the row, whichever
  server it was issued for. That is kept because an agent enrols only without a credential
  (`EnrolsOnce`), a token is issued once, every token that is anywhere was issued (`TokensKnown`),
  and the number of a server only grows (`Numbered`, `NumbersStay`). `SomebodyAttends` is
  `StatusIsAttended`, the safety half of `SetupEnds`, `ShownOnline` and `ShownOffline`: whatever
  order they write the row in, a server shown as being set up has a job to go on or a connection yet
  to say it is there or gone, and one shown online has a connection yet to end, those of the present
  server in either case, and until the end of a connection goes unrecorded. A job that stops because
  the agent has arrived leaves the server to the connection in the Hub, so its invariant,
  `AttendedInv`, needs that the Hub only ever has, for a server, one of its own whose goroutine has
  yet to take it out (`HubServed`).
* `ProjectsProofs`: `ProjectsTypeCorrect`, `RevocationIsKnown`, `RollbackFindsItsImage`,
  `BuildsAreAskedFor` and `HostnamesAreProven`, for any servers, environments, hostnames,
  versions and requests. The first includes what the foreign keys keep: no row of a
  project, environment or server that has gone. `RollbackFindsItsImage` needs
  that an image is known by the version that was built, over rollbacks of rollbacks.
  `HostnamesAreProven` needs that a row's number is used once and that a lookup
  still on its way is of a row that is, or was, that hostname's.
* `ToldProofs`: `ServersAreTold`, which is `ToldWhatChanged`, for any servers, environments,
  hostnames, versions and requests. `ToldOrToBe` says that whatever may come to be the last
  specification of a server, the one being written or if there is none the one that was, agrees with
  the record on what runs and where hostnames lead, or that a call of Reconcile is due. Two being
  written at once are what the property sets aside, until one is read after both. Every write is
  then one of three: it changes nothing `SpecFor` reads of that server (`ServingFirst` and what
  follows say when the version a service's traffic goes to stays the same), it leaves a request
  about to tell the server, or it fails a version or moves an environment, which the property sets
  aside. That the server told is the one whose specification changed needs `PlacedOnce`: until an
  environment moves, all of its versions, and what a request that has read its target is about to
  place, are on one server. `ToldKnown` says that what was told, or is about to be, still exists
  where it was, so that a later write cannot make it mean something else.
* `TailsProofs`: `TailsTypeCorrect`, `StoppedIsStopped`, `SessionTakesItsTails` and `EndIsAhead`, for
  any number of streams and connections. A stream's instructions travel on one connection
  (`Routed`), none before its request has asked (`AskedFirst`), the one to follow never behind
  the one to stop (`StopLast`), nor acted on after it (`NotAskedAgain`); and every tail that
  follows is registered (`Registered`), whatever session's goroutine started it, which is what lets
  the end of a session find it.
  `EndIsAhead` is the safety half of `Released` and `LastChunkArrives`: the registry holds the streams
  of the requests that have yet to end and no others, and while a request reads on a connection that
  is still open, the end of a tail that has ended is on that connection, looked up or in the
  channel, or something was dropped. It rests on one connection being open at a time, the one the
  agent writes to (`OpenIsCurrent`, `GivenMade`), on a session letting go of its own connection and
  no other (`EndedIsClosed`, `SessionIsCurrent`), and on nothing being followed before it was
  asked for (`NothingFollowed`).

Assumptions: those the modules name (`NamesDistinct`, `ModeKnown`, `DoneDistinct`,
`SpecsTyped`, `ProcessesDistinct`, `BoundsCounted`, `ServicesKnown`, `SpecsComplete`, `UsersFinite`,
`TailsAssumption` ...), each evaluated by TLC on the instances. `SpecsComplete` says that whatever
the record may ask of a server is among the specifications the agent model knows.

Only model-checked:

* Liveness: `Converges`, `Settles`, `SetupEnds`, `ShownOnline`, `ShownOffline`, `Released`,
  `LastChunkArrives`. The prover takes neither fairness nor ENABLED. Their safety halves are proved
  where they could be stated: `NothingGoesUnheard` and `VersionsAreAsked` for `Settles`,
  `StatusIsAttended` for the three of Fleet, `EndIsAhead` for the two of Tails.

Every invariant and action property that a passing run checks is stated by a theorem. Those that
stop holding say in the property itself until when they hold: `GivenUpStaysDown` until passes
overlap, `NeverDark` also until something fails or specifications cross. Without its premise, and with
the bound on what it speaks of raised, TLC shows how each is lost.

## 6. What is not modelled, and why

* **Projects**: renaming and settings, variables and the branch of an environment, which are read
  when a specification or a build is made and change nothing that a property sees;
  `SetDeploymentReplaced`, which notes beside a rollback what it stands for. **Ports**: nothing
  outside the tests allocates one.
* **Members**: renaming an organization.
* **Fleet**: what the survey finds and what each step of a setup does on the machine, which is
  one step that may fail; the events, which are only appended.
* **Tails**: the greeting is one step, connecting waits for the sessions before to be over, as `Run`
  does, and neither process restarts. A request waits for its browser if the agent's connection
  ends, which is noted above. Where lines come from and how they are split is left out. In Fleet the
  heartbeat that a connection begins with is taken to be written.
* **Images**: `pruneImages` keeps the last few images of a service (`agent/build.go:368`), while
  `Rollback` accepts any version that was built (`deploy/deployments.go:86`). A version whose image was
  pruned does not start: creating it fails, which adds to `Failures` alone, and it is tried again on
  every pass. That is the failed start of Agent, and the deployment stays "deploying".
* **Builds**: fetching the source and running the build have no state that outlives them;
  what they use of the machine is not bounded by the code and not modelled.
* **Accounts and sessions**: each operation reads or writes one session in one transaction.
* **SSH and the inventory**: parsing of command output. Agent models what is taken from it.
* **Jobs, configuration, secrets, HTTP, the database layer**: start-up, encryption and plumbing.
  Jobs are in Fleet to the extent that they run, stop and are tried again.
* **Web interface**: presentation.
