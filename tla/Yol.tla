--------------------------------- MODULE Yol ---------------------------------
(****************************************************************************)
(* A deploy from end to end: the control plane's record of deployments, one *)
(* customer server's agent, and the connection between them.                *)
(*                                                                          *)
(* On the control plane a goroutine serves each connection and others       *)
(* handle the requests to deploy, to roll back, and to verify or remove a   *)
(* hostname.  All of these but deploys, which ask for a build, hand the     *)
(* server its specification, which takes two steps: it is read from the     *)
(* database and, later, written to the connection.                          *)
(****************************************************************************)
EXTENDS Agent, Deployments, Sequences

CONSTANT
    MaxChanges  \* bound: how many times somebody rolls back, or has a hostname
                \* verified or removed; each member of App is deployed or rolled
                \* back to once, which bounds deploys

\* One for each connection, for each deploy or rollback and for each hostname.
Goroutine == Reader \cup App \cup Named

ASSUME GoroutinesDistinct ==
    Reader \cap App = {} /\ Reader \cap Named = {} /\ App \cap Named = {}
ASSUME ChangesCounted == MaxChanges \in Nat
\* Whatever a record may ask of a server can be sent to its agent.
ASSUME SpecsComplete == SpecType \subseteq Specs

VARIABLES
    hub,        \* the connection Hub has for this server, or None
    down,       \* messages on their way to the agent on the open connection
    up,         \* messages on their way from it
    building,   \* builds under way on the server
    sender,     \* what each goroutine of the control plane is doing
    changes,    \* how many rollbacks and changes of hostnames there have been
    order       \* history: whether specifications have been handed over in order,
                \* each read only once the one before it was written

agentButFaults == <<memory, session, pass, machine, history>>

wire    == <<hub, down, up>>
yolVars == <<agentVars, deployVars, wire, building, sender, changes, order>>

\* conn is the connection a specification will be written to, healthy and
\* unproven the outcomes of a report that are yet to be recorded.
Idle == [pc |-> "idle", conn |-> None, spec |-> NoSpec, healthy |-> {}, unproven |-> {}]

SenderState ==
    [pc : {"idle", "build", "greet", "reconcile", "send"},
     conn : Reader \cup {None}, spec : Specs \cup {NoSpec},
     healthy : SUBSET App, unproven : SUBSET App]

ApplySpec(s)   == [type |-> "applySpec", spec |-> s]
Build(d)       == [type |-> "build", deployment |-> d]
Applied(H, U)  == [type |-> "applied", healthy |-> H, unproven |-> U]
BuildResult(d, succeeded) ==
    [type |-> "buildResult", deployment |-> d, succeeded |-> succeeded]

DownMessage == {ApplySpec(s) : s \in Specs} \cup {Build(d) : d \in App}
UpMessage   == {Applied(H, U) : H \in SUBSET App, U \in SUBSET App}
                 \cup {BuildResult(d, ok) : d \in App, ok \in BOOLEAN}

YolTypeOK ==
    /\ AgentTypeOK
    /\ DeployTypeOK
    /\ hub \in Reader \cup {None}
    /\ down \in Seq(DownMessage)
    /\ up \in Seq(UpMessage)
    /\ building \subseteq App
    /\ sender \in [Goroutine -> SenderState]
    /\ changes \in 0..MaxChanges
    /\ order \in {"kept", "crossed", "mended"}

YolInit ==
    /\ AgentInit
    /\ DeployInit
    /\ hub = None /\ down = <<>> /\ up = <<>>
    /\ building = {}
    /\ sender = [g \in Goroutine |-> Idle]
    /\ changes = 0
    /\ order = "kept"

(****************************************************************************)
(* Requests to the control plane.                                           *)
(****************************************************************************)

\* Deploy, up to the end of its transaction.
Deploy(d) ==
    /\ RecordDeploy(d)
    /\ sender' = [sender EXCEPT ![d].pc = "build"]
    /\ UNCHANGED <<agentVars, wire, building, changes, order>>

\* Deploy, asking the server to build.  Writing to a connection that is gone may
\* fail or may not be noticed.
AskBuild(d) ==
    /\ sender[d].pc = "build"
    /\ sender' = [sender EXCEPT ![d] = Idle]
    /\ \/ /\ hub # None /\ hub = session
          /\ down' = Append(down, Build(d))
          /\ UNCHANGED deployVars
       \/ hub # None /\ hub # session /\ UNCHANGED <<down, deployVars>>
       \/ /\ hub = None \/ hub # session
          /\ RecordNotAsked(d) /\ UNCHANGED down
    /\ UNCHANGED <<agentVars, hub, up, building, changes, order>>

Change == changes < MaxChanges /\ changes' = changes + 1

\* Rollback, up to the end of its transaction.
Rollback(previous, d) ==
    /\ Change
    /\ RecordRollback(previous, d)
    /\ sender' = [sender EXCEPT ![d].pc = "reconcile"]
    /\ UNCHANGED <<agentVars, wire, building, order>>

\* VerifyDomain and RemoveDomain, up to the end of their transactions.
ChangeHostname(h) ==
    /\ Change
    /\ sender[h].pc = "idle"
    /\ RecordVerified(h) \/ RecordRemoved(h)
    /\ sender' = [sender EXCEPT ![h].pc = "reconcile"]
    /\ UNCHANGED <<agentVars, wire, building, order>>

(****************************************************************************)
(* Handing the server its specification: SendSpec, from serve and Reconcile.*)
(****************************************************************************)

Sending == {g \in Goroutine : sender[g].pc = "send"}

\* Read while another goroutine has one to write, either may be written last; read
\* after the others were written, this one is.
Reads(g, conn) ==
    /\ sender' = [sender EXCEPT ![g] =
                    [@ EXCEPT !.pc = "send", !.conn = conn, !.spec = SpecFor]]
    /\ order' = IF Sending # {} THEN "crossed"
                ELSE IF order = "kept" THEN "kept" ELSE "mended"

\* The connection is looked up and the specification read.  Nothing is sent to a
\* server that is not connected, and nothing when it cannot be read.
ReadSpec(g) ==
    /\ \/ sender[g].pc = "greet" /\ Reads(g, g) /\ UNCHANGED faults
       \/ sender[g].pc = "reconcile" /\ hub # None /\ Reads(g, hub) /\ UNCHANGED faults
       \/ /\ sender[g].pc = "reconcile" /\ hub = None
          /\ sender' = [sender EXCEPT ![g].pc = "idle"]
          /\ UNCHANGED <<faults, order>>
       \/ /\ sender[g].pc \in {"greet", "reconcile"}
          /\ Fault
          /\ sender' = [sender EXCEPT ![g].pc = "idle"]
          /\ UNCHANGED order
    /\ UNCHANGED <<agentButFaults, deployVars, wire, building, changes>>

\* It is signed and written, to a connection that may have ended meanwhile.
SendSpec(g) ==
    /\ sender[g].pc = "send"
    /\ down' = IF sender[g].conn = session
               THEN Append(down, ApplySpec(sender[g].spec)) ELSE down
    /\ sender' = [sender EXCEPT ![g] =
                    [@ EXCEPT !.pc = "idle", !.conn = None, !.spec = NoSpec]]
    /\ UNCHANGED <<agentVars, deployVars, hub, up, building, changes, order>>

(****************************************************************************)
(* What the agent reads and writes.                                         *)
(****************************************************************************)

\* handle, a specification.
TakeSpec(r) ==
    /\ down # <<>> /\ Head(down).type = "applySpec"
    /\ Receive(r, Head(down).spec)
    /\ down' = Tail(down)
    /\ UNCHANGED <<deployVars, hub, up, building, sender, changes, order>>

\* A variant, for the runs to refute: the mode is not looked at.
StartBuildUnpermitted(r) ==
    /\ session = r /\ pass[r].pc = "idle"
    /\ down # <<>> /\ Head(down).type = "build"
    /\ building' = building \cup {Head(down).deployment}
    /\ down' = Tail(down)
    /\ UNCHANGED <<agentVars, deployVars, hub, up, sender, changes, order>>

\* handle, a build, which goes on in a goroutine of its own.
StartBuild(r) ==
    /\ session = r /\ pass[r].pc = "idle" /\ mode = "managed"
    /\ down # <<>> /\ Head(down).type = "build"
    /\ building' = building \cup {Head(down).deployment}
    /\ down' = Tail(down)
    /\ UNCHANGED <<agentVars, deployVars, hub, up, sender, changes, order>>

\* handle, on a server that is watched: refused, and said to be.
Refuse(r) ==
    /\ session = r /\ pass[r].pc = "idle" /\ mode # "managed"
    /\ down # <<>>
    /\ down' = Tail(down)
    /\ UNCHANGED <<agentVars, deployVars, hub, up, building, sender, changes, order>>

\* A message leaves on whatever connection is open when it is written, or not at all.
Say(m) == up' = IF session # None THEN Append(up, m) ELSE up

FinishBuilding(d, succeeded) ==
    /\ d \in building
    /\ building' = building \ {d}
    /\ Say(BuildResult(d, succeeded))
    /\ UNCHANGED <<agentVars, deployVars, hub, down, sender, changes, order>>

\* Variants: what was started is reported, heard from or not; only good news is sent.
ReportPassStarted(p) ==
    /\ Report(p)
    /\ Say(Applied(pass[p].started, pass[p].unproven))
    /\ UNCHANGED <<deployVars, hub, down, building, sender, changes, order>>

ReportPassProven(p) ==
    /\ Report(p)
    /\ IF Reported(p) /\ pass[p].healthy # {}
       THEN Say(Applied(pass[p].healthy, pass[p].unproven))
       ELSE UNCHANGED up
    /\ UNCHANGED <<deployVars, hub, down, building, sender, changes, order>>

\* A report.  Only the outcomes of rollouts change anything on the other side.
ReportPass(p) ==
    /\ Report(p)
    /\ IF Reported(p) /\ pass[p].healthy \cup pass[p].unproven # {}
       THEN Say(Applied(pass[p].healthy, pass[p].unproven))
       ELSE UNCHANGED up
    /\ UNCHANGED <<deployVars, hub, down, building, sender, changes, order>>

(****************************************************************************)
(* What the control plane reads.  A connection's messages are handled in    *)
(* turn by the goroutine serving it.                                        *)
(****************************************************************************)
Listening(r) ==
    /\ sender[r].pc = "idle" /\ sender[r].healthy \cup sender[r].unproven = {}

\* A transaction that does not commit is logged, and what it was to record is lost.
NotRecorded == Fault /\ UNCHANGED deployVars

\* A variant: the server is not handed what was built.
TakeBuildResultOnly(r) ==
    /\ session = r /\ Listening(r)
    /\ up # <<>> /\ Head(up).type = "buildResult"
    /\ up' = Tail(up)
    /\ RecordBuild(Head(up).deployment, Head(up).succeeded)
    /\ UNCHANGED <<agentVars, hub, down, building, sender, changes, order>>

\* FinishBuild.
TakeBuildResult(r) ==
    /\ session = r /\ Listening(r)
    /\ up # <<>> /\ Head(up).type = "buildResult"
    /\ up' = Tail(up)
    /\ \/ /\ RecordBuild(Head(up).deployment, Head(up).succeeded)
          /\ sender' = [sender EXCEPT ![r].pc =
                          IF Head(up).succeeded THEN "reconcile" ELSE "idle"]
          /\ UNCHANGED faults
       \/ NotRecorded /\ UNCHANGED sender
    /\ UNCHANGED <<agentButFaults, hub, down, building, changes, order>>

\* handle, a report: each of its outcomes is recorded in turn.
TakeApplied(r) ==
    /\ session = r /\ Listening(r)
    /\ up # <<>> /\ Head(up).type = "applied"
    /\ up' = Tail(up)
    /\ sender' = [sender EXCEPT ![r].healthy = Head(up).healthy,
                                ![r].unproven = Head(up).unproven]
    /\ UNCHANGED <<agentVars, deployVars, hub, down, building, changes, order>>

\* A variant: an outcome is an answer, whichever it was.
FinishRolloutAnyhow(r, d) ==
    /\ sender[r].pc = "idle"
    /\ d \in sender[r].healthy \cup sender[r].unproven
    /\ RecordRollout(d, TRUE)
    /\ sender' = [sender EXCEPT ![r].healthy = @ \ {d}, ![r].unproven = @ \ {d},
                                ![r].pc = "reconcile"]
    /\ UNCHANGED <<agentVars, wire, building, changes, order>>

\* FinishRollout.  A version that did not answer sends the server nothing.
FinishRollout(r, d) ==
    /\ sender[r].pc = "idle"
    /\ \/ /\ d \in sender[r].healthy
          /\ RecordRollout(d, TRUE)
          /\ sender' = [sender EXCEPT ![r].healthy = @ \ {d}, ![r].pc = "reconcile"]
          /\ UNCHANGED faults
       \/ /\ d \in sender[r].unproven
          /\ RecordRollout(d, FALSE)
          /\ sender' = [sender EXCEPT ![r].unproven = @ \ {d}]
          /\ UNCHANGED faults
       \/ /\ d \in sender[r].healthy \cup sender[r].unproven
          /\ NotRecorded
          /\ sender' = [sender EXCEPT ![r].healthy = @ \ {d}, ![r].unproven = @ \ {d}]
    /\ UNCHANGED <<agentButFaults, wire, building, changes, order>>

(****************************************************************************)
(* Connections and processes that come and go.                              *)
(****************************************************************************)

\* connect and serve, session: the agent is greeted, the hub forgets the connection
\* it had, and the server is sent its specification whatever it already has.
Attach(r) ==
    /\ Connect(r)
    /\ sender[r] = Idle
    /\ hub' = r
    /\ sender' = [sender EXCEPT ![r].pc = "greet"]
    /\ UNCHANGED <<deployVars, down, up, building, changes, order>>

\* A connection ends and takes what was on it.  The control plane finds out later.
Detach ==
    /\ Disconnect
    /\ down' = <<>> /\ up' = <<>>
    /\ UNCHANGED <<deployVars, hub, building, sender, changes, order>>

\* serve, the end: the hub forgets a connection unless it has a newer one.
Forget(r) ==
    /\ hub = r /\ session # r /\ Listening(r)
    /\ hub' = None
    /\ UNCHANGED <<agentVars, deployVars, down, up, building, sender, changes, order>>

\* The agent's process starts again; builds and what was on the connection are lost.
AgentRestart ==
    /\ Restart
    /\ down' = <<>> /\ up' = <<>> /\ building' = {}
    /\ UNCHANGED <<deployVars, hub, sender, changes, order>>

\* The control plane's process starts again.
ServerRestart ==
    /\ Fault
    /\ session' = None /\ hub' = None /\ down' = <<>> /\ up' = <<>>
    /\ sender' = [g \in Goroutine |-> Idle]
    /\ UNCHANGED <<memory, pass, machine, history, deployVars, building, changes, order>>

AgentProceeds ==
    /\ \/ \E p \in Pass : PassStep(p)
       \/ MachineStep
    /\ UNCHANGED <<deployVars, wire, building, sender, changes, order>>

YolNext ==
    \/ \E d \in App : Deploy(d) \/ AskBuild(d)
    \/ \E previous, d \in App : Rollback(previous, d)
    \/ \E h \in Named : ChangeHostname(h)
    \/ \E g \in Goroutine : ReadSpec(g) \/ SendSpec(g)
    \/ \E r \in Reader : \/ TakeSpec(r) \/ StartBuild(r) \/ Refuse(r)
                         \/ TakeBuildResult(r) \/ TakeApplied(r)
                         \/ Attach(r) \/ Forget(r)
    \/ \E r \in Reader, d \in App : FinishRollout(r, d)
    \/ \E d \in App, succeeded \in BOOLEAN : FinishBuilding(d, succeeded)
    \/ \E p \in Pass : ReportPass(p)
    \/ Detach \/ AgentRestart \/ ServerRestart
    \/ AgentProceeds

YolSpec == YolInit /\ [][YolNext]_yolVars

\* Goroutines of the control plane and the agent run, builds end, connections are
\* made again, and the control plane notices one that ended.  Nobody has to deploy.
\* Beginning a pass is strongly fair because only the bound on overlaps ever keeps
\* one waiting.
SenderStep(g) ==
    \/ g \in App /\ AskBuild(g)
    \/ ReadSpec(g) \/ SendSpec(g)
    \/ g \in Reader /\ (TakeBuildResult(g) \/ TakeApplied(g) \/ \E d \in App : FinishRollout(g, d))

YolFairness ==
    /\ \A g \in Goroutine : WF_yolVars(SenderStep(g))
    /\ \A r \in Reader : WF_yolVars(TakeSpec(r) \/ StartBuild(r) \/ Refuse(r))
    /\ \A d \in App : WF_yolVars(\E succeeded \in BOOLEAN : FinishBuilding(d, succeeded))
    /\ \A p \in Pass : /\ WF_yolVars((PassStep(p) /\ AgentProceeds) \/ ReportPass(p))
                       /\ SF_yolVars(Begin(p) /\ AgentProceeds)
    /\ WF_yolVars(\E r \in Reader : Attach(r))
    /\ \A r \in Reader : WF_yolVars(Forget(r))

FairYolSpec == YolSpec /\ YolFairness

(****************************************************************************)
(* What the system gets right.                                              *)
(****************************************************************************)

\* A version is recorded as live, and superseded only from there, after it answered
\* a health check on the server, through every report that is lost, repeated or late
\* (deploy/builds.go FinishRollout, "records whether a version began serving").
LiveHasAnswered ==
    \A d \in App : status[d] \in {"live", "superseded"} => d \in answered

\* Nothing runs, or is asked to run, before it was built (SpecFor, "built nothing yet,
\* so there is nothing to run").
NothingUnbuiltRuns == \A d \in App : docker[d] # "absent" => image[d]

\* A server that is only watched is left as it was, whatever the control plane comes
\* to ask of it (agent.go permits, "Watch-only is decided here rather than by trusting
\* the control plane to send only permitted instructions").
WatchedIsUntouched ==
    ServerMode = "watch" =>
        /\ building = {} /\ held = NoSpec
        /\ \A c \in Owned : docker[c] = "absent"

\* Deploys and rollbacks keep the service up: while a version of it is live, one that has
\* answered is running (reconcile.go apply, "The order is the whole of what makes a deploy
\* free of dropped requests"), as long as nothing fails, passes take turns and no
\* specification is read while another is being handed over.
NeverDark ==
    faults = 0 /\ overlaps = 0 /\ order = "kept" =>
        \A s \in Service :
            (\E d \in App : ServiceOf[d] = s /\ status[d] = "live") =>
                \E d \in answered : ServiceOf[d] = s /\ docker[d] = "running"

\* While nothing fails on a managed server, whoever waits is waited for: the order to
\* build a version is on its way or being carried out, or the result is on its way back
\* (agent/build.go startBuild); a version that runs is being listened to until it is heard
\* from or given up on (agent/reconcile.go gate); and the outcome is with the pass that has
\* it, in a message or in the hands of the goroutine that records it
\* (agent/reconcile.go reconcileOnce, server/agent_handler.go handle).
NothingGoesUnheard ==
    faults = 0 /\ ServerMode = "managed" =>
        \A d \in App :
            /\ status[d] = "building" =>
                 \/ sender[d].pc = "build" \/ d \in building
                 \/ \E i \in 1..Len(down) : down[i] = Build(d)
                 \/ \E i \in 1..Len(up) : up[i].type = "buildResult" /\ up[i].deployment = d
            /\ docker[d] = "running" /\ d \notin answered \cup silent =>
                 \E p \in Pass : d \in Gating(p)
            /\ status[d] = "deploying" /\ d \in answered \cup silent =>
                 \/ \E p \in Pass : d \in pass[p].healthy \cup pass[p].unproven
                 \/ \E i \in 1..Len(up) : /\ up[i].type = "applied"
                                          /\ d \in up[i].healthy \cup up[i].unproven
                 \/ \E g \in Goroutine : d \in sender[g].healthy \cup sender[g].unproven

Arriving == {i \in 1..Len(down) : down[i].type = "applySpec"}

\* The last specification there is asks for a version: the one about to be written, or the
\* last on its way, or the one that is held.
AskedLast(d) ==
    \/ \E g \in Sending : d \in sender[g].spec.want
    \/ /\ Sending = {}
       /\ \E i \in Arriving : d \in down[i].spec.want /\ \A j \in Arriving : j <= i
    \/ /\ Sending = {} /\ Arriving = {}
       /\ held # NoSpec /\ d \in held.want

\* A version that was built and not yet tried is asked for by the last specification the
\* server is sent, or another is about to be read (deploy/builds.go FinishBuild calls
\* Reconcile).  Two that crossed may leave the server with the older one, until the next
\* that is read after both were written.
VersionsAreAsked ==
    faults = 0 /\ order # "crossed" /\ ServerMode = "managed" =>
        \A d \in App :
            status[d] = "deploying" /\ d \notin answered \cup silent =>
                \/ \E g \in Goroutine : sender[g].pc \in {"greet", "reconcile"}
                \/ AskedLast(d)

\* The live version of each service, and what the rest of the state says of Serving.
LiveOf(s) ==
    IF \E d \in App : ServiceOf[d] = s /\ status[d] = "live"
    THEN CHOOSE d \in App : ServiceOf[d] = s /\ status[d] = "live"
    ELSE None

Promise == INSTANCE Serving WITH
    Version <- App, Kind <- ServiceOf, Nobody <- None,
    live <- [s \in Service |-> LiveOf(s)], proven <- answered, failed <- silent

\* A deploy is what Serving says it is.
KeepsPromise == Promise!Spec

Settled(d) == status[d] \in {"live", "superseded", "failed"}

\* Every deployment is settled, one way or the other: no report that is made goes
\* unheard and nobody waits for one that never comes (deploy.go Deploy and
\* failDeployment, "so it does not sit as though it were still in progress"), unless
\* two specifications crossed and no other has been sent since.
Settles ==
    \A d \in App : status[d] \in {"building", "deploying"} ~> Settled(d) \/ order = "crossed"
==============================================================================
