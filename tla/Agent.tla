-------------------------------- MODULE Agent --------------------------------
(****************************************************************************)
(* The agent on one customer server: what internal/agent does to the        *)
(* machine when it is handed a specification, on its timer, and after a     *)
(* restart.                                                                 *)
(*                                                                          *)
(* A specification is applied by a pass (reconcile.go apply).  Passes are   *)
(* run by the reconcile timer and by the goroutine that reads a connection; *)
(* a reader outlives its connection while it is still applying, so several  *)
(* readers may be running.  Nothing in the code keeps two passes apart, so  *)
(* a pass here is a process and its docker commands interleave with those   *)
(* of every other pass.                                                     *)
(*                                                                          *)
(* Spec closes the agent with a control plane that may send it any          *)
(* specification at any time; module Yol composes it with the real one.     *)
(****************************************************************************)
EXTENDS Naturals, Desired

CONSTANTS
    Specs,      \* the specifications the control plane can send
    NoSpec,     \* the agent was never sent one
    Timer,      \* the goroutine of reconcileLoop
    Reader,     \* goroutines that read a connection
    Request,    \* requests that visitors make, each of them once
    Done,       \* a request that is over
    MaxOverlaps, \* bound: how often a pass begins while another is under way; 0
                \* shows what would hold if passes took turns
    MaxFaults   \* bound: how many things go wrong in a behaviour

Pass == Reader \cup {Timer}

ASSUME DoneDistinct == Done \notin Name \cup {None}
ASSUME SpecsTyped == Specs \subseteq SpecType /\ NoSpec \notin Specs
ASSUME ProcessesDistinct == Timer \notin Reader /\ None \notin Pass
ASSUME BoundsCounted == MaxOverlaps \in Nat /\ MaxFaults \in Nat

VARIABLES
    held,       \* Agent.spec, the specification in memory
    disk,       \* the specification saved beside the agent
    mode,       \* Agent.mode
    session,    \* the reader of the connection now open, or None
    abandoned,  \* Agent.abandoned, versions given up on
    pass,       \* what each goroutine that runs passes is doing
    docker,     \* every container on the machine
    routes,     \* the configuration the router is serving
    request,    \* where each request is being served
    answered,   \* history: versions that answered a health check
    silent,     \* history: versions that did not answer in the time allowed
    overlaps,   \* how many passes have begun while another was under way
    faults      \* how many things have gone wrong so far

memory  == <<held, disk, mode, abandoned>>
machine == <<docker, routes, request>>
history == <<answered, silent, overlaps>>
agentVars == <<held, disk, mode, session, abandoned, pass, docker, routes,
               request, answered, silent, overlaps, faults>>

ContainerState == {"absent", "exited", "running"}
PassPC == {"idle", "read", "plan", "start", "drain", "retire", "report"}

\* A pass between two runs.  making is a container taken away to be replaced
\* and not yet created again; await is the requests a drain is waiting for.
IdlePass ==
    [pc |-> "idle", spec |-> NoSpec, replace |-> {}, making |-> None,
     create |-> {}, started |-> {}, failed |-> {}, healthy |-> {},
     unproven |-> {}, remove |-> {}, await |-> {}, retired |-> FALSE]

PassState ==
    [pc : PassPC, spec : Specs \cup {NoSpec}, replace : SUBSET Owned,
     making : Owned \cup {None}, create : SUBSET Owned,
     started : SUBSET Owned, failed : SUBSET Owned, healthy : SUBSET App,
     unproven : SUBSET App, remove : SUBSET Owned, await : SUBSET Request,
     retired : BOOLEAN]

\* Every container is as it should be, in memory and in type.
AgentTypeOK ==
    /\ held \in Specs \cup {NoSpec}
    /\ disk \in Specs \cup {NoSpec}
    /\ mode \in {"managed", "watch"}
    /\ session \in Reader \cup {None}
    /\ abandoned \subseteq App
    /\ pass \in [Pass -> PassState]
    /\ docker \in [Name -> ContainerState]
    /\ routes \in [Host -> App \cup {None}]
    /\ request \in [Request -> App \cup {None, Done}]
    /\ answered \subseteq App /\ silent \subseteq App
    /\ overlaps \in 0..MaxOverlaps
    /\ faults \in 0..MaxFaults

NoRoutes == [h \in Host |-> None]

\* A machine nobody has deployed to, with an agent that has just been installed.
AgentInit ==
    /\ held = NoSpec /\ disk = NoSpec
    /\ mode = "watch"
    /\ session = None
    /\ abandoned = {}
    /\ pass = [p \in Pass |-> IdlePass]
    /\ docker = [c \in Name |-> IF c \in Foreign THEN "running" ELSE "absent"]
    /\ routes = NoRoutes
    /\ request = [q \in Request |-> None]
    /\ answered = {} /\ silent = {}
    /\ overlaps = 0 /\ faults = 0

Fault == faults < MaxFaults /\ faults' = faults + 1

(****************************************************************************)
(* Docker, as the agent uses it through its command line.                   *)
(****************************************************************************)

\* What ends with a container: the requests it was serving and, when it is the
\* router, every request passing through it and the configuration it was given,
\* which lives in its memory.
Ends(c) ==
    /\ request' = [q \in Request |->
                     IF request[q] = c \/ (c = Router /\ request[q] \in App)
                     THEN Done ELSE request[q]]
    /\ routes' = IF c = Router THEN NoRoutes ELSE routes

\* docker run.  A name in use, by a container in any state, is refused.  A run
\* that fails otherwise may leave its container behind, created and not started
\* or, when only the client was cut off, running.
RunSucceeds(c) ==
    /\ docker[c] = "absent"
    /\ docker' = [docker EXCEPT ![c] = "running"]
    /\ UNCHANGED faults

RunFails(c) ==
    \/ docker[c] # "absent" /\ UNCHANGED <<docker, faults>>
    \/ docker[c] = "absent" /\ Fault
       /\ \E s \in ContainerState : docker' = [docker EXCEPT ![c] = s]

\* docker rm --force.  One that fails may have removed the container all the same.
RmSucceeds(c) ==
    /\ docker' = [docker EXCEPT ![c] = "absent"]
    /\ Ends(c)
    /\ UNCHANGED faults

RmFails(c) ==
    /\ Fault
    /\ \/ UNCHANGED machine
       \/ docker' = [docker EXCEPT ![c] = "absent"] /\ Ends(c)

(****************************************************************************)
(* A pass.                                                                  *)
(****************************************************************************)

\* saveSpec.  Failing to save does not stop a specification being applied.
Save(s) ==
    \/ disk' = s /\ UNCHANGED faults
    \/ Fault /\ UNCHANGED disk

\* acceptSpec: a signed specification read from the connection is held, saved,
\* and applied.
Receive(r, s) ==
    /\ session = r /\ pass[r].pc = "idle"
    /\ mode = "managed"
    /\ held' = s
    /\ Save(s)
    /\ pass' = [pass EXCEPT ![r].pc = "read"]
    /\ UNCHANGED <<mode, session, abandoned, machine, history>>

\* reconcileOnce: what is held now is what gets applied, which for a reader need
\* not be what it has just received.  Nothing is done unless the server is managed.
Begin(p) ==
    /\ pass[p].pc = IF p = Timer THEN "idle" ELSE "read"
    /\ IF \A other \in Pass : pass[other].pc \in {"idle", "read"}
       THEN UNCHANGED overlaps
       ELSE overlaps < MaxOverlaps /\ overlaps' = overlaps + 1
    /\ held # NoSpec
    /\ mode = "managed"
    /\ pass' = [pass EXCEPT ![p] = [IdlePass EXCEPT !.pc = "plan", !.spec = held]]
    /\ UNCHANGED <<memory, session, machine, answered, silent, faults>>

\* A variant, for the runs to refute: the label is not looked at.
ManagedUnlabelled == {c \in Name : docker[c] # "absent"}

\* managedContainers: what is on the machine and carries our label.
Managed == {c \in Name \ Foreign : docker[c] # "absent"}

\* matches.  A container's image, label and ports are those of its name, so only
\* whether it is running can differ.
AsWanted(c) == docker[c] = "running"

\* Variants: what is there is taken to be running; what was given up on is tried again.
PlannedUnlooked(p, actual) ==
    LET want == pass[p].spec.want
    IN  [pass[p] EXCEPT !.pc = "start", !.create = (want \ abandoned) \ actual,
                        !.remove = actual \ want]

PlannedForgetful(p, actual) ==
    LET want == pass[p].spec.want
    IN  [pass[p] EXCEPT !.pc      = "start",
                        !.create  = want \ actual,
                        !.replace = {c \in want \cap actual : ~AsWanted(c)},
                        !.remove  = actual \ want]

\* planRollout: versions given up on are left out; what is there and not running is
\* replaced; what is ours and no longer wanted is removed.
Planned(p, actual) ==
    LET want == pass[p].spec.want
        try  == want \ abandoned
    IN  [pass[p] EXCEPT !.pc      = "start",
                        !.create  = try \ actual,
                        !.replace = {c \in try \cap actual : ~AsWanted(c)},
                        !.remove  = actual \ want]

\* A machine that could not be read looks like an empty one.
Plan(p) ==
    /\ pass[p].pc = "plan"
    /\ \/ pass' = [pass EXCEPT ![p] = Planned(p, Managed)] /\ UNCHANGED faults
       \/ pass' = [pass EXCEPT ![p] = Planned(p, {})] /\ Fault
    /\ UNCHANGED <<memory, session, machine, history>>

\* start: a container that keeps its name is taken away before it is made again.
TakeAway(p, c) ==
    /\ pass[p].pc = "start" /\ pass[p].making = None
    /\ c \in pass[p].replace
    /\ \/ /\ RmSucceeds(c)
          /\ pass' = [pass EXCEPT ![p].replace = @ \ {c}, ![p].making = c]
       \/ /\ RmFails(c)
          /\ pass' = [pass EXCEPT ![p].replace = @ \ {c}, ![p].failed = @ \cup {c}]
    /\ UNCHANGED <<memory, session, history>>

\* start: what was taken away is made first, then what was not there at all.
Create(p, c) ==
    /\ pass[p].pc = "start"
    /\ \/ c = pass[p].making
       \/ pass[p].making = None /\ pass[p].replace = {} /\ c \in pass[p].create
    /\ \/ /\ RunSucceeds(c)
          /\ pass' = [pass EXCEPT ![p].making = None, ![p].create = @ \ {c},
                                  ![p].started = @ \cup {c}]
       \/ /\ RunFails(c)
          /\ pass' = [pass EXCEPT ![p].making = None, ![p].create = @ \ {c},
                                  ![p].failed = @ \cup {c}]
    /\ UNCHANGED <<memory, session, routes, request, history>>

AllStarted(p) ==
    /\ pass[p].pc = "start"
    /\ pass[p].replace = {} /\ pass[p].making = None /\ pass[p].create = {}

\* A variant: the router is checked like a version.
GatingRouter(p) == pass[p].started \ (pass[p].healthy \cup pass[p].unproven)

\* Versions this pass started and has yet to hear from.  The router has no check.
Gating(p) == (pass[p].started \cap App) \ (pass[p].healthy \cup pass[p].unproven)

\* gate, when the version answers.  Versions are waited for side by side.
GateAnswers(p, c) ==
    /\ AllStarted(p) /\ c \in Gating(p)
    /\ docker[c] = "running"
    /\ answered' = answered \cup {c}
    /\ pass' = [pass EXCEPT ![p].healthy = @ \cup {c}]
    /\ UNCHANGED <<memory, session, machine, silent, overlaps, faults>>

\* gate, when the time allowed runs out: the version is given up on and removed.
GateGivesUp(p, c) ==
    /\ AllStarted(p) /\ c \in Gating(p)
    /\ abandoned' = abandoned \cup {c}
    /\ silent' = silent \cup {c}
    /\ RmSucceeds(c) \/ RmFails(c)
    /\ pass' = [pass EXCEPT ![p].unproven = @ \cup {c}]
    /\ UNCHANGED <<held, mode, disk, session, answered, overlaps>>

\* withoutRoutesTo: the routes of the specification but those to what this pass
\* started and never heard from.
ProvenRoutes(p) ==
    [h \in Host |-> IF pass[p].spec.route[h] \in pass[p].unproven
                    THEN None ELSE pass[p].spec.route[h]]

\* A variant: what did not answer keeps nothing back.
AfterSyncHasty(p) ==
    IF pass[p].remove = {} THEN "report"
    ELSE IF pass[p].started # {} THEN "drain" ELSE "retire"

\* What is left of a pass once traffic has been dealt with.
AfterSync(p) ==
    IF pass[p].unproven # {} \/ pass[p].remove = {} THEN "report"
    ELSE IF pass[p].started # {} THEN "drain" ELSE "retire"

\* syncRouter: the router's whole configuration is replaced.  Failing to is
\* logged and the pass goes on; a server without a router has nothing to do.
Sync(p) ==
    /\ AllStarted(p) /\ Gating(p) = {}
    /\ \/ /\ Router \in pass[p].spec.want /\ docker[Router] = "running"
          /\ routes' = ProvenRoutes(p)
          /\ UNCHANGED faults
       \/ /\ Router \notin pass[p].spec.want \/ docker[Router] # "running"
          /\ UNCHANGED <<routes, faults>>
       \/ /\ Router \in pass[p].spec.want /\ docker[Router] = "running"
          /\ Fault /\ UNCHANGED routes
    /\ pass' = [pass EXCEPT ![p].pc = AfterSync(p),
                            ![p].await = {q \in Request : request[q] \in pass[p].remove}]
    /\ UNCHANGED <<memory, session, docker, request, history>>

\* retire, the wait: the requests that were being served when traffic moved have
\* had the time to finish.
Drain(p) ==
    /\ pass[p].pc = "drain"
    /\ \A q \in pass[p].await : request[q] = Done
    /\ pass' = [pass EXCEPT ![p].pc = "retire"]
    /\ UNCHANGED <<memory, session, machine, history, faults>>

\* retire, one container.
Retire(p, c) ==
    /\ pass[p].pc = "retire" /\ c \in pass[p].remove
    /\ RmSucceeds(c) \/ RmFails(c)
    /\ pass' = [pass EXCEPT ![p].remove = @ \ {c}, ![p].retired = TRUE,
                            ![p].pc = IF pass[p].remove = {c} THEN "report" ELSE "retire"]
    /\ UNCHANGED <<memory, session, history>>

\* reconcileOnce, the end.  A pass set off by a specification is always reported,
\* one set off by the timer when it changed something; the report goes to the
\* connection open now and is lost when there is none.
Reported(p) ==
    \/ p \in Reader
    \/ pass[p].started \cup pass[p].failed # {}
    \/ pass[p].retired

Report(p) ==
    /\ pass[p].pc = "report"
    /\ pass' = [pass EXCEPT ![p] = IdlePass]
    /\ UNCHANGED <<memory, session, machine, history, faults>>

PassStep(p) ==
    \/ Begin(p) \/ Plan(p) \/ Sync(p) \/ Drain(p)
    \/ \E c \in Name : \/ TakeAway(p, c) \/ Create(p, c)
                       \/ GateAnswers(p, c) \/ GateGivesUp(p, c)
                       \/ Retire(p, c)

(****************************************************************************)
(* The agent's life and the machine's.                                      *)
(****************************************************************************)

\* session: the mode is learnt from the greeting, and a goroutine that is not
\* still applying something starts to read.
Connect(r) ==
    /\ session = None /\ pass[r].pc = "idle"
    /\ session' = r
    /\ mode' = ServerMode
    /\ UNCHANGED <<held, disk, abandoned, pass, machine, history, faults>>

Disconnect ==
    /\ session # None
    /\ session' = None
    /\ Fault
    /\ UNCHANGED <<memory, pass, machine, history>>

\* New and Run: a process that starts knows only what is on disk, and watches
\* until it is told otherwise.
Restart ==
    /\ Fault
    /\ held' = disk /\ mode' = "watch" /\ abandoned' = {}
    /\ session' = None
    /\ pass' = [p \in Pass |-> IdlePass]
    /\ UNCHANGED <<disk, machine, history>>

\* A container stops on its own; its restart policy may bring it back.
Stops(c) ==
    /\ docker[c] = "running"
    /\ Fault
    /\ docker' = [docker EXCEPT ![c] = "exited"]
    /\ Ends(c)
    /\ UNCHANGED <<memory, session, pass, history>>

ComesBack(c) ==
    /\ docker[c] = "exited"
    /\ docker' = [docker EXCEPT ![c] = "running"]
    /\ UNCHANGED <<memory, session, pass, routes, request, history, faults>>

\* A visitor's request goes where the router sends its hostname.
Arrives(q, h) ==
    /\ request[q] = None
    /\ docker[Router] = "running"
    /\ routes[h] # None /\ docker[routes[h]] = "running"
    /\ request' = [request EXCEPT ![q] = routes[h]]
    /\ UNCHANGED <<memory, session, pass, docker, routes, history, faults>>

Finishes(q) ==
    /\ request[q] \in App
    /\ request' = [request EXCEPT ![q] = Done]
    /\ UNCHANGED <<memory, session, pass, docker, routes, history, faults>>

MachineStep ==
    \/ \E c \in Owned : Stops(c) \/ ComesBack(c)
    \/ \E q \in Request, h \in Host : Arrives(q, h)
    \/ \E q \in Request : Finishes(q)
(****************************************************************************)
(* The agent against a control plane that may send it any specification at  *)
(* any moment.                                                              *)
(****************************************************************************)
Next ==
    \/ \E r \in Reader, s \in Specs : Receive(r, s)
    \/ \E p \in Pass : PassStep(p) \/ Report(p)
    \/ \E r \in Reader : Connect(r)
    \/ Disconnect \/ Restart
    \/ MachineStep

\* Goroutines keep running, docker commands and health checks end one way or the
\* other, and the agent keeps trying to connect.  Nothing makes anything fail,
\* a visitor come, or a stopped container come back.
Fairness ==
    /\ \A p \in Pass : WF_agentVars(PassStep(p) \/ Report(p))
    /\ WF_agentVars(\E r \in Reader : Connect(r))
    /\ \A q \in Request : WF_agentVars(Finishes(q))

Spec     == AgentInit /\ [][Next]_agentVars
FairSpec == Spec /\ Fairness

\* The same agent with a control plane that may never be reached again.
AloneSpec == Spec /\ \A p \in Pass : WF_agentVars(PassStep(p) \/ Report(p))

(****************************************************************************)
(* What the agent gets right.                                               *)
(****************************************************************************)

\* A specification with a router, whose hostnames lead to what it asks for.
RoutesWithin(s) == Router \in s.want /\ \A h \in Host : s.route[h] \in s.want \cup {None}

\* A pass waits to take something away, or does, only when every version it started has
\* answered, one version given up on keeping them all; and, while nothing fails and passes
\* take turns, once the router sends no hostname to what goes (reconcile.go apply, "start
\* the new version, wait for it to answer, move traffic, and only then take the old one
\* away").  A container that could not be started, or a router that could not be told,
\* does not hold it back.
RetiringComesLast ==
    \A p \in Pass : pass[p].pc \in {"drain", "retire"} =>
        /\ pass[p].started \cap App \subseteq pass[p].healthy
        /\ pass[p].healthy \subseteq answered
        /\ faults = 0 /\ overlaps = 0 /\ RoutesWithin(pass[p].spec) =>
             \A h \in Host : routes[h] \notin pass[p].remove

\* reconcile.go apply as its comment has it: nothing at all is removed on a pass where
\* something failed to come up.
NothingRemovedOnFailure ==
    \A p \in Pass : pass[p].failed # {} => ~ pass[p].retired

\* Whatever overlaps, fails or restarts, what the customer runs is left as it was
\* (reconcile.go managedContainers, "Everything else is invisible to removal").
ForeignUntouched == \A c \in Foreign : docker[c] = "running"

\* What the agent keeps running is what it was asked for or what it has not got to
\* yet: once no more specifications come and it stays in touch, the machine ends up
\* as the last one says and stays that way, but for versions it gave up on
\* (reconcile.go reconcileLoop, "a container that stopped, or a reboot, is corrected
\* without anyone asking").
Matches(s) ==
    /\ \A c \in Owned : c \notin s.want => docker[c] = "absent"
    /\ \A c \in s.want \ abandoned : docker[c] = "running"
    /\ Router \in s.want => \A h \in Host :
           s.route[h] \notin silent => routes[h] = s.route[h]

Converges ==
    \A s \in Specs : <>[](held = s /\ mode = "managed") => <>[]Matches(s)

\* A version given up on is not started again for as long as the agent remembers
\* giving up on it, until a pass first begins while another is under way (agent.go
\* abandoned, "so a specification still naming one does not start it again and wait all
\* over").  A pass planned before another gave up starts it again.
GivenUpStaysDown ==
    [][overlaps = 0 =>
         \A c \in App : (c \in abandoned /\ docker[c] = "absent" /\ c \in abandoned')
                            => docker'[c] = "absent"]_agentVars
==============================================================================
