-------------------------------- MODULE Fleet --------------------------------
(****************************************************************************)
(* One machine's life as a server (internal/server, internal/agent): it is  *)
(* connected, looked at, set up over SSH, its agent enrols and stays        *)
(* connected, it may be forgotten, and then be connected again.             *)
(*                                                                          *)
(* A request, a survey job, setup jobs and the goroutine of each connection *)
(* all write the one row, most of them its status, and none of them looks   *)
(* at what it overwrites.  What is left of an earlier row finds none of its *)
(* own to write, but the machine is the same.                               *)
(****************************************************************************)
EXTENDS Naturals

CONSTANTS
    MaxServers,   \* bound: how often the machine is connected, each time as a new server
    MaxSetups,    \* bound: the requests to set the server up, each with its job
    MaxTokens,    \* bound: the setup tokens issued
    MaxAttempts,  \* bound: the agent's requests to enrol
    MaxConns,     \* bound: connections at once
    MaxFaults,    \* bound: the jobs that run out of time, the stops of the control plane,
                  \* the connections that end unrecorded and the times it is connected again
    Kinds         \* bound: the secrets it is connected with

ASSUME BoundsCounted ==
    /\ {MaxServers, MaxSetups, MaxTokens, MaxAttempts, MaxConns, MaxFaults} \subseteq Nat
    /\ Kinds \subseteq {"key", "password"}

\* Each is numbered in the order it first happens, a connection by the lowest number free.
Server  == 1..MaxServers
Setup   == 1..MaxSetups
Token   == 1..MaxTokens
Attempt == 1..MaxAttempts
Conn    == 1..MaxConns
None    == 0

First(n, S) == n \in S /\ \A m \in S : n <= m

VARIABLES
    server,      \* servers.id, of the last row there was
    mode,        \* servers.mode
    status,      \* servers.status, "unknown" without a row
    routed,      \* whether servers.routing_mode is set
    secret,      \* servers.ssh_secret_kind
    enrollHash,  \* the token enrollment_token_hash is of
    agentHash,   \* the attempt whose credential agent_token_hash is of
    survey,      \* each server's survey job
    setup,       \* each request to set up, and the job it queues
    of,          \* the server each is about
    token,       \* the token each job has issued
    issued,      \* those issued so far, which are never issued again
    enrollment,  \* the token in the machine's enrollment file
    credential,  \* its credential file: the attempt it came from
    agent,       \* the agent's process
    attempt,     \* each request to enrol, on its way or answered
    madeFor,     \* history: the server each attempt's credential was made for
    conn,        \* the goroutine serving each connection
    serves,      \* the server it authenticated as
    link,        \* the connection the agent has open
    hub,         \* the connection Hub has for each server
    timeouts,
    crashes,
    unmarked     \* the connections whose end was not written

row      == <<server, mode, status, routed, secret, enrollHash, agentHash>>
jobs     == <<survey, setup, of, token, issued>>
tokens   == <<token, issued>>
machine  == <<enrollment, credential, agent, attempt, madeFor>>
serving  == <<conn, serves, link, hub>>
counted  == <<timeouts, crashes, unmarked>>
fleetVars == <<row, jobs, machine, serving, counted>>

Status ==
    {"pending", "surveying", "awaiting_choice", "installing", "online", "offline", "failed"}

SurveyState == {"none", "queued", "loaded", "looking", "done"}

\* asking is a request that has read the row; the rest are of its job.
SetupState ==
    {"unasked", "asking", "queued", "loaded", "installing", "issued", "written",
     "started", "awaiting", "givingUp", "done"}

Running == {"loaded", "installing", "issued", "written", "started", "awaiting", "givingUp"}

\* sent is a request nobody may be waiting for any more; answered, an answer on its way
\* to somebody who is; over, refused, used or lost.
AttemptState == {"unsent", "sent", "answered", "over"}

Unsent   == [state |-> "unsent", token |-> None]
Answered == [state |-> "answered", token |-> None]
Over     == [state |-> "over", token |-> None]

ConnState == {"free", "greeted", "added", "reading", "ended", "marked"}

\* Without a row no column has a value.
FleetTypeOK ==
    /\ server \in Server \cup {None}
    /\ mode \in {"managed", "watch", "none"}
    /\ status \in Status \cup {"unknown"}
    /\ routed \in BOOLEAN
    /\ secret \in {"key", "password", "none"}
    /\ enrollHash \in Token \cup {None}
    /\ agentHash \in Attempt \cup {None}
    /\ survey \in [Server -> SurveyState]
    /\ setup \in [Setup -> SetupState]
    /\ of \in [Setup -> Server \cup {None}]
    /\ token \in [Setup -> Token \cup {None}]
    /\ issued \subseteq Token
    /\ enrollment \in Token \cup {None}
    /\ credential \in Attempt \cup {None}
    /\ agent \in [pc : {"absent", "starting", "enrolling", "holding", "running"},
                  token : Attempt \cup {None}]
    /\ attempt \in [Attempt -> [state : AttemptState, token : Token \cup {None}]]
    /\ madeFor \in [Attempt -> Server \cup {None}]
    /\ conn \in [Conn -> ConnState]
    /\ serves \in [Conn -> Server \cup {None}]
    /\ link \in Conn \cup {None}
    /\ hub \in [Server -> Conn \cup {None}]
    /\ {timeouts, crashes, unmarked} \subseteq 0..MaxFaults
    /\ status = "unknown" =>
         mode = "none" /\ routed = FALSE /\ secret = "none" /\ enrollHash = None /\ agentHash = None

FleetInit ==
    /\ server = None /\ mode = "none"
    /\ status = "unknown" /\ routed = FALSE /\ secret = "none"
    /\ enrollHash = None /\ agentHash = None
    /\ survey = [r \in Server |-> "none"]
    /\ setup = [s \in Setup |-> "unasked"] /\ of = [s \in Setup |-> None]
    /\ token = [s \in Setup |-> None] /\ issued = {}
    /\ enrollment = None /\ credential = None
    /\ agent = [pc |-> "absent", token |-> None]
    /\ attempt = [a \in Attempt |-> Unsent] /\ madeFor = [a \in Attempt |-> None]
    /\ conn = [c \in Conn |-> "free"] /\ serves = [c \in Conn |-> None]
    /\ link = None /\ hub = [r \in Server |-> None]
    /\ timeouts = 0 /\ crashes = 0 /\ unmarked = 0

\* There is no row before Connect nor after Delete.
Exists == status # "unknown"
IsThere(r) == Exists /\ r = server

\* UpdateServerStatus of a server, which asks nothing of the status it replaces.
UpdateServerStatus(r, s) == status' = IF IsThere(r) THEN s ELSE status

\* Something may go wrong once more, or the machine be connected again.
MayGoOn == server # None /\ timeouts + crashes + unmarked + server <= MaxFaults

(****************************************************************************)
(* Requests.                                                                *)
(****************************************************************************)

\* Connect: a new row, unless the machine has one, and the job that looks at the machine,
\* in one transaction.
Connect(kind, m) ==
    /\ ~ Exists /\ server + 1 \in Server
    /\ server = None \/ MayGoOn
    /\ server' = server + 1 /\ mode' = m
    /\ status' = "pending" /\ secret' = kind
    /\ survey' = [survey EXCEPT ![server + 1] = "queued"]
    /\ UNCHANGED <<routed, enrollHash, agentHash, setup, of, tokens, machine, serving, counted>>

\* ChooseRouting, refused only of a server that is watched.
ChooseRouting ==
    /\ Exists /\ mode # "watch"
    /\ routed' = TRUE
    /\ UNCHANGED <<server, mode, status, secret, enrollHash, agentHash, jobs, machine, serving,
                   counted>>

\* Setup, reading the row.
AskSetup(s) ==
    /\ First(s, {r \in Setup : setup[r] = "unasked"})
    /\ Exists /\ mode # "watch" /\ status \notin {"installing", "online"} /\ routed
    /\ setup' = [setup EXCEPT ![s] = "asking"]
    /\ of' = [of EXCEPT ![s] = server]
    /\ UNCHANGED <<row, survey, tokens, machine, serving, counted>>

\* A variant, for the runs to refute: the row is written, and the job may not be queued.
QueueSetupApart(s) ==
    /\ setup[s] = "asking"
    /\ UpdateServerStatus(of[s], "installing")
    /\ \E pc \in {"queued", "done"} : setup' = [setup EXCEPT ![s] = pc]
    /\ UNCHANGED <<server, mode, routed, secret, enrollHash, agentHash, survey, of, tokens, machine,
                   serving, counted>>

\* Setup, writing it and queueing the job, which are undone when the row is gone.
QueueSetup(s) ==
    /\ setup[s] = "asking"
    /\ UpdateServerStatus(of[s], "installing")
    /\ setup' = [setup EXCEPT ![s] = IF IsThere(of[s]) THEN "queued" ELSE "done"]
    /\ UNCHANGED <<server, mode, routed, secret, enrollHash, agentHash, survey, of, tokens, machine,
                   serving, counted>>

\* Delete: the row goes, and nothing else is told.
Delete ==
    /\ Exists
    /\ mode' = "none" /\ status' = "unknown" /\ routed' = FALSE /\ secret' = "none"
    /\ enrollHash' = None /\ agentHash' = None
    /\ UNCHANGED <<server, jobs, machine, serving, counted>>

(****************************************************************************)
(* The survey job of a server.                                              *)
(****************************************************************************)

\* loadTargetFor: there is a row and a secret to reach the machine with.
Loads(r) == IsThere(r) /\ secret # "none"

Looks(r, from, to) == survey[r] = from /\ survey' = [survey EXCEPT ![r] = to]

SurveyLoads(r) ==
    /\ \/ Loads(r) /\ Looks(r, "queued", "loaded") /\ UNCHANGED status
       \/ ~ Loads(r) /\ Looks(r, "queued", "done") /\ UpdateServerStatus(r, "failed")
    /\ UNCHANGED <<server, mode, routed, secret, enrollHash, agentHash, setup, of, tokens, machine,
                   serving, counted>>

SurveyMarks(r) ==
    /\ Looks(r, "loaded", "looking")
    /\ UpdateServerStatus(r, "surveying")
    /\ UNCHANGED <<server, mode, routed, secret, enrollHash, agentHash, setup, of, tokens, machine,
                   serving, counted>>

\* record and reportFindings, or fail: the machine could not be reached or is not
\* supported, it is only watched, its ports are taken, or they are free.
SurveyRecords(r) ==
    /\ Looks(r, "looking", "done")
    /\ \/ UpdateServerStatus(r, "failed") /\ UNCHANGED routed
       \/ mode = "watch" /\ UpdateServerStatus(r, "pending") /\ UNCHANGED routed
       \/ mode # "watch" /\ UpdateServerStatus(r, "awaiting_choice")
          /\ routed' \in {routed, routed \/ IsThere(r)}
    /\ UNCHANGED <<server, mode, secret, enrollHash, agentHash, setup, of, tokens, machine, serving,
                   counted>>

(****************************************************************************)
(* A setup job: Bootstrapper.Run.                                           *)
(****************************************************************************)

Goes(s, from, to) == setup[s] = from /\ setup' = [setup EXCEPT ![s] = to]

\* fail: it is over, and why is for the person waiting to read.
SetupFails(s) ==
    /\ UpdateServerStatus(of[s], "failed")
    /\ setup' = [setup EXCEPT ![s] = "done"]

SetupLoads(s) ==
    /\ setup[s] = "queued"
    /\ \/ Loads(of[s]) /\ Goes(s, "queued", "loaded") /\ UNCHANGED status
       \/ ~ Loads(of[s]) /\ SetupFails(s)
    /\ UNCHANGED <<server, mode, routed, secret, enrollHash, agentHash, survey, of, tokens, machine,
                   serving, counted>>

SetupMarks(s) ==
    /\ Goes(s, "loaded", "installing")
    /\ UpdateServerStatus(of[s], "installing")
    /\ UNCHANGED <<server, mode, routed, secret, enrollHash, agentHash, survey, of, tokens, machine,
                   serving, counted>>

\* The machine cannot be reached, or install stops partway: what it did stays done.
SetupBreaks(s) ==
    /\ setup[s] \in {"installing", "issued", "written"} /\ SetupFails(s)
    /\ UNCHANGED <<server, mode, routed, secret, enrollHash, agentHash, survey, of, tokens, machine,
                   serving, counted>>

\* A variant, for the runs to refute: the token is kept for a server that has gone.
IssueEnrollmentTokenAnyhow(s) ==
    /\ Goes(s, "installing", "issued")
    /\ \E t \in Token :
         /\ First(t, Token \ issued)
         /\ issued' = issued \cup {t} /\ token' = [token EXCEPT ![s] = t]
         /\ enrollHash' = t
    /\ UNCHANGED <<server, mode, status, routed, secret, agentHash, survey, of, machine, serving,
                   counted>>

\* IssueEnrollmentToken, replacing one that was not used.
IssueEnrollmentToken(s) ==
    /\ Goes(s, "installing", "issued")
    /\ \E t \in Token :
         /\ First(t, Token \ issued)
         /\ issued' = issued \cup {t} /\ token' = [token EXCEPT ![s] = t]
         /\ enrollHash' = IF IsThere(of[s]) THEN t ELSE enrollHash
    /\ UNCHANGED <<server, mode, status, routed, secret, agentHash, survey, of, machine, serving,
                   counted>>

\* The token is written onto the machine.
WriteToken(s) ==
    /\ Goes(s, "issued", "written")
    /\ enrollment' = token[s]
    /\ token' = [token EXCEPT ![s] = None]
    /\ UNCHANGED <<row, survey, of, issued, credential, agent, attempt, madeFor, serving, counted>>

\* systemctl enable --now: nothing happens to an agent that is already there.  The
\* command may do its work and the job still hear of a failure.
StartAgent(s) ==
    /\ setup[s] = "written"
    /\ agent' = IF agent.pc = "absent" THEN [pc |-> "starting", token |-> None] ELSE agent
    /\ \/ Goes(s, "written", "started") /\ UNCHANGED status
       \/ SetupFails(s)
    /\ UNCHANGED <<server, mode, routed, secret, enrollHash, agentHash, survey, of, tokens,
                   enrollment, credential, attempt, madeFor, serving, counted>>

\* forgetPassword: a key is kept, for the next time.
ForgetPassword(s) ==
    /\ Goes(s, "started", "awaiting")
    /\ secret' = IF IsThere(of[s]) /\ secret = "password" THEN "none" ELSE secret
    /\ UNCHANGED <<server, mode, status, routed, enrollHash, agentHash, survey, of, tokens, machine,
                   serving, counted>>

\* awaitAgent: it is connected, or its time is up.  A connection that has been marked
\* offline is out of the Hub long before a job could get here from marking the server as
\* installing, which takes several commands over SSH.
AwaitAgent(s) ==
    /\ setup[s] = "awaiting"
    /\ \/ /\ hub[of[s]] # None /\ conn[hub[of[s]]] # "marked"
          /\ Goes(s, "awaiting", "done")
       \/ hub[of[s]] = None /\ Goes(s, "awaiting", "givingUp")
    /\ UNCHANGED <<row, survey, of, tokens, machine, serving, counted>>

\* A variant, for the runs to refute: giving up is not recorded.
GiveUpQuietly(s) ==
    /\ Goes(s, "givingUp", "done")
    /\ UNCHANGED <<row, survey, of, tokens, machine, serving, counted>>

\* awaitAgent records that it gave up, whatever has happened meanwhile.
GiveUp(s) ==
    /\ setup[s] = "givingUp" /\ SetupFails(s)
    /\ UNCHANGED <<server, mode, routed, secret, enrollHash, agentHash, survey, of, tokens, machine,
                   serving, counted>>

\* JobTimeout ends a job's context.  Every write it then makes fails, the one that would
\* record the failure included, none of those errors is looked at, and Run returns nil.
RunOutOfTime ==
    /\ MayGoOn /\ timeouts' = timeouts + 1
    /\ \/ \E s \in Setup : setup[s] \in Running /\ Goes(s, setup[s], "done") /\ UNCHANGED survey
       \/ \E r \in Server : \/ Looks(r, "loaded", "done") /\ UNCHANGED setup
                            \/ Looks(r, "looking", "done") /\ UNCHANGED setup
    /\ UNCHANGED <<row, of, tokens, machine, serving, crashes, unmarked>>

(****************************************************************************)
(* The agent.                                                               *)
(****************************************************************************)

\* credential: a lasting one is never traded again, a setup token is.
AgentStarts ==
    /\ agent.pc = "starting"
    /\ \/ /\ credential # None
          /\ agent' = [pc |-> "running", token |-> credential]
          /\ UNCHANGED attempt
       \/ /\ credential = None /\ enrollment # None
          /\ \E a \in Attempt :
               /\ First(a, {b \in Attempt : attempt[b].state = "unsent"})
               /\ attempt' = [attempt EXCEPT ![a] = [state |-> "sent", token |-> enrollment]]
               /\ agent' = [pc |-> "enrolling", token |-> a]
    /\ UNCHANGED <<row, jobs, enrollment, credential, madeFor, serving, counted>>

\* The answer arrives.
Enrolled ==
    /\ agent.pc = "enrolling" /\ attempt[agent.token].state = "answered"
    /\ agent' = [pc |-> "holding", token |-> agent.token]
    /\ attempt' = [attempt EXCEPT ![agent.token] = Over]
    /\ UNCHANGED <<row, jobs, enrollment, credential, madeFor, serving, counted>>

\* It is kept, and the setup token is taken off the machine.
KeepCredential ==
    /\ agent.pc = "holding"
    /\ credential' = agent.token /\ enrollment' = None
    /\ agent' = [pc |-> "running", token |-> agent.token]
    /\ UNCHANGED <<row, jobs, attempt, madeFor, serving, counted>>

\* The process ends, refused, out of patience or for any other reason, and is started
\* again.  A request it had sent may still arrive.
AgentRestarts ==
    /\ agent.pc \in {"enrolling", "holding", "running"}
    /\ agent' = [pc |-> "starting", token |-> None]
    /\ attempt' = [a \in Attempt |-> IF attempt[a] = Answered THEN Over ELSE attempt[a]]
    /\ link' = None
    /\ UNCHANGED <<row, jobs, enrollment, credential, madeFor, conn, serves, hub, counted>>

(****************************************************************************)
(* The control plane's side of the agent.                                   *)
(****************************************************************************)

\* A variant, for the runs to refute: the token is left usable.
EnrollReusable(a) ==
    /\ attempt[a].state = "sent"
    /\ \/ /\ enrollHash = attempt[a].token /\ enrollHash # None
          /\ agentHash' = a /\ UNCHANGED enrollHash
          /\ madeFor' = [madeFor EXCEPT ![a] = server]
          /\ attempt' = [attempt EXCEPT ![a] = IF agent.token = a THEN Answered ELSE Over]
       \/ /\ enrollHash # attempt[a].token
          /\ attempt' = [attempt EXCEPT ![a] = Over]
          /\ UNCHANGED <<enrollHash, agentHash, madeFor>>
    /\ UNCHANGED <<server, mode, status, routed, secret, jobs,
                   enrollment, credential, agent, serving, counted>>

\* Enroll: one statement that uses the token up as it stores the credential's hash.
Enroll(a) ==
    /\ attempt[a].state = "sent"
    /\ \/ /\ enrollHash = attempt[a].token /\ enrollHash # None
          /\ agentHash' = a /\ enrollHash' = None
          /\ madeFor' = [madeFor EXCEPT ![a] = server]
          /\ attempt' = [attempt EXCEPT ![a] = IF agent.token = a THEN Answered ELSE Over]
       \/ /\ enrollHash # attempt[a].token
          /\ attempt' = [attempt EXCEPT ![a] = Over]
          /\ UNCHANGED <<enrollHash, agentHash, madeFor>>
    /\ UNCHANGED <<server, mode, status, routed, secret, jobs,
                   enrollment, credential, agent, serving, counted>>

\* enrollment_expires_at passes.
TokenExpires ==
    /\ enrollHash # None /\ enrollHash' = None
    /\ UNCHANGED <<server, mode, status, routed, secret, agentHash, jobs, machine,
                   serving, counted>>

\* connect and the greeting: the credential is known, and the agent takes this
\* connection to be its own.
Accept(c) ==
    /\ First(c, {d \in Conn : conn[d] = "free"})
    /\ agent.pc = "running" /\ link = None
    /\ agent.token = agentHash
    /\ conn' = [conn EXCEPT ![c] = "greeted"] /\ serves' = [serves EXCEPT ![c] = server]
    /\ link' = c
    /\ UNCHANGED <<row, jobs, machine, hub, counted>>

\* The agent's end of the connection closes, or the network takes it.
LinkLost ==
    /\ link # None /\ link' = None
    /\ UNCHANGED <<row, jobs, machine, conn, serves, hub, counted>>

\* Hub.Add closes the connection it replaces.
Add(c) ==
    /\ conn[c] = "greeted" /\ conn' = [conn EXCEPT ![c] = "added"]
    /\ hub' = [hub EXCEPT ![serves[c]] = c]
    /\ link' = IF link = hub[serves[c]] /\ link # c THEN None ELSE link
    /\ UNCHANGED <<row, jobs, machine, serves, counted>>

\* RecordHeartbeat on arrival.
Arrive(c) ==
    /\ conn[c] = "added" /\ conn' = [conn EXCEPT ![c] = "reading"]
    /\ UpdateServerStatus(serves[c], "online")
    /\ UNCHANGED <<server, mode, routed, secret, enrollHash, agentHash, jobs, machine,
                   serves, link, hub, counted>>

\* A variant, for the runs to refute: a heartbeat only refreshes the facts.
HeartbeatFacts(c) ==
    /\ conn[c] = "reading" /\ link = c
    /\ UNCHANGED fleetVars

\* RecordHeartbeat of a heartbeat.
Heartbeat(c) ==
    /\ conn[c] = "reading" /\ link = c
    /\ UpdateServerStatus(serves[c], "online")
    /\ UNCHANGED <<server, mode, routed, secret, enrollHash, agentHash, jobs, machine,
                   serving, counted>>

\* readLoop ends: the agent closed it, another replaced it, or it was silent for three
\* heartbeats.
ReadEnds(c) ==
    /\ conn[c] = "reading" /\ link # c
    /\ conn' = [conn EXCEPT ![c] = "ended"]
    /\ UNCHANGED <<row, jobs, machine, serves, link, hub, counted>>

\* Deliver panics on a stream that has just been closed: what was put off is done, and
\* the end of the connection is not written.
ReadPanics(c) ==
    /\ conn[c] = "reading" /\ conn' = [conn EXCEPT ![c] = "marked"]
    /\ MayGoOn /\ unmarked' = unmarked + 1
    /\ UNCHANGED <<row, jobs, machine, serves, link, hub, timeouts, crashes>>

\* A variant, for the runs to refute: the end of a connection is not recorded.
EndQuietly(c) ==
    /\ conn[c] = "ended" /\ conn' = [conn EXCEPT ![c] = "marked"]
    /\ UNCHANGED <<row, jobs, machine, serves, link, hub, counted>>

\* MarkOffline, while Hub may still have the connection or have a newer one.
MarkOffline(c) ==
    /\ conn[c] = "ended" /\ conn' = [conn EXCEPT ![c] = "marked"]
    /\ UpdateServerStatus(serves[c], "offline")
    /\ UNCHANGED <<server, mode, routed, secret, enrollHash, agentHash, jobs, machine,
                   serves, link, hub, counted>>

\* Its error is not looked at.
MarkOfflineFails(c) ==
    /\ conn[c] = "ended" /\ conn' = [conn EXCEPT ![c] = "marked"]
    /\ MayGoOn /\ unmarked' = unmarked + 1
    /\ UNCHANGED <<row, jobs, machine, serves, link, hub, timeouts, crashes>>

\* Hub.Remove, of this connection only, which is then closed.
Remove(c) ==
    /\ conn[c] = "marked" /\ conn' = [conn EXCEPT ![c] = "free"]
    /\ hub' = [hub EXCEPT ![serves[c]] = IF @ = c THEN None ELSE @]
    /\ serves' = [serves EXCEPT ![c] = None]
    /\ link' = IF link = c THEN None ELSE link
    /\ UNCHANGED <<row, jobs, machine, counted>>

\* The control plane stops and starts.  Its jobs are tried again from their beginning.
Crash ==
    /\ MayGoOn /\ crashes' = crashes + 1
    /\ survey' = [r \in Server |->
                    IF survey[r] \in {"loaded", "looking"} THEN "queued" ELSE survey[r]]
    /\ setup' = [s \in Setup |-> IF setup[s] \in Running THEN "queued"
                                 ELSE IF setup[s] = "asking" THEN "done" ELSE setup[s]]
    /\ attempt' = [a \in Attempt |->
                     IF attempt[a].state = "sent" THEN Over ELSE attempt[a]]
    /\ conn' = [c \in Conn |-> "free"] /\ serves' = [c \in Conn |-> None]
    /\ link' = None /\ hub' = [r \in Server |-> None]
    /\ UNCHANGED <<row, of, tokens, enrollment, credential, agent, madeFor, timeouts, unmarked>>

Requests ==
    \/ \E kind \in Kinds, m \in {"managed", "watch"} : Connect(kind, m)
    \/ ChooseRouting
    \/ \E s \in Setup : AskSetup(s)
    \/ Delete

\* What a job or a request goes on with by itself.
SurveyStep(r) == SurveyLoads(r) \/ SurveyMarks(r) \/ SurveyRecords(r)
SetupStep(s) ==
    \/ QueueSetup(s) \/ SetupLoads(s) \/ SetupMarks(s) \/ SetupBreaks(s)
    \/ IssueEnrollmentToken(s) \/ WriteToken(s) \/ StartAgent(s) \/ ForgetPassword(s)
    \/ AwaitAgent(s) \/ GiveUp(s)
ServeStep(c) == Add(c) \/ Arrive(c) \/ ReadEnds(c) \/ MarkOffline(c) \/ Remove(c)

FleetNext ==
    \/ Requests
    \/ \E r \in Server : SurveyStep(r)
    \/ \E s \in Setup : SetupStep(s)
    \/ RunOutOfTime
    \/ AgentStarts \/ Enrolled \/ KeepCredential \/ AgentRestarts
    \/ \E a \in Attempt : Enroll(a)
    \/ TokenExpires
    \/ \E c \in Conn : \/ Accept(c) \/ ServeStep(c) \/ Heartbeat(c)
                       \/ ReadPanics(c) \/ MarkOfflineFails(c)
    \/ LinkLost \/ Crash

FleetSpec == FleetInit /\ [][FleetNext]_fleetVars

\* Setup jobs are run and connections served to their end.  Nothing is asked of the customer's
\* machine or of anybody's requests, but that an agent whose connection stays open keeps
\* sending heartbeats.
FairFleetSpec ==
    /\ FleetSpec
    /\ \A s \in Setup : WF_fleetVars(SetupStep(s))
    /\ \A c \in Conn : WF_fleetVars(ServeStep(c)) /\ WF_fleetVars(Heartbeat(c))

(****************************************************************************)
(* Properties.                                                              *)
(****************************************************************************)

\* The credential an agent holds is the one the control plane knows it by, however often
\* it was set up, whatever requests to enrol were repeated or arrived late, and whatever
\* stopped in between.  One that was not would keep a server out for good, because a
\* credential file keeps the agent from ever reading another token: as happens to a machine
\* that is connected again with what an earlier server was given still on it.
CredentialAuthenticates ==
    Exists /\ credential # None /\ credential # agentHash =>
        madeFor[credential] \in Server /\ madeFor[credential] < server

\* Whatever the last of so many to write the row wrote, somebody is still there to say what
\* came of it: of a server that is being set up a job of its own, or a connection of its own
\* that has yet to say it is there or gone; of one that is online, a connection of its own
\* that has yet to end.  Unless a job ran out of time, the control plane stopped, or the end
\* of a connection was never written.
StatusIsAttended ==
    /\ status = "installing" /\ timeouts = 0 /\ crashes = 0 /\ unmarked = 0 =>
         \/ \E s \in Setup : of[s] = server /\ setup[s] \in Running \cup {"queued"}
         \/ \E c \in Conn : serves[c] = server /\ conn[c] \in {"added", "reading", "ended"}
    /\ status = "online" /\ crashes = 0 /\ unmarked = 0 =>
         \E c \in Conn : serves[c] = server /\ conn[c] \in {"reading", "ended"}

\* A setup comes to an end by itself, as awaitAgent is there for, with the same exceptions.
SetupEnds ==
    status = "installing" ~>
        (status # "installing" \/ timeouts > 0 \/ crashes > 0 \/ unmarked > 0)

\* A server whose agent stays connected comes to be shown online and stays so, whatever
\* old connections, jobs that give up and surveys write over it.
ShownOnline ==
    \A c \in Conn : <>[](link = c /\ serves[c] = server) => <>[](status \in {"online", "unknown"})

\* A server whose agent has gone for good does not stay shown online, in whichever order
\* its connections end, unless the control plane stopped or the end of one was not written.
ShownOffline ==
    <>[](link = None) => <>[](status # "online" \/ crashes > 0 \/ unmarked > 0)
=============================================================================
