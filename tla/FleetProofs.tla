---------------------------- MODULE FleetProofs ----------------------------
(****************************************************************************)
(* The credential an agent holds is the one the control plane knows it by,  *)
(* or is an earlier server's, for any number of servers, setups, tokens,    *)
(* requests and connections, and however often anything stops.              *)
(*                                                                          *)
(* A request to enrol carries a token that was issued before it was sent,   *)
(* and tokens are issued once; so once a request is answered the token in   *)
(* the row is none that a request on its way carries, and the credential's  *)
(* hash can only be replaced by an agent that has no credential.            *)
(****************************************************************************)
EXTENDS Fleet, TLAPS

\* A row has a number, and what is done about a server knows whose it is.
Numbered ==
    /\ status # "unknown" => server \in Server
    /\ \A s \in Setup : setup[s] # "unasked" => of[s] \in Server

\* Every token that is anywhere was issued.
TokensKnown ==
    /\ enrollHash \in issued \cup {None}
    /\ \A s \in Setup : token[s] \in issued \cup {None}
    /\ enrollment \in issued \cup {None}
    /\ \A a \in Attempt : attempt[a].state = "sent" => attempt[a].token \in issued

\* An agent enrols only without a credential.
EnrolsOnce ==
    agent.pc \in {"enrolling", "holding"} => credential = None /\ agent.token \in Attempt

\* The agent has, or is about to have, the credential that came from a.
Holds(a) ==
    \/ credential = a
    \/ agent.token = a /\ agent.pc = "holding"
    \/ agent.token = a /\ agent.pc = "enrolling" /\ attempt[a].state = "answered"

\* What it holds is known by the server it was made for, and no request on its way can
\* replace it.
HeldIsKnown ==
    \A a \in Attempt : Holds(a) =>
        /\ madeFor[a] \in Server /\ madeFor[a] <= server
        /\ status # "unknown" /\ madeFor[a] = server => agentHash = a
        /\ \A b \in Attempt : attempt[b].state = "sent" => attempt[b].token # enrollHash

FleetInv == FleetTypeOK /\ Numbered /\ TokensKnown /\ EnrolsOnce /\ HeldIsKnown

(****************************************************************************)
(* Types, part by part.                                                     *)
(****************************************************************************)
RowTyped ==
    /\ server \in Server \cup {None}
    /\ mode \in {"managed", "watch", "none"}
    /\ status \in Status \cup {"unknown"}
    /\ routed \in BOOLEAN
    /\ secret \in {"key", "password", "none"}
    /\ enrollHash \in Token \cup {None}
    /\ agentHash \in Attempt \cup {None}
    /\ status = "unknown" =>
         mode = "none" /\ routed = FALSE /\ secret = "none" /\ enrollHash = None /\ agentHash = None

JobsTyped ==
    /\ survey \in [Server -> SurveyState]
    /\ setup \in [Setup -> SetupState]
    /\ of \in [Setup -> Server \cup {None}]
    /\ token \in [Setup -> Token \cup {None}]
    /\ issued \subseteq Token

AgentTyped ==
    agent \in [pc : {"absent", "starting", "enrolling", "holding", "running"},
               token : Attempt \cup {None}]

AttemptsTyped == attempt \in [Attempt -> [state : AttemptState, token : Token \cup {None}]]

MachineTyped ==
    /\ enrollment \in Token \cup {None}
    /\ credential \in Attempt \cup {None}
    /\ AgentTyped /\ AttemptsTyped
    /\ madeFor \in [Attempt -> Server \cup {None}]

ServingTyped ==
    /\ conn \in [Conn -> ConnState]
    /\ serves \in [Conn -> Server \cup {None}]
    /\ link \in Conn \cup {None}
    /\ hub \in [Server -> Conn \cup {None}]

CountedTyped == {timeouts, crashes, unmarked} \subseteq 0..MaxFaults

LEMMA TypedInParts ==
  FleetTypeOK <=> RowTyped /\ JobsTyped /\ MachineTyped /\ ServingTyped /\ CountedTyped
  BY DEF FleetTypeOK, RowTyped, JobsTyped, MachineTyped, AgentTyped, AttemptsTyped,
         ServingTyped, CountedTyped

\* What updating a status comes to, whichever server it is of.
Written == status' = status \/ (status # "unknown" /\ status' \in Status)

LEMMA UpdatesWrite ==
  ASSUME NEW r, NEW s \in Status, UpdateServerStatus(r, s) PROVE Written
  BY DEF UpdateServerStatus, IsThere, Exists, Written

\* What the jobs and the connections do to the row's status.
StatusStep ==
    \/ \E r \in Server : SurveyStep(r)
    \/ \E s \in Setup : SetupStep(s)
    \/ \E c \in Conn : ServeStep(c) \/ Heartbeat(c)

LEMMA StatusWritten == ASSUME StatusStep PROVE Written
<1>1. ASSUME UNCHANGED status PROVE Written
  BY <1>1 DEF Written
<1>2. ASSUME NEW r \in Server, SurveyStep(r) PROVE Written
  <2>1. UNCHANGED status \/ \E t \in Status : UpdateServerStatus(r, t)
    BY <1>2 DEF SurveyStep, SurveyLoads, SurveyMarks, SurveyRecords, Status
  <2> QED BY <1>1, <2>1, UpdatesWrite
<1>3. ASSUME NEW s \in Setup, SetupStep(s) PROVE Written
  <2>1. UNCHANGED status \/ \E t \in Status : UpdateServerStatus(of[s], t)
    <3>1. CASE QueueSetup(s) \/ SetupLoads(s) \/ SetupMarks(s) \/ SetupBreaks(s)
      BY <3>1 DEF QueueSetup, SetupLoads, SetupMarks, SetupBreaks, SetupFails, Status
    <3>2. CASE IssueEnrollmentToken(s) \/ WriteToken(s) \/ StartAgent(s)
      BY <3>2 DEF IssueEnrollmentToken, WriteToken, StartAgent, SetupFails, row, Status
    <3>3. CASE ForgetPassword(s) \/ AwaitAgent(s) \/ GiveUp(s)
      BY <3>3 DEF ForgetPassword, AwaitAgent, GiveUp, SetupFails, row, Status
    <3> QED BY <1>3, <3>1, <3>2, <3>3 DEF SetupStep
  <2> QED BY <1>1, <2>1, UpdatesWrite
<1>4. ASSUME NEW c \in Conn, ServeStep(c) \/ Heartbeat(c) PROVE Written
  <2>1. UNCHANGED status \/ \E t \in Status : UpdateServerStatus(serves[c], t)
    BY <1>4 DEF ServeStep, Add, Arrive, ReadEnds, MarkOffline, Remove, Heartbeat, row, Status
  <2> QED BY <1>1, <2>1, UpdatesWrite
<1> QED BY <1>2, <1>3, <1>4 DEF StatusStep

LEMMA RowKept == ASSUME FleetTypeOK, [FleetNext]_fleetVars PROVE RowTyped'
<1>0. RowTyped /\ None \notin Server
  BY TypedInParts, BoundsCounted DEF Server, None
<1>1. ASSUME UNCHANGED row PROVE RowTyped'
  BY <1>0, <1>1 DEF RowTyped, row
<1>2. ASSUME Written, UNCHANGED <<server, mode, routed, secret, enrollHash, agentHash>>
      PROVE  RowTyped'
  BY <1>0, <1>2 DEF RowTyped, Written, Status
<1>3. ASSUME NEW kind \in Kinds, NEW m \in {"managed", "watch"}, Connect(kind, m) PROVE RowTyped'
  <2>1. /\ server' \in Server /\ mode' = m /\ status' = "pending" /\ secret' = kind
        /\ UNCHANGED <<routed, enrollHash, agentHash>>
    BY <1>3 DEF Connect
  <2>2. kind \in {"key", "password"}
    BY BoundsCounted
  <2> QED BY <1>0, <2>1, <2>2 DEF RowTyped, Status
<1>4. CASE ChooseRouting \/ Delete
  BY <1>0, <1>4 DEF ChooseRouting, Delete, Exists, RowTyped
<1>5. ASSUME NEW r \in Server, SurveyLoads(r) \/ SurveyMarks(r) PROVE RowTyped'
  <2>1. Written
    BY <1>5, StatusWritten DEF StatusStep, SurveyStep
  <2> QED BY <1>2, <1>5, <2>1 DEF SurveyLoads, SurveyMarks
<1>6. ASSUME NEW r \in Server, SurveyRecords(r) PROVE RowTyped'
  <2>1. Written
    BY <1>6, StatusWritten DEF StatusStep, SurveyStep
  <2>2. /\ UNCHANGED <<server, mode, secret, enrollHash, agentHash>>
        /\ UNCHANGED routed \/ routed' = (routed \/ IsThere(r))
    BY <1>6 DEF SurveyRecords
  <2>3. CASE UNCHANGED routed
    BY <1>2, <2>1, <2>2, <2>3
  <2>4. CASE routed' = (routed \/ IsThere(r))
    <3>1. routed' \in BOOLEAN /\ (status = "unknown" => routed' = FALSE)
      BY <1>0, <2>4 DEF IsThere, Exists, RowTyped
    <3> QED BY <1>0, <2>1, <2>2, <3>1 DEF RowTyped, Written, Status
  <2> QED BY <2>2, <2>3, <2>4
<1>7. ASSUME NEW s \in Setup, \/ QueueSetup(s) \/ SetupLoads(s) \/ SetupMarks(s)
                              \/ SetupBreaks(s) \/ StartAgent(s) \/ GiveUp(s)
      PROVE  RowTyped'
  <2>1. UNCHANGED <<server, mode, routed, secret, enrollHash, agentHash>>
    BY <1>7 DEF QueueSetup, SetupLoads, SetupMarks, SetupBreaks, StartAgent, GiveUp
  <2>2. Written
    BY <1>7, StatusWritten DEF StatusStep, SetupStep
  <2> QED BY <1>2, <2>1, <2>2
<1>8. ASSUME NEW s \in Setup, IssueEnrollmentToken(s) PROVE RowTyped'
  BY <1>0, <1>8 DEF IssueEnrollmentToken, IsThere, Exists, RowTyped
<1>9. ASSUME NEW s \in Setup, ForgetPassword(s) PROVE RowTyped'
  BY <1>0, <1>9 DEF ForgetPassword, RowTyped
<1>10. ASSUME TokenExpires \/ \E a \in Attempt : Enroll(a) PROVE RowTyped'
  <2>1. status # "unknown" \/ UNCHANGED row
    BY <1>0, <1>10 DEF TokenExpires, Enroll, RowTyped, row
  <2> QED BY <1>0, <1>1, <1>10, <2>1 DEF TokenExpires, Enroll, RowTyped
<1>11. ASSUME NEW c \in Conn, Arrive(c) \/ MarkOffline(c) \/ Heartbeat(c) PROVE RowTyped'
  <2>1. Written
    BY <1>11, StatusWritten DEF StatusStep, ServeStep
  <2> QED BY <1>2, <1>11, <2>1 DEF Arrive, MarkOffline, Heartbeat
<1>12. ASSUME NEW s \in Setup, AskSetup(s) \/ WriteToken(s) \/ AwaitAgent(s) PROVE RowTyped'
  BY <1>1, <1>12 DEF AskSetup, WriteToken, AwaitAgent
<1>13. CASE \/ AgentStarts \/ Enrolled \/ KeepCredential \/ AgentRestarts \/ LinkLost
            \/ Crash \/ RunOutOfTime
  BY <1>1, <1>13
  DEF AgentStarts, Enrolled, KeepCredential, AgentRestarts, LinkLost, Crash, RunOutOfTime
<1>14. ASSUME NEW c \in Conn, \/ Accept(c) \/ Add(c) \/ ReadEnds(c) \/ Remove(c)
                              \/ ReadPanics(c) \/ MarkOfflineFails(c)
       PROVE  RowTyped'
  BY <1>1, <1>14 DEF Accept, Add, ReadEnds, Remove, ReadPanics, MarkOfflineFails
<1>15. CASE UNCHANGED fleetVars
  BY <1>1, <1>15 DEF fleetVars
<1> QED
  BY <1>3, <1>4, <1>5, <1>6, <1>7, <1>8, <1>9, <1>10, <1>11, <1>12, <1>13, <1>14, <1>15
  DEF FleetNext, Requests, SurveyStep, SetupStep, ServeStep

LEMMA JobsKept == ASSUME FleetTypeOK, [FleetNext]_fleetVars PROVE JobsTyped'
<1>0. JobsTyped /\ server \in Server \cup {None}
  BY TypedInParts DEF RowTyped
<1>1. ASSUME UNCHANGED jobs PROVE JobsTyped'
  BY <1>0, <1>1 DEF JobsTyped, jobs
<1>2. ASSUME UNCHANGED <<setup, of, token, issued>>, survey' \in [Server -> SurveyState]
      PROVE  JobsTyped'
  BY <1>0, <1>2 DEF JobsTyped
<1>3. ASSUME NEW s \in Setup, NEW pc \in SetupState, UNCHANGED <<survey, of, tokens>>,
             setup' = [setup EXCEPT ![s] = pc]
      PROVE  JobsTyped'
  <2>1. setup' \in [Setup -> SetupState]
    BY <1>0, <1>3 DEF JobsTyped
  <2>2. UNCHANGED <<survey, of, token, issued>>
    BY <1>3 DEF tokens
  <2> QED BY <1>0, <2>1, <2>2 DEF JobsTyped
<1>4. ASSUME NEW kind \in Kinds, NEW m \in {"managed", "watch"}, Connect(kind, m) PROVE JobsTyped'
  <2>1. /\ UNCHANGED <<setup, of, token, issued>>
        /\ survey' = [survey EXCEPT ![server + 1] = "queued"]
    BY <1>4 DEF Connect, tokens
  <2>2. survey' \in [Server -> SurveyState]
    BY <1>0, <2>1 DEF JobsTyped, SurveyState
  <2> QED BY <1>2, <2>1, <2>2
<1>5. ASSUME NEW r \in Server, SurveyStep(r) PROVE JobsTyped'
  <2>1. \E to \in SurveyState : survey' = [survey EXCEPT ![r] = to]
    BY <1>5 DEF SurveyStep, SurveyLoads, SurveyMarks, SurveyRecords, Looks, SurveyState
  <2>2. UNCHANGED <<setup, of, token, issued>>
    BY <1>5 DEF SurveyStep, SurveyLoads, SurveyMarks, SurveyRecords, tokens
  <2>3. survey' \in [Server -> SurveyState]
    BY <1>0, <2>1 DEF JobsTyped
  <2> QED BY <1>2, <2>2, <2>3
<1>6. ASSUME NEW s \in Setup, \/ QueueSetup(s) \/ SetupLoads(s) \/ SetupMarks(s)
                              \/ SetupBreaks(s) \/ StartAgent(s) \/ ForgetPassword(s)
                              \/ AwaitAgent(s) \/ GiveUp(s)
      PROVE  JobsTyped'
  <2>1. UNCHANGED <<survey, of, tokens>>
    BY <1>6
    DEF QueueSetup, SetupLoads, SetupMarks, SetupBreaks, StartAgent, ForgetPassword,
        AwaitAgent, GiveUp
  <2>2. \E pc \in SetupState : setup' = [setup EXCEPT ![s] = pc]
    BY <1>6
    DEF QueueSetup, SetupLoads, SetupMarks, SetupBreaks, StartAgent, ForgetPassword,
        AwaitAgent, GiveUp, Goes, SetupFails, SetupState
  <2> QED BY <1>3, <2>1, <2>2
<1>7. ASSUME NEW s \in Setup, IssueEnrollmentToken(s) PROVE JobsTyped'
  BY <1>0, <1>7 DEF IssueEnrollmentToken, First, Goes, JobsTyped, SetupState
<1>8. ASSUME NEW s \in Setup, WriteToken(s) PROVE JobsTyped'
  BY <1>0, <1>8 DEF WriteToken, Goes, JobsTyped, SetupState
<1>9. CASE Crash
  <2>1. UNCHANGED <<of, token, issued>>
    BY <1>9 DEF Crash, tokens
  <2>2. survey' \in [Server -> SurveyState]
    BY <1>0, <1>9 DEF Crash, JobsTyped, SurveyState
  <2>3. setup' \in [Setup -> SetupState]
    BY <1>0, <1>9 DEF Crash, JobsTyped, SetupState
  <2> QED BY <1>0, <2>1, <2>2, <2>3 DEF JobsTyped
<1>10. CASE ChooseRouting \/ Delete \/ TokenExpires \/ LinkLost \/ UNCHANGED fleetVars
  BY <1>1, <1>10 DEF ChooseRouting, Delete, TokenExpires, LinkLost, fleetVars
<1>11. CASE AgentStarts \/ Enrolled \/ KeepCredential \/ AgentRestarts
  BY <1>1, <1>11 DEF AgentStarts, Enrolled, KeepCredential, AgentRestarts
<1>12. ASSUME NEW a \in Attempt, Enroll(a) PROVE JobsTyped'
  BY <1>1, <1>12 DEF Enroll
<1>13. ASSUME NEW c \in Conn, \/ Accept(c) \/ ServeStep(c) \/ Heartbeat(c)
                              \/ ReadPanics(c) \/ MarkOfflineFails(c)
       PROVE  JobsTyped'
  BY <1>1, <1>13
  DEF Accept, ServeStep, Add, Arrive, ReadEnds, MarkOffline, Remove, Heartbeat, ReadPanics,
      MarkOfflineFails
<1>14. ASSUME NEW s \in Setup, AskSetup(s) PROVE JobsTyped'
  <2>1. /\ setup' = [setup EXCEPT ![s] = "asking"] /\ of' = [of EXCEPT ![s] = server]
        /\ UNCHANGED <<survey, token, issued>>
    BY <1>14 DEF AskSetup, tokens
  <2> QED BY <1>0, <2>1 DEF JobsTyped, SetupState
<1>15. CASE RunOutOfTime
  <2>1. UNCHANGED <<of, token, issued>>
    BY <1>15 DEF RunOutOfTime, tokens
  <2>2. CASE \E s \in Setup : Goes(s, setup[s], "done") /\ UNCHANGED survey
    BY <1>3, <2>1, <2>2 DEF Goes, SetupState, tokens
  <2>3. CASE \E r \in Server : survey' = [survey EXCEPT ![r] = "done"] /\ UNCHANGED setup
    <3>1. survey' \in [Server -> SurveyState]
      BY <1>0, <2>3 DEF JobsTyped, SurveyState
    <3> QED BY <1>2, <2>1, <2>3, <3>1
  <2> QED BY <1>15, <2>2, <2>3 DEF RunOutOfTime, Looks
<1> QED
  BY <1>4, <1>5, <1>6, <1>7, <1>8, <1>9, <1>10, <1>11, <1>12, <1>13, <1>14, <1>15
  DEF FleetNext, Requests, SetupStep

LEMMA MachineKept == ASSUME FleetTypeOK, [FleetNext]_fleetVars PROVE MachineTyped'
<1>0. MachineTyped /\ JobsTyped /\ None \notin Attempt
  BY BoundsCounted, TypedInParts DEF None, Attempt
<1>1. ASSUME UNCHANGED machine PROVE MachineTyped'
  BY <1>0, <1>1 DEF MachineTyped, AgentTyped, AttemptsTyped, machine
<1>2. ASSUME UNCHANGED <<enrollment, credential, madeFor>>, AgentTyped', AttemptsTyped'
      PROVE  MachineTyped'
  BY <1>0, <1>2 DEF MachineTyped
<1>3. AgentTyped /\ AttemptsTyped
  BY <1>0 DEF MachineTyped
<1>4. UNCHANGED agent => AgentTyped'
  BY <1>3 DEF AgentTyped
<1>5. UNCHANGED attempt => AttemptsTyped'
  BY <1>3 DEF AttemptsTyped
<1>6. ASSUME NEW pc \in {"absent", "starting", "enrolling", "holding", "running"},
             NEW t \in Attempt \cup {None}, agent' = [pc |-> pc, token |-> t]
      PROVE  AgentTyped'
  BY <1>6 DEF AgentTyped
<1>7. ASSUME NEW a \in Attempt, NEW r \in [state : AttemptState, token : Token \cup {None}],
             attempt' = [attempt EXCEPT ![a] = r]
      PROVE  AttemptsTyped'
  BY <1>3, <1>7 DEF AttemptsTyped
<1>8. {Over, Answered} \subseteq [state : AttemptState, token : Token \cup {None}]
  BY DEF Over, Answered, AttemptState
<1>9. agent.token \in Attempt \cup {None}
  BY <1>3 DEF AgentTyped
<1>10. ASSUME NEW s \in Setup, WriteToken(s) PROVE MachineTyped'
  <2>1. enrollment' \in Token \cup {None} /\ UNCHANGED <<credential, agent, attempt, madeFor>>
    BY <1>0, <1>10 DEF WriteToken, JobsTyped
  <2> QED BY <1>0, <1>4, <1>5, <2>1 DEF MachineTyped
<1>11. ASSUME NEW s \in Setup, StartAgent(s) PROVE MachineTyped'
  <2>1. /\ UNCHANGED agent \/ agent' = [pc |-> "starting", token |-> None]
        /\ UNCHANGED <<enrollment, credential, attempt, madeFor>>
    BY <1>11 DEF StartAgent
  <2> QED BY <1>2, <1>4, <1>5, <1>6, <2>1
<1>12. CASE AgentStarts
  <2>1. UNCHANGED <<enrollment, credential, madeFor>>
    BY <1>12 DEF AgentStarts
  <2>2. \E pc \in {"enrolling", "running"}, t \in Attempt \cup {None} :
           agent' = [pc |-> pc, token |-> t]
    BY <1>0, <1>12 DEF AgentStarts, First, MachineTyped
  <2>3. \/ UNCHANGED attempt
        \/ \E a \in Attempt : attempt' = [attempt EXCEPT ![a] =
                                            [state |-> "sent", token |-> enrollment]]
    BY <1>12 DEF AgentStarts
  <2>4. [state |-> "sent", token |-> enrollment] \in [state : AttemptState,
                                                      token : Token \cup {None}]
    BY <1>0 DEF MachineTyped, AttemptState
  <2> QED BY <1>2, <1>5, <1>6, <1>7, <2>1, <2>2, <2>3, <2>4
<1>13. CASE Enrolled
  <2>1. /\ UNCHANGED <<enrollment, credential, madeFor>>
        /\ agent' = [pc |-> "holding", token |-> agent.token]
        /\ attempt' = [attempt EXCEPT ![agent.token] = Over]
    BY <1>13 DEF Enrolled
  <2>2. AttemptsTyped'
    BY <1>3, <1>8, <2>1 DEF AttemptsTyped
  <2> QED BY <1>2, <1>6, <1>9, <2>1, <2>2
<1>14. CASE KeepCredential
  <2>1. /\ credential' = agent.token /\ enrollment' = None /\ UNCHANGED <<attempt, madeFor>>
        /\ agent' = [pc |-> "running", token |-> agent.token]
    BY <1>14 DEF KeepCredential
  <2> QED BY <1>0, <1>5, <1>6, <1>9, <2>1 DEF MachineTyped
<1>15. CASE AgentRestarts
  <2>1. /\ UNCHANGED <<enrollment, credential, madeFor>>
        /\ agent' = [pc |-> "starting", token |-> None]
        /\ attempt' = [a \in Attempt |-> IF attempt[a] = Answered THEN Over ELSE attempt[a]]
    BY <1>15 DEF AgentRestarts
  <2>2. AttemptsTyped'
    BY <1>3, <1>8, <2>1 DEF AttemptsTyped
  <2> QED BY <1>2, <1>6, <2>1, <2>2
<1>16. ASSUME NEW a \in Attempt, Enroll(a) PROVE MachineTyped'
  <2>1. /\ UNCHANGED <<enrollment, credential, agent>>
        /\ \E r \in {Over, Answered} : attempt' = [attempt EXCEPT ![a] = r]
        /\ UNCHANGED madeFor \/ madeFor' = [madeFor EXCEPT ![a] = server]
    BY <1>16 DEF Enroll
  <2>2. server \in Server \cup {None}
    BY TypedInParts DEF RowTyped
  <2>3. madeFor' \in [Attempt -> Server \cup {None}]
    BY <1>0, <2>1, <2>2 DEF MachineTyped
  <2>4. AgentTyped' /\ AttemptsTyped'
    BY <1>4, <1>7, <1>8, <2>1
  <2> QED BY <1>0, <2>1, <2>3, <2>4 DEF MachineTyped
<1>17. CASE Crash
  <2>1. /\ UNCHANGED <<enrollment, credential, agent, madeFor>>
        /\ attempt' = [a \in Attempt |-> IF attempt[a].state = "sent" THEN Over ELSE attempt[a]]
    BY <1>17 DEF Crash
  <2>2. AttemptsTyped'
    BY <1>3, <1>8, <2>1 DEF AttemptsTyped
  <2> QED BY <1>2, <1>4, <2>1, <2>2
<1>18. CASE Requests \/ \E r \in Server : SurveyStep(r)
  BY <1>1, <1>18
  DEF Requests, Connect, ChooseRouting, AskSetup, Delete, SurveyStep, SurveyLoads, SurveyMarks,
      SurveyRecords
<1>19. ASSUME NEW s \in Setup, \/ QueueSetup(s) \/ SetupLoads(s) \/ SetupMarks(s)
                               \/ SetupBreaks(s) \/ IssueEnrollmentToken(s) \/ ForgetPassword(s)
                               \/ AwaitAgent(s) \/ GiveUp(s)
       PROVE  MachineTyped'
  BY <1>1, <1>19
  DEF QueueSetup, SetupLoads, SetupMarks, SetupBreaks, IssueEnrollmentToken, ForgetPassword,
      AwaitAgent, GiveUp
<1>20. CASE TokenExpires \/ LinkLost \/ RunOutOfTime \/ UNCHANGED fleetVars
  BY <1>1, <1>20 DEF TokenExpires, LinkLost, RunOutOfTime, fleetVars
<1>21. ASSUME NEW c \in Conn, \/ Accept(c) \/ ServeStep(c) \/ Heartbeat(c)
                              \/ ReadPanics(c) \/ MarkOfflineFails(c)
       PROVE  MachineTyped'
  BY <1>1, <1>21
  DEF Accept, ServeStep, Add, Arrive, ReadEnds, MarkOffline, Remove, Heartbeat, ReadPanics,
      MarkOfflineFails
<1> QED
  BY <1>10, <1>11, <1>12, <1>13, <1>14, <1>15, <1>16, <1>17, <1>18, <1>19, <1>20, <1>21
  DEF FleetNext, SetupStep

LEMMA ServingKept == ASSUME FleetTypeOK, [FleetNext]_fleetVars PROVE ServingTyped'
<1>0. ServingTyped /\ server \in Server \cup {None}
  BY TypedInParts DEF RowTyped
<1>1. ASSUME UNCHANGED serving PROVE ServingTyped'
  BY <1>0, <1>1 DEF ServingTyped, serving
<1>2. ASSUME NEW c \in Conn, NEW st \in ConnState, conn' = [conn EXCEPT ![c] = st],
             UNCHANGED <<serves, link, hub>>
      PROVE  ServingTyped'
  BY <1>0, <1>2 DEF ServingTyped
<1>3. ASSUME NEW c \in Conn, \/ Accept(c) \/ ServeStep(c) \/ Heartbeat(c)
                             \/ ReadPanics(c) \/ MarkOfflineFails(c)
      PROVE  ServingTyped'
  <2>1. CASE Accept(c)
    <3>1. /\ conn' = [conn EXCEPT ![c] = "greeted"] /\ serves' = [serves EXCEPT ![c] = server]
          /\ link' = c /\ UNCHANGED hub
      BY <2>1 DEF Accept
    <3> QED BY <1>0, <3>1 DEF ServingTyped, ConnState
  <2>2. CASE Add(c)
    <3>1. /\ conn' = [conn EXCEPT ![c] = "added"] /\ UNCHANGED serves
          /\ hub' = [hub EXCEPT ![serves[c]] = c] /\ link' \in {link, None}
      BY <2>2 DEF Add
    <3> QED BY <1>0, <3>1 DEF ServingTyped, ConnState
  <2>3. CASE Arrive(c) \/ ReadEnds(c) \/ MarkOffline(c) \/ ReadPanics(c) \/ MarkOfflineFails(c)
    <3>1. \E st \in ConnState : conn' = [conn EXCEPT ![c] = st]
      BY <2>3 DEF Arrive, ReadEnds, MarkOffline, ReadPanics, MarkOfflineFails, ConnState
    <3>2. UNCHANGED <<serves, link, hub>>
      BY <2>3 DEF Arrive, ReadEnds, MarkOffline, ReadPanics, MarkOfflineFails
    <3> QED BY <1>2, <3>1, <3>2
  <2>4. CASE Remove(c)
    <3>1. /\ conn' = [conn EXCEPT ![c] = "free"] /\ serves' = [serves EXCEPT ![c] = None]
          /\ link' \in {link, None}
          /\ hub' = [hub EXCEPT ![serves[c]] = IF @ = c THEN None ELSE @]
      BY <2>4 DEF Remove
    <3>2. hub' \in [Server -> Conn \cup {None}]
      BY <1>0, <3>1 DEF ServingTyped
    <3> QED BY <1>0, <3>1, <3>2 DEF ServingTyped, ConnState
  <2>5. CASE Heartbeat(c)
    BY <1>1, <2>5 DEF Heartbeat
  <2> QED BY <1>3, <2>1, <2>2, <2>3, <2>4, <2>5 DEF ServeStep
<1>4. CASE AgentRestarts \/ LinkLost
  BY <1>0, <1>4 DEF AgentRestarts, LinkLost, ServingTyped
<1>5. CASE Crash
  BY <1>0, <1>5 DEF Crash, ServingTyped, ConnState
<1>6. CASE Requests \/ \E r \in Server : SurveyStep(r)
  BY <1>1, <1>6
  DEF Requests, Connect, ChooseRouting, AskSetup, Delete, SurveyStep, SurveyLoads, SurveyMarks,
      SurveyRecords
<1>7. ASSUME NEW s \in Setup, SetupStep(s) PROVE ServingTyped'
  BY <1>1, <1>7
  DEF SetupStep, QueueSetup, SetupLoads, SetupMarks, SetupBreaks, IssueEnrollmentToken,
      WriteToken, StartAgent, ForgetPassword, AwaitAgent, GiveUp
<1>8. CASE \/ AgentStarts \/ Enrolled \/ KeepCredential \/ TokenExpires \/ RunOutOfTime
           \/ UNCHANGED fleetVars
  BY <1>1, <1>8 DEF AgentStarts, Enrolled, KeepCredential, TokenExpires, RunOutOfTime, fleetVars
<1>9. ASSUME NEW a \in Attempt, Enroll(a) PROVE ServingTyped'
  BY <1>1, <1>9 DEF Enroll
<1> QED BY <1>3, <1>4, <1>5, <1>6, <1>7, <1>8, <1>9 DEF FleetNext

LEMMA CountedKept == ASSUME FleetTypeOK, [FleetNext]_fleetVars PROVE CountedTyped'
<1>0. CountedTyped /\ MaxFaults \in Nat
  BY BoundsCounted, TypedInParts
<1>1. ASSUME UNCHANGED counted PROVE CountedTyped'
  BY <1>0, <1>1 DEF CountedTyped, counted
<1>2. ASSUME \/ Crash \/ RunOutOfTime
             \/ \E c \in Conn : ReadPanics(c) \/ MarkOfflineFails(c)
      PROVE  CountedTyped'
  <2>1. /\ timeouts + crashes + unmarked + server <= MaxFaults /\ server # None
        /\ \/ timeouts' = timeouts + 1 /\ UNCHANGED <<crashes, unmarked>>
           \/ crashes' = crashes + 1 /\ UNCHANGED <<timeouts, unmarked>>
           \/ unmarked' = unmarked + 1 /\ UNCHANGED <<timeouts, crashes>>
    BY <1>2 DEF Crash, RunOutOfTime, ReadPanics, MarkOfflineFails, MayGoOn
  <2>2. server \in Nat /\ server >= 1
    BY <2>1, TypedInParts, BoundsCounted DEF RowTyped, Server, None
  <2>3. timeouts \in Nat /\ crashes \in Nat /\ unmarked \in Nat
    BY <1>0 DEF CountedTyped
  <2> QED BY <1>0, <2>1, <2>2, <2>3 DEF CountedTyped
<1>3. CASE Requests \/ \E r \in Server : SurveyStep(r)
  BY <1>1, <1>3
  DEF Requests, Connect, ChooseRouting, AskSetup, Delete, SurveyStep, SurveyLoads, SurveyMarks,
      SurveyRecords
<1>4. ASSUME NEW s \in Setup, SetupStep(s) PROVE CountedTyped'
  BY <1>1, <1>4
  DEF SetupStep, QueueSetup, SetupLoads, SetupMarks, SetupBreaks, IssueEnrollmentToken,
      WriteToken, StartAgent, ForgetPassword, AwaitAgent, GiveUp
<1>5. CASE \/ AgentStarts \/ Enrolled \/ KeepCredential \/ AgentRestarts \/ TokenExpires
           \/ LinkLost \/ UNCHANGED fleetVars
  BY <1>1, <1>5
  DEF AgentStarts, Enrolled, KeepCredential, AgentRestarts, TokenExpires, LinkLost, fleetVars
<1>6. ASSUME NEW a \in Attempt, Enroll(a) PROVE CountedTyped'
  BY <1>1, <1>6 DEF Enroll
<1>7. ASSUME NEW c \in Conn, Accept(c) \/ ServeStep(c) \/ Heartbeat(c) PROVE CountedTyped'
  BY <1>1, <1>7 DEF Accept, ServeStep, Add, Arrive, ReadEnds, MarkOffline, Remove, Heartbeat
<1> QED BY <1>2, <1>3, <1>4, <1>5, <1>6, <1>7 DEF FleetNext

LEMMA TypeKept == ASSUME FleetTypeOK, [FleetNext]_fleetVars PROVE FleetTypeOK'
<1>1. RowTyped' /\ JobsTyped' /\ MachineTyped' /\ ServingTyped' /\ CountedTyped'
  BY RowKept, JobsKept, MachineKept, ServingKept, CountedKept
<1> QED
  BY <1>1 DEF FleetTypeOK, RowTyped, JobsTyped, MachineTyped, AgentTyped, AttemptsTyped,
              ServingTyped, CountedTyped

(****************************************************************************)
(* What a token and a credential go through.                                *)
(****************************************************************************)
papers == <<server, enrollHash, agentHash, token, issued, enrollment, credential, agent,
            attempt, madeFor>>

\* The steps that touch one.
PaperStep ==
    \/ \E kind \in Kinds, m \in {"managed", "watch"} : Connect(kind, m)
    \/ Delete \/ TokenExpires
    \/ \E s \in Setup : IssueEnrollmentToken(s) \/ WriteToken(s) \/ StartAgent(s)
    \/ \E a \in Attempt : Enroll(a)
    \/ AgentStarts \/ Enrolled \/ KeepCredential \/ AgentRestarts
    \/ Crash

LEMMA OthersTouchNone ==
  ASSUME [FleetNext]_fleetVars PROVE PaperStep \/ UNCHANGED papers
<1> USE DEF papers
<1>1. CASE Requests
  <2>1. CASE ChooseRouting \/ \E s \in Setup : AskSetup(s)
    BY <2>1 DEF ChooseRouting, AskSetup, row, jobs, tokens, machine
  <2> QED BY <1>1, <2>1 DEF PaperStep, Requests
<1>2. ASSUME NEW r \in Server, SurveyStep(r) PROVE UNCHANGED papers
  BY <1>2 DEF SurveyStep, SurveyLoads, SurveyMarks, SurveyRecords, row, tokens, machine
<1>3. ASSUME NEW s \in Setup, SetupStep(s) PROVE PaperStep \/ UNCHANGED papers
  <2>1. CASE IssueEnrollmentToken(s) \/ WriteToken(s) \/ StartAgent(s)
    BY <2>1 DEF PaperStep
  <2>2. CASE \/ QueueSetup(s) \/ SetupLoads(s) \/ SetupMarks(s) \/ SetupBreaks(s)
             \/ ForgetPassword(s)
    BY <2>2
    DEF QueueSetup, SetupLoads, SetupMarks, SetupBreaks, ForgetPassword, tokens, machine
  <2>3. CASE AwaitAgent(s) \/ GiveUp(s)
    BY <2>3 DEF AwaitAgent, GiveUp, row, tokens, machine
  <2> QED BY <1>3, <2>1, <2>2, <2>3 DEF SetupStep
<1>4. ASSUME NEW c \in Conn, \/ Accept(c) \/ ServeStep(c) \/ Heartbeat(c)
                             \/ ReadPanics(c) \/ MarkOfflineFails(c)
      PROVE  UNCHANGED papers
  BY <1>4
  DEF Accept, ServeStep, Add, Arrive, ReadEnds, MarkOffline, Remove, Heartbeat, ReadPanics,
      MarkOfflineFails, row, jobs, machine
<1>5. CASE LinkLost \/ RunOutOfTime \/ UNCHANGED fleetVars
  BY <1>5 DEF LinkLost, RunOutOfTime, fleetVars, row, jobs, tokens, machine
<1>6. CASE TokenExpires \/ Crash \/ AgentStarts \/ Enrolled \/ KeepCredential \/ AgentRestarts
  BY <1>6 DEF PaperStep
<1>7. CASE \E a \in Attempt : Enroll(a)
  BY <1>7 DEF PaperStep
<1> QED BY <1>1, <1>2, <1>3, <1>4, <1>5, <1>6, <1>7 DEF FleetNext

\* A row comes only with a number of its own, and a job with the server it is about.
LEMMA NumbersStay ==
  ASSUME FleetTypeOK, Numbered, [FleetNext]_fleetVars PROVE Numbered'
<1>1. /\ status # "unknown" => server \in Server
      /\ \A s \in Setup : setup[s] # "unasked" => of[s] \in Server
      /\ setup \in [Setup -> SetupState] /\ of \in [Setup -> Server \cup {None}]
  BY DEF Numbered, FleetTypeOK
<1>2. ASSUME Written \/ status' = "unknown", UNCHANGED <<server, of>>,
             \A s \in Setup : setup'[s] # "unasked" => setup[s] # "unasked"
      PROVE  Numbered'
  <2>1. status' # "unknown" => status # "unknown"
    BY <1>2 DEF Written
  <2> QED BY <1>1, <1>2, <2>1 DEF Numbered
<1>3. UNCHANGED status => Written
  BY DEF Written
<1>4. UNCHANGED setup => \A s \in Setup : setup'[s] # "unasked" => setup[s] # "unasked"
  OBVIOUS
<1>5. ASSUME NEW kind \in Kinds, NEW m \in {"managed", "watch"}, Connect(kind, m) PROVE Numbered'
  BY <1>1, <1>5 DEF Connect, Numbered
<1>6. CASE ChooseRouting \/ Delete
  <2>1. UNCHANGED <<server, of, setup>> /\ (UNCHANGED status \/ status' = "unknown")
    BY <1>6 DEF ChooseRouting, Delete, jobs
  <2> QED BY <1>2, <1>3, <1>4, <2>1
<1>7. ASSUME NEW s \in Setup, AskSetup(s) PROVE Numbered'
  <2>1. /\ setup' = [setup EXCEPT ![s] = "asking"] /\ of' = [of EXCEPT ![s] = server]
        /\ UNCHANGED <<status, server>> /\ status # "unknown"
    BY <1>7 DEF AskSetup, Exists, row
  <2> QED BY <1>1, <2>1 DEF Numbered
<1>8. ASSUME NEW r \in Server, SurveyStep(r) PROVE Numbered'
  <2>1. Written
    BY <1>8, StatusWritten DEF StatusStep
  <2>2. UNCHANGED <<server, of, setup>>
    BY <1>8 DEF SurveyStep, SurveyLoads, SurveyMarks, SurveyRecords
  <2> QED BY <1>2, <1>4, <2>1, <2>2
<1>9. ASSUME NEW s \in Setup, SetupStep(s) PROVE Numbered'
  <2>1. Written
    BY <1>9, StatusWritten DEF StatusStep
  <2>2. /\ setup[s] # "unasked" /\ UNCHANGED <<server, of>>
        /\ \E pc \in SetupState : setup' = [setup EXCEPT ![s] = pc]
    <3>1. CASE QueueSetup(s) \/ SetupLoads(s) \/ SetupMarks(s) \/ SetupBreaks(s)
      BY <3>1 DEF QueueSetup, SetupLoads, SetupMarks, SetupBreaks, SetupFails, Goes, SetupState
    <3>2. CASE IssueEnrollmentToken(s) \/ WriteToken(s) \/ StartAgent(s)
      BY <3>2 DEF IssueEnrollmentToken, WriteToken, StartAgent, SetupFails, Goes, SetupState, row
    <3>3. CASE ForgetPassword(s) \/ AwaitAgent(s) \/ GiveUp(s)
      BY <3>3 DEF ForgetPassword, AwaitAgent, GiveUp, SetupFails, Goes, SetupState, row
    <3> QED BY <1>9, <3>1, <3>2, <3>3 DEF SetupStep
  <2>3. \A t \in Setup : setup'[t] # "unasked" => setup[t] # "unasked"
    BY <1>1, <2>2
  <2> QED BY <1>2, <2>1, <2>2, <2>3
<1>10. CASE RunOutOfTime
  <2>1. UNCHANGED <<server, of, status>>
    BY <1>10 DEF RunOutOfTime, row
  <2>2. \A t \in Setup : setup'[t] # "unasked" => setup[t] # "unasked"
    <3>1. UNCHANGED setup \/ \E s \in Setup : /\ setup[s] \in Running
                                              /\ setup' = [setup EXCEPT ![s] = "done"]
      BY <1>10 DEF RunOutOfTime, Goes
    <3> QED BY <1>1, <3>1 DEF Running
  <2> QED BY <1>2, <1>3, <2>1, <2>2
<1>11. CASE Crash
  <2>1. UNCHANGED <<server, of, status>>
    BY <1>11 DEF Crash, row
  <2>2. \A t \in Setup : setup'[t] # "unasked" => setup[t] # "unasked"
    BY <1>11 DEF Crash, Running
  <2> QED BY <1>2, <1>3, <2>1, <2>2
<1>12. CASE AgentStarts \/ Enrolled \/ KeepCredential \/ AgentRestarts
  BY <1>2, <1>3, <1>4, <1>12
  DEF AgentStarts, Enrolled, KeepCredential, AgentRestarts, row, jobs
<1>13. CASE TokenExpires \/ LinkLost \/ UNCHANGED fleetVars \/ \E a \in Attempt : Enroll(a)
  BY <1>2, <1>3, <1>4, <1>13 DEF TokenExpires, LinkLost, Enroll, fleetVars, row, jobs
<1>14. ASSUME NEW c \in Conn, \/ Accept(c) \/ ServeStep(c) \/ Heartbeat(c)
                              \/ ReadPanics(c) \/ MarkOfflineFails(c)
       PROVE  Numbered'
  <2>1. UNCHANGED <<server, of, setup>>
    BY <1>14
    DEF Accept, ServeStep, Add, Arrive, ReadEnds, MarkOffline, Remove, Heartbeat, ReadPanics,
        MarkOfflineFails, row, jobs
  <2>2. Written
    <3>1. CASE ServeStep(c) \/ Heartbeat(c)
      BY <3>1, StatusWritten DEF StatusStep
    <3>2. CASE Accept(c) \/ ReadPanics(c) \/ MarkOfflineFails(c)
      BY <1>3, <3>2 DEF Accept, ReadPanics, MarkOfflineFails, row
    <3> QED BY <1>14, <3>1, <3>2
  <2> QED BY <1>2, <1>4, <2>1, <2>2
<1> QED
  BY <1>5, <1>6, <1>7, <1>8, <1>9, <1>10, <1>11, <1>12, <1>13, <1>14 DEF FleetNext, Requests

\* No row comes but by Connect.
LEMMA OnlyConnect ==
  ASSUME [FleetNext]_fleetVars, UNCHANGED server
  PROVE  status' # "unknown" => status # "unknown"
<1> DEFINE Goal == status' # "unknown" => status # "unknown"
<1>1. Written \/ status' = "unknown" => Goal
  BY DEF Written
<1>2. UNCHANGED status => Goal
  OBVIOUS
<1>3. ASSUME NEW kind \in Kinds, NEW m \in {"managed", "watch"}, Connect(kind, m) PROVE Goal
  <2>1. server' = server + 1 /\ server + 1 \in Server
    BY <1>3 DEF Connect
  <2> QED BY <2>1, BoundsCounted DEF Server
<1>4. CASE ChooseRouting \/ Delete
  BY <1>4 DEF ChooseRouting, Delete
<1>5. CASE \E s \in Setup : AskSetup(s)
  BY <1>5 DEF AskSetup, row
<1>6. CASE StatusStep
  BY <1>1, <1>6, StatusWritten
<1>7. CASE AgentStarts \/ Enrolled \/ KeepCredential \/ AgentRestarts \/ Crash \/ RunOutOfTime
  BY <1>7 DEF AgentStarts, Enrolled, KeepCredential, AgentRestarts, Crash, RunOutOfTime, row
<1>8. CASE TokenExpires \/ LinkLost \/ UNCHANGED fleetVars \/ \E a \in Attempt : Enroll(a)
  BY <1>8 DEF TokenExpires, LinkLost, Enroll, fleetVars, row
<1>9. CASE \E c \in Conn : Accept(c) \/ ReadPanics(c) \/ MarkOfflineFails(c)
  BY <1>9 DEF Accept, ReadPanics, MarkOfflineFails, row
<1> QED
  BY <1>3, <1>4, <1>5, <1>6, <1>7, <1>8, <1>9 DEF FleetNext, Requests, StatusStep

\* A token goes from where it is issued to the machine and into requests.
LEMMA TokensStayKnown ==
  ASSUME FleetTypeOK, TokensKnown, [FleetNext]_fleetVars PROVE TokensKnown'
<1>1. /\ enrollHash \in issued \cup {None}
      /\ \A s \in Setup : token[s] \in issued \cup {None}
      /\ enrollment \in issued \cup {None}
      /\ \A a \in Attempt : attempt[a].state = "sent" => attempt[a].token \in issued
  BY DEF TokensKnown
<1>2. /\ token \in [Setup -> Token \cup {None}]
      /\ attempt \in [Attempt -> [state : AttemptState, token : Token \cup {None}]]
  BY DEF FleetTypeOK
<1>3. ASSUME UNCHANGED <<token, issued, enrollment, attempt>>,
             enrollHash' \in {enrollHash, None}
      PROVE  TokensKnown'
  BY <1>1, <1>3 DEF TokensKnown
<1>4. ASSUME NEW r, NEW a \in Attempt, r.state # "sent",
             attempt' = [attempt EXCEPT ![a] = r],
             UNCHANGED <<token, issued, enrollment>>, enrollHash' \in {enrollHash, None}
      PROVE  TokensKnown'
  <2>1. \A b \in Attempt : attempt'[b].state = "sent" => attempt'[b] = attempt[b]
    BY <1>2, <1>4
  <2> QED BY <1>1, <1>4, <2>1 DEF TokensKnown
<1>5. Over.state # "sent" /\ Answered.state # "sent"
  BY DEF Over, Answered
<1>6. CASE UNCHANGED papers
  BY <1>3, <1>6 DEF papers
<1>7. CASE Delete \/ TokenExpires
  BY <1>3, <1>7 DEF Delete, TokenExpires, jobs, tokens, machine
<1>7a. ASSUME NEW kind \in Kinds, NEW m \in {"managed", "watch"}, Connect(kind, m)
       PROVE  TokensKnown'
  BY <1>3, <1>7a DEF Connect, tokens, machine
<1>8. ASSUME NEW s \in Setup, IssueEnrollmentToken(s) PROVE TokensKnown'
  <2>1. PICK t \in Token : /\ issued' = issued \cup {t} /\ token' = [token EXCEPT ![s] = t]
                           /\ enrollHash' \in {t, enrollHash}
    BY <1>8 DEF IssueEnrollmentToken
  <2>2. UNCHANGED <<enrollment, attempt>>
    BY <1>8 DEF IssueEnrollmentToken, machine
  <2>3. \A r \in Setup : token'[r] \in {token[r], t}
    BY <1>2, <2>1
  <2> QED BY <1>1, <2>1, <2>2, <2>3 DEF TokensKnown
<1>9. ASSUME NEW s \in Setup, WriteToken(s) PROVE TokensKnown'
  <2>1. /\ enrollment' = token[s] /\ token' = [token EXCEPT ![s] = None]
        /\ UNCHANGED <<enrollHash, issued, attempt>>
    BY <1>9 DEF WriteToken, row
  <2>2. \A r \in Setup : token'[r] \in {token[r], None}
    BY <1>2, <2>1
  <2> QED BY <1>1, <2>1, <2>2 DEF TokensKnown
<1>10. ASSUME NEW s \in Setup, StartAgent(s) PROVE TokensKnown'
  BY <1>3, <1>10 DEF StartAgent, tokens
<1>11. ASSUME NEW a \in Attempt, Enroll(a) PROVE TokensKnown'
  <2>1. /\ UNCHANGED <<token, issued, enrollment>> /\ enrollHash' \in {enrollHash, None}
        /\ \E r \in {Over, Answered} : attempt' = [attempt EXCEPT ![a] = r]
    BY <1>11 DEF Enroll, jobs
  <2> QED BY <1>4, <1>5, <2>1
<1>12. CASE AgentStarts
  <2>1. UNCHANGED <<enrollHash, token, issued, enrollment>>
    BY <1>12 DEF AgentStarts, row, jobs
  <2>2. CASE UNCHANGED attempt
    BY <1>3, <2>1, <2>2
  <2>3. CASE /\ enrollment # None
             /\ \E a \in Attempt : attempt' = [attempt EXCEPT ![a] =
                                                 [state |-> "sent", token |-> enrollment]]
    <3>1. \A b \in Attempt : attempt'[b] = attempt[b] \/ attempt'[b].token = enrollment
      BY <1>2, <2>3
    <3> QED BY <1>1, <2>1, <2>3, <3>1 DEF TokensKnown
  <2> QED BY <1>12, <2>2, <2>3 DEF AgentStarts
<1>13. CASE Enrolled
  <2>1. /\ UNCHANGED <<enrollHash, token, issued, enrollment>>
        /\ attempt' = [attempt EXCEPT ![agent.token] = Over]
    BY <1>13 DEF Enrolled, row, jobs
  <2>2. \A b \in Attempt : attempt'[b].state = "sent" => attempt'[b] = attempt[b]
    BY <1>2, <1>5, <2>1
  <2> QED BY <1>1, <2>1, <2>2 DEF TokensKnown
<1>14. CASE KeepCredential
  BY <1>1, <1>14 DEF KeepCredential, TokensKnown, row, jobs
<1>15. CASE AgentRestarts \/ Crash
  <2>1. /\ UNCHANGED <<enrollHash, token, issued, enrollment>>
        /\ \A b \in Attempt : attempt'[b] \in {Over, attempt[b]}
    BY <1>15 DEF AgentRestarts, Crash, row, jobs, tokens
  <2> QED BY <1>1, <1>5, <2>1 DEF TokensKnown
<1> QED
  BY OthersTouchNone, <1>6, <1>7, <1>7a, <1>8, <1>9, <1>10, <1>11, <1>12, <1>13, <1>14, <1>15
  DEF PaperStep

\* A process with a credential never enrols.
LEMMA EnrolsOnceKept ==
  ASSUME FleetTypeOK, EnrolsOnce, [FleetNext]_fleetVars PROVE EnrolsOnce'
<1>1. agent.pc \in {"enrolling", "holding"} => credential = None /\ agent.token \in Attempt
  BY DEF EnrolsOnce
<1>2. ASSUME UNCHANGED <<agent, credential>> PROVE EnrolsOnce'
  BY <1>1, <1>2 DEF EnrolsOnce
<1>3. ASSUME NEW pc \in {"starting", "running"}, NEW t, agent' = [pc |-> pc, token |-> t]
      PROVE  EnrolsOnce'
  BY <1>3 DEF EnrolsOnce
<1>4. CASE UNCHANGED papers
  BY <1>2, <1>4 DEF papers
<1>5. ASSUME \/ \E kind \in Kinds, m \in {"managed", "watch"} : Connect(kind, m)
             \/ Delete \/ TokenExpires \/ Crash
             \/ \E s \in Setup : IssueEnrollmentToken(s) \/ WriteToken(s)
             \/ \E a \in Attempt : Enroll(a)
      PROVE  EnrolsOnce'
  BY <1>2, <1>5
  DEF Connect, Delete, TokenExpires, Crash, IssueEnrollmentToken, WriteToken, Enroll, machine
<1>6. ASSUME NEW s \in Setup, StartAgent(s) PROVE EnrolsOnce'
  <2>1. UNCHANGED agent \/ agent' = [pc |-> "starting", token |-> None]
    BY <1>6 DEF StartAgent
  <2>2. UNCHANGED credential
    BY <1>6 DEF StartAgent
  <2> QED BY <1>2, <1>3, <2>1, <2>2
<1>7. CASE AgentStarts
  <2>1. CASE agent' = [pc |-> "running", token |-> credential]
    BY <1>3, <2>1
  <2>2. CASE credential = None /\ \E a \in Attempt : agent' = [pc |-> "enrolling", token |-> a]
    <3>1. UNCHANGED credential
      BY <1>7 DEF AgentStarts
    <3> QED BY <2>2, <3>1 DEF EnrolsOnce
  <2> QED BY <1>7, <2>1, <2>2 DEF AgentStarts
<1>8. CASE Enrolled
  <2>1. /\ agent.pc = "enrolling" /\ agent' = [pc |-> "holding", token |-> agent.token]
        /\ UNCHANGED credential
    BY <1>8 DEF Enrolled
  <2> QED BY <1>1, <2>1 DEF EnrolsOnce
<1>9. CASE KeepCredential \/ AgentRestarts
  BY <1>3, <1>9 DEF KeepCredential, AgentRestarts
<1> QED
  BY OthersTouchNone, <1>4, <1>5, <1>6, <1>7, <1>8, <1>9 DEF PaperStep

\* A token is issued once, so what replaced a credential would be a request sent since,
\* and nothing is sent by an agent that holds one.
LEMMA HeldStaysKnown ==
  ASSUME FleetInv, [FleetNext]_fleetVars PROVE HeldIsKnown'
<1>1. FleetTypeOK /\ Numbered /\ TokensKnown /\ EnrolsOnce /\ HeldIsKnown
  BY DEF FleetInv
<1>2. /\ attempt \in [Attempt -> [state : AttemptState, token : Token \cup {None}]]
      /\ madeFor \in [Attempt -> Server \cup {None}] /\ server \in Server \cup {None}
      /\ issued \subseteq Token /\ None \notin Token /\ None \notin Attempt
      /\ Server \subseteq Nat /\ None \in Nat
  BY <1>1, BoundsCounted DEF FleetTypeOK, Token, Attempt, Server, None
<1>3. ASSUME Written \/ status' = "unknown" PROVE Exists' => Exists
  BY <1>3 DEF Written, Exists
<1>4. UNCHANGED status => Written
  BY DEF Written
<1>5. ASSUME NEW a \in Attempt, Holds(a)
      PROVE  /\ madeFor[a] \in Server /\ madeFor[a] <= server
             /\ Exists /\ madeFor[a] = server => agentHash = a
             /\ \A b \in Attempt : attempt[b].state = "sent" => attempt[b].token # enrollHash
  BY <1>1, <1>5 DEF HeldIsKnown, Exists
<1>6. \A b \in Attempt : attempt[b].state = "sent" => attempt[b].token \in issued
  BY <1>1 DEF TokensKnown
<1>7. ASSUME \A a \in Attempt : Holds(a)' => Holds(a),
             \A b \in Attempt : attempt'[b].state = "sent" => attempt'[b] = attempt[b],
             UNCHANGED <<server, madeFor, agentHash>>, Exists' => Exists,
             \/ enrollHash' \in {enrollHash, None}
             \/ enrollHash' \in Token \ issued
      PROVE  HeldIsKnown'
  <2>1. \A b \in Attempt : attempt'[b].state = "sent" => attempt'[b].token \in issued
    BY <1>6, <1>7
  <2>2. ASSUME NEW a \in Attempt, Holds(a)'
        PROVE  \A b \in Attempt : attempt'[b].state = "sent" => attempt'[b].token # enrollHash'
    BY <1>2, <1>5, <1>7, <2>1, <2>2
  <2>3. ASSUME NEW a \in Attempt, Holds(a)'
        PROVE  /\ madeFor'[a] \in Server /\ madeFor'[a] <= server'
               /\ Exists' /\ madeFor'[a] = server' => agentHash' = a
    BY <1>5, <1>7, <2>3
  <2> QED BY <2>2, <2>3 DEF HeldIsKnown, Exists
<1>8. ASSUME UNCHANGED <<agent, credential, attempt>> PROVE \A a \in Attempt : Holds(a)' => Holds(a)
  BY <1>8 DEF Holds
<1>9. CASE UNCHANGED papers
  <2>1. status' # "unknown" => status # "unknown"
    BY <1>1, <1>9, OnlyConnect DEF papers
  <2> QED BY <1>7, <1>8, <1>9, <2>1 DEF papers, Exists
<1>9a. ASSUME NEW kind \in Kinds, NEW m \in {"managed", "watch"}, Connect(kind, m)
       PROVE  HeldIsKnown'
  <2>1. /\ server' = server + 1 /\ server' \in Server
        /\ UNCHANGED <<enrollHash, agentHash, madeFor, agent, credential, attempt>>
    BY <1>9a DEF Connect, machine
  <2>2. ASSUME NEW a \in Attempt, Holds(a)'
        PROVE  /\ madeFor'[a] \in Server /\ madeFor'[a] < server'
               /\ \A b \in Attempt : attempt'[b].state = "sent" => attempt'[b].token # enrollHash'
    <3>1. Holds(a)
      BY <2>1, <2>2 DEF Holds
    <3>2. /\ madeFor[a] \in Server /\ madeFor[a] <= server
          /\ \A b \in Attempt : attempt[b].state = "sent" => attempt[b].token # enrollHash
      BY <1>5, <3>1
    <3>3. madeFor[a] \in Nat /\ server \in Nat
      BY <1>2, <3>2
    <3>4. madeFor' = madeFor /\ attempt' = attempt /\ enrollHash' = enrollHash
      BY <2>1
    <3>5. madeFor'[a] \in Server /\ madeFor'[a] < server'
      BY <2>1, <3>2, <3>3, <3>4
    <3>6. \A b \in Attempt : attempt'[b].state = "sent" => attempt'[b].token # enrollHash'
      BY <3>2, <3>4
    <3> QED BY <3>5, <3>6
  <2>3. ASSUME NEW a \in Attempt, Holds(a)' PROVE madeFor'[a] <= server' /\ madeFor'[a] # server'
    <3>1. madeFor'[a] \in Nat /\ server' \in Nat
      BY <1>2, <2>1, <2>2, <2>3
    <3> QED BY <2>2, <2>3, <3>1
  <2> QED BY <2>2, <2>3 DEF HeldIsKnown
<1>10. CASE Delete \/ TokenExpires
  <2>1. /\ enrollHash' = None /\ UNCHANGED <<server, madeFor, agent, credential, attempt>>
        /\ \/ UNCHANGED <<agentHash, status>>
           \/ ~ Exists'
    BY <1>10 DEF Delete, TokenExpires, Exists, machine
  <2>2. CASE UNCHANGED <<agentHash, status>>
    BY <1>7, <1>8, <2>1, <2>2 DEF Exists
  <2>3. CASE ~ Exists'
    <3>2. ASSUME NEW a \in Attempt, Holds(a)'
          PROVE  madeFor'[a] \in Server /\ madeFor'[a] <= server'
      BY <1>5, <1>8, <2>1, <3>2
    <3>1. \A b \in Attempt : attempt'[b].state = "sent" => attempt'[b].token # enrollHash'
      BY <1>2, <1>6, <2>1
    <3> QED BY <2>3, <3>1, <3>2 DEF HeldIsKnown, Exists
  <2> QED BY <2>1, <2>2, <2>3
<1>11. ASSUME NEW s \in Setup, IssueEnrollmentToken(s) PROVE HeldIsKnown'
  <2>1. /\ UNCHANGED <<server, status, agentHash, madeFor, agent, credential, attempt>>
        /\ enrollHash' = enrollHash \/ enrollHash' \in Token \ issued
    BY <1>11 DEF IssueEnrollmentToken, First, machine
  <2> QED BY <1>7, <1>8, <2>1 DEF Exists
<1>12. ASSUME NEW s \in Setup, WriteToken(s) PROVE HeldIsKnown'
  BY <1>7, <1>8, <1>12 DEF WriteToken, row, Exists
<1>13. ASSUME NEW s \in Setup, StartAgent(s) PROVE HeldIsKnown'
  <2>1. /\ UNCHANGED <<server, enrollHash, agentHash, madeFor, credential, attempt>>
        /\ UNCHANGED agent \/ agent' = [pc |-> "starting", token |-> None]
    BY <1>13 DEF StartAgent
  <2>2. \A a \in Attempt : Holds(a)' => Holds(a)
    BY <2>1 DEF Holds
  <2>3. Written
    BY <1>13, StatusWritten DEF StatusStep, SetupStep
  <2> QED BY <1>3, <1>7, <2>1, <2>2, <2>3
<1>14. ASSUME NEW a \in Attempt, Enroll(a) PROVE HeldIsKnown'
  <2>1. /\ attempt[a].state = "sent" /\ UNCHANGED <<agent, credential>>
        /\ \A b \in Attempt : attempt'[b].state = "sent" => attempt'[b] = attempt[b]
        /\ \A b \in Attempt : b # a => attempt'[b] = attempt[b]
    <3>1. attempt[a].state = "sent" /\ UNCHANGED <<agent, credential>>
      BY <1>14 DEF Enroll
    <3>2. \E r \in {Over, Answered} : attempt' = [attempt EXCEPT ![a] = r]
      BY <1>14 DEF Enroll
    <3>3. Over.state # "sent" /\ Answered.state # "sent"
      BY DEF Over, Answered
    <3> QED BY <1>2, <3>1, <3>2, <3>3
  <2>2. CASE enrollHash # attempt[a].token
    <3>1. attempt'[a].state = "over"
      BY <1>2, <1>14, <2>2 DEF Enroll, Over
    <3>2. UNCHANGED <<server, status, enrollHash, agentHash, madeFor>>
      BY <1>14, <2>2 DEF Enroll
    <3>3. \A b \in Attempt : Holds(b)' => Holds(b)
      BY <2>1, <3>1 DEF Holds
    <3> QED BY <1>7, <2>1, <3>2, <3>3 DEF Exists
  <2>3. CASE enrollHash = attempt[a].token
    <3>1. /\ agentHash' = a /\ enrollHash' = None /\ enrollHash # None
          /\ madeFor' = [madeFor EXCEPT ![a] = server] /\ UNCHANGED server
      BY <1>14, <2>3 DEF Enroll
    <3>2. \A b \in Attempt : ~ Holds(b)
      BY <1>5, <2>1, <2>3
    <3>3. \A b \in Attempt : Holds(b)' => b = a
      BY <2>1, <3>2 DEF Holds
    <3>4. \A b \in Attempt : attempt'[b].state = "sent" => attempt'[b].token # enrollHash'
      BY <1>2, <1>6, <2>1, <3>1
    <3>5. server \in Server
      BY <1>1, <3>1 DEF FleetTypeOK, Numbered
    <3>6. madeFor'[a] \in Server /\ madeFor'[a] <= server'
      BY <1>2, <3>1, <3>5
    <3> QED BY <3>1, <3>3, <3>4, <3>6 DEF HeldIsKnown
  <2> QED BY <2>2, <2>3
<1>15. CASE AgentStarts
  <2>1. UNCHANGED <<server, status, enrollHash, agentHash, madeFor, credential>>
    BY <1>15 DEF AgentStarts, row
  <2>2. CASE agent' = [pc |-> "running", token |-> credential] /\ UNCHANGED attempt
    <3>1. \A b \in Attempt : Holds(b)' => Holds(b)
      BY <2>1, <2>2 DEF Holds
    <3> QED BY <1>7, <2>1, <2>2, <3>1 DEF Exists
  <2>3. CASE /\ credential = None
             /\ \E a \in Attempt :
                  /\ attempt' = [attempt EXCEPT ![a] = [state |-> "sent", token |-> enrollment]]
                  /\ agent' = [pc |-> "enrolling", token |-> a]
    <3>1. PICK a \in Attempt :
             /\ attempt' = [attempt EXCEPT ![a] = [state |-> "sent", token |-> enrollment]]
             /\ agent' = [pc |-> "enrolling", token |-> a]
      BY <2>3
    <3>2. attempt'[a].state = "sent" /\ agent'.pc = "enrolling" /\ agent'.token = a
      BY <1>2, <3>1
    <3>3. \A b \in Attempt : ~ Holds(b)'
      BY <1>2, <2>1, <2>3, <3>2 DEF Holds
    <3> QED BY <3>3 DEF HeldIsKnown
  <2> QED BY <1>15, <2>2, <2>3 DEF AgentStarts
<1>16. CASE Enrolled
  <2>1. /\ UNCHANGED <<server, status, enrollHash, agentHash, madeFor, credential>>
        /\ agent.pc = "enrolling" /\ attempt[agent.token].state = "answered"
        /\ agent' = [pc |-> "holding", token |-> agent.token]
        /\ attempt' = [attempt EXCEPT ![agent.token] = Over]
    BY <1>16 DEF Enrolled, row
  <2>2. \A b \in Attempt : Holds(b)' => Holds(b)
    BY <2>1 DEF Holds
  <2>3. \A b \in Attempt : attempt'[b].state = "sent" => attempt'[b] = attempt[b]
    BY <1>2, <2>1 DEF Over
  <2> QED BY <1>7, <2>1, <2>2, <2>3 DEF Exists
<1>17. CASE KeepCredential
  <2>1. /\ UNCHANGED <<server, status, enrollHash, agentHash, madeFor, attempt>>
        /\ agent.pc = "holding" /\ credential' = agent.token
        /\ agent' = [pc |-> "running", token |-> agent.token]
    BY <1>17 DEF KeepCredential, row
  <2>2. \A b \in Attempt : Holds(b)' => Holds(b)
    BY <2>1 DEF Holds
  <2> QED BY <1>7, <2>1, <2>2 DEF Exists
<1>18. CASE AgentRestarts \/ Crash
  <2>1. /\ UNCHANGED <<server, status, enrollHash, agentHash, madeFor, credential>>
        /\ UNCHANGED agent \/ agent' = [pc |-> "starting", token |-> None]
        /\ \A b \in Attempt : attempt'[b] \in {Over, attempt[b]}
    BY <1>18 DEF AgentRestarts, Crash, row
  <2>2. Over.state = "over"
    BY DEF Over
  <2>3. \A b \in Attempt : Holds(b)' => Holds(b)
    BY <2>1, <2>2 DEF Holds
  <2> QED BY <1>7, <2>1, <2>2, <2>3 DEF Exists
<1> QED
  BY OthersTouchNone, <1>9, <1>9a, <1>10, <1>11, <1>12, <1>13, <1>14, <1>15, <1>16, <1>17, <1>18
  DEF PaperStep

\* The inductive invariant holds of every state of every behaviour.
THEOREM FleetInvariant == FleetSpec => []FleetInv
<1>1. FleetInit => FleetInv
  <2> SUFFICES ASSUME FleetInit PROVE FleetInv
    OBVIOUS
  <2> USE BoundsCounted DEF FleetInit, Unsent, Server, Setup, Token, Attempt, Conn, None
  <2>1. attempt \in [Attempt -> [state : AttemptState, token : Token \cup {None}]]
    BY DEF AttemptState
  <2>2. agent \in [pc : {"absent", "starting", "enrolling", "holding", "running"},
                  token : Attempt \cup {None}]
    OBVIOUS
  <2>3. /\ setup \in [Setup -> SetupState] /\ token \in [Setup -> Token \cup {None}]
        /\ conn \in [Conn -> ConnState] /\ survey \in [Server -> SurveyState]
        /\ of \in [Setup -> Server \cup {None}] /\ serves \in [Conn -> Server \cup {None}]
        /\ hub \in [Server -> Conn \cup {None}] /\ madeFor \in [Attempt -> Server \cup {None}]
    BY DEF SetupState, ConnState, SurveyState
  <2>4. FleetTypeOK
    <3>1. {timeouts, crashes, unmarked} \subseteq 0..MaxFaults
      OBVIOUS
    <3>2. /\ server = None /\ mode = "none" /\ status = "unknown" /\ secret = "none"
          /\ routed = FALSE /\ issued = {}
          /\ enrollHash = None /\ agentHash = None /\ enrollment = None /\ credential = None
          /\ link = None
      OBVIOUS
    <3> HIDE DEF FleetInit
    <3> QED
      BY <2>1, <2>2, <2>3, <3>1, <3>2 DEF FleetTypeOK, Status
  <2>5. Numbered /\ TokensKnown /\ EnrolsOnce
    BY DEF Numbered, TokensKnown, EnrolsOnce
  <2>6. HeldIsKnown
    BY DEF HeldIsKnown, Holds
  <2> QED
    BY <2>4, <2>5, <2>6 DEF FleetInv
<1>2. FleetInv /\ [FleetNext]_fleetVars => FleetInv'
  BY TypeKept, NumbersStay, TokensStayKnown, EnrolsOnceKept, HeldStaysKnown DEF FleetInv
<1> QED
  BY <1>1, <1>2, PTL DEF FleetSpec

\* The row, the jobs, the agent and the connections keep their types, and a row that has
\* gone leaves no value behind (server/service.go Delete).
THEOREM FleetTypeCorrect == FleetSpec => []FleetTypeOK
<1>1. FleetInv => FleetTypeOK
  BY DEF FleetInv
<1> QED
  BY <1>1, FleetInvariant, PTL

\* However often a machine is connected and set up, and whatever requests to enrol are
\* repeated or late, the credential in its file is the one the control plane knows it by, or
\* was made for an earlier server that has been removed since (agent_auth.go Enroll,
\* agent.go credential, service.go Delete).
THEOREM CredentialIsKnown == FleetSpec => []CredentialAuthenticates
<1>1. FleetInv => CredentialAuthenticates
  <2> SUFFICES ASSUME FleetInv, Exists, credential # None, credential # agentHash
               PROVE  madeFor[credential] \in Server /\ madeFor[credential] < server
    BY DEF CredentialAuthenticates
  <2>1. credential \in Attempt /\ Holds(credential) /\ server \in Server
    BY DEF FleetInv, FleetTypeOK, Numbered, Holds, Exists
  <2>2. /\ madeFor[credential] \in Server /\ madeFor[credential] <= server
        /\ madeFor[credential] # server
    BY <2>1 DEF FleetInv, HeldIsKnown, Exists
  <2> QED BY <2>1, <2>2, BoundsCounted DEF Server
<1> QED
  BY <1>1, FleetInvariant, PTL

(****************************************************************************)
(* Whatever was written last, somebody is there to say what came of it.     *)
(****************************************************************************)

\* The connection the Hub has for a server is one of that server's, whose goroutine has yet
\* to take it out.
HubServed ==
    \A r \in Server : hub[r] # None =>
        /\ hub[r] \in Conn /\ serves[hub[r]] = r
        /\ conn[hub[r]] \in {"added", "reading", "ended", "marked"}

AttendedInv == FleetTypeOK /\ Numbered /\ HubServed /\ StatusIsAttended

\* A job that is to go on, and connections whose goroutines will yet write the row.
Works(s) == of[s] = server /\ setup[s] \in Running \cup {"queued"}
Serves(c) == serves[c] = server /\ conn[c] \in {"added", "reading", "ended"}
Shows(c) == serves[c] = server /\ conn[c] \in {"reading", "ended"}

\* What writes nothing that has to be seen to, and lets go of nobody.
LEMMA StillAttended ==
  ASSUME StatusIsAttended,
         status' = status \/ status' \notin {"installing", "online"},
         timeouts' = 0 => timeouts = 0, crashes' = 0 => crashes = 0,
         unmarked' = 0 => unmarked = 0,
         \A s \in Setup : Works(s) => Works(s)' \/ (\E c \in Conn : Serves(c)'),
         \A c \in Conn : (Serves(c) => Serves(c)') /\ (Shows(c) => Shows(c)')
  PROVE  StatusIsAttended'
<1>1. ASSUME status' = "installing", timeouts' = 0, crashes' = 0, unmarked' = 0
      PROVE  (\E s \in Setup : Works(s)') \/ (\E c \in Conn : Serves(c)')
  <2>1. (\E s \in Setup : Works(s)) \/ (\E c \in Conn : Serves(c))
    BY <1>1 DEF StatusIsAttended, Works, Serves
  <2> QED BY <2>1
<1>2. ASSUME status' = "online", crashes' = 0, unmarked' = 0 PROVE \E c \in Conn : Shows(c)'
  <2>1. \E c \in Conn : Shows(c)
    BY <1>2 DEF StatusIsAttended, Shows
  <2> QED BY <2>1
<1> QED BY <1>1, <1>2 DEF StatusIsAttended, Works, Serves, Shows

\* A step of a job: it goes on, records that it failed, or leaves the server to a connection.
LEMMA JobsAttend ==
  ASSUME AttendedInv, NEW s \in Setup, SetupStep(s) PROVE StatusIsAttended'
<1>1. /\ StatusIsAttended /\ setup \in [Setup -> SetupState]
      /\ setup[s] # "unasked" => of[s] \in Server
  BY DEF AttendedInv, FleetTypeOK, Numbered
<1>2. UNCHANGED <<server, of, conn, serves, hub, timeouts, crashes, unmarked>>
  <2>1. CASE QueueSetup(s) \/ SetupLoads(s) \/ SetupMarks(s) \/ SetupBreaks(s) \/ GiveUp(s)
    BY <2>1 DEF QueueSetup, SetupLoads, SetupMarks, SetupBreaks, GiveUp, serving, counted
  <2>2. CASE \/ IssueEnrollmentToken(s) \/ WriteToken(s) \/ StartAgent(s) \/ ForgetPassword(s)
             \/ AwaitAgent(s)
    BY <2>2
    DEF IssueEnrollmentToken, WriteToken, StartAgent, ForgetPassword, AwaitAgent, serving, counted,
        row
  <2> QED BY <2>1, <2>2 DEF SetupStep
<1>3. \A c \in Conn : (Serves(c) <=> Serves(c)') /\ (Shows(c) <=> Shows(c)')
  BY <1>2 DEF Serves, Shows
<1>4. ASSUME NEW pc \in SetupState, setup' = [setup EXCEPT ![s] = pc], UNCHANGED status,
             pc \in Running \cup {"queued"} \/ of[s] # server
      PROVE  StatusIsAttended'
  <2>1. \A t \in Setup : Works(t) => Works(t)'
    BY <1>1, <1>2, <1>4 DEF Works
  <2> QED BY <1>1, <1>2, <1>3, <1>4, <2>1, StillAttended
<1>5. ASSUME NEW pc \in SetupState, NEW st \in {"installing", "failed"},
             setup' = [setup EXCEPT ![s] = pc], UpdateServerStatus(of[s], st),
             st = "failed" \/ (IsThere(of[s]) => pc \in Running \cup {"queued"})
      PROVE  StatusIsAttended'
  <2>1. CASE ~ IsThere(of[s])
    <3>1. UNCHANGED status
      BY <1>5, <2>1 DEF UpdateServerStatus
    <3>2. CASE Exists
      BY <1>4, <1>5, <2>1, <3>1, <3>2 DEF IsThere
    <3>3. CASE ~ Exists
      BY <3>1, <3>3 DEF Exists, StatusIsAttended
    <3> QED BY <3>2, <3>3
  <2>2. CASE IsThere(of[s]) /\ st = "failed"
    BY <1>5, <2>2 DEF UpdateServerStatus, StatusIsAttended
  <2>3. CASE IsThere(of[s]) /\ pc \in Running \cup {"queued"} /\ st = "installing"
    <3>1. Works(s)'
      BY <1>1, <1>2, <1>5, <2>3 DEF Works, IsThere
    <3>2. status' = "installing"
      BY <1>5, <2>3 DEF UpdateServerStatus
    <3> QED BY <3>1, <3>2 DEF StatusIsAttended, Works
  <2> QED BY <1>5, <2>1, <2>2, <2>3
<1>6. ASSUME SetupFails(s) PROVE StatusIsAttended'
  <2>1. UpdateServerStatus(of[s], "failed") /\ setup' = [setup EXCEPT ![s] = "done"]
    BY <1>6 DEF SetupFails
  <2>2. "done" \in SetupState
    BY DEF SetupState
  <2> QED BY <1>5, <2>1, <2>2
<1>7. CASE QueueSetup(s)
  <2>1. /\ UpdateServerStatus(of[s], "installing")
        /\ \E pc \in SetupState : /\ setup' = [setup EXCEPT ![s] = pc]
                                  /\ IsThere(of[s]) => pc = "queued"
    BY <1>7 DEF QueueSetup, SetupState
  <2> QED BY <1>5, <2>1
<1>8. CASE SetupLoads(s) \/ SetupBreaks(s) \/ StartAgent(s) \/ GiveUp(s)
  <2>1. CASE SetupFails(s)
    BY <1>6, <2>1
  <2>2. CASE ~ SetupFails(s)
    <3>1. UNCHANGED status /\ \E pc \in {"loaded", "started"} : setup' = [setup EXCEPT ![s] = pc]
      BY <1>8, <2>2 DEF SetupLoads, SetupBreaks, StartAgent, GiveUp, Goes
    <3> QED BY <1>4, <3>1 DEF Running, SetupState
  <2> QED BY <2>1, <2>2
<1>9. CASE SetupMarks(s)
  <2>1. UpdateServerStatus(of[s], "installing") /\ setup' = [setup EXCEPT ![s] = "installing"]
    BY <1>9 DEF SetupMarks, Goes
  <2>2. "installing" \in SetupState /\ "installing" \in Running
    BY DEF SetupState, Running
  <2> QED BY <1>5, <2>1, <2>2
<1>10. CASE IssueEnrollmentToken(s) \/ WriteToken(s) \/ ForgetPassword(s)
  <2>1. /\ UNCHANGED status
        /\ \E pc \in {"issued", "written", "awaiting"} : setup' = [setup EXCEPT ![s] = pc]
    BY <1>10 DEF IssueEnrollmentToken, WriteToken, ForgetPassword, Goes, row
  <2> QED BY <1>4, <2>1 DEF Running, SetupState
<1>11. CASE AwaitAgent(s)
  <2>1. UNCHANGED status /\ setup[s] = "awaiting"
    BY <1>11 DEF AwaitAgent, row
  <2>2. CASE setup' = [setup EXCEPT ![s] = "givingUp"]
    BY <1>4, <2>1, <2>2 DEF Running, SetupState
  <2>3. CASE /\ hub[of[s]] # None /\ conn[hub[of[s]]] # "marked"
             /\ setup' = [setup EXCEPT ![s] = "done"]
    <3>1. CASE of[s] # server
      BY <1>4, <2>1, <2>3, <3>1 DEF SetupState
    <3>2. CASE of[s] = server
      <4>1. of[s] \in Server
        BY <1>1, <2>1
      <4>2. hub[of[s]] \in Conn /\ Serves(hub[of[s]])'
        BY <1>2, <2>3, <3>2, <4>1 DEF AttendedInv, HubServed, Serves
      <4> QED BY <1>1, <1>2, <1>3, <2>1, <4>2, StillAttended
    <3> QED BY <3>1, <3>2
  <2> QED BY <1>11, <2>2, <2>3 DEF AwaitAgent, Goes
<1> QED BY <1>7, <1>8, <1>9, <1>10, <1>11 DEF SetupStep

\* A step of a connection: the server is shown online only while one of its own is read from
\* or has yet to be recorded as ended, and the Hub has those that have yet to be taken out.
LEMMA ConnectionsAttend ==
  ASSUME AttendedInv, NEW c \in Conn, Accept(c) \/ ServeStep(c) \/ Heartbeat(c)
  PROVE  StatusIsAttended' /\ HubServed'
<1>1. /\ StatusIsAttended /\ HubServed /\ FleetTypeOK
      /\ conn \in [Conn -> ConnState] /\ serves \in [Conn -> Server \cup {None}]
      /\ hub \in [Server -> Conn \cup {None}] /\ None \notin Conn
  BY BoundsCounted DEF AttendedInv, FleetTypeOK, None, Conn
<1>2. UNCHANGED <<server, setup, of, timeouts, crashes, unmarked>>
  BY DEF Accept, ServeStep, Add, Arrive, ReadEnds, MarkOffline, Remove, Heartbeat, row, jobs,
         counted
<1>3. \A s \in Setup : Works(s) => Works(s)'
  BY <1>2 DEF Works
<1>4. ASSUME NEW st \in {"reading", "ended", "marked"}, conn' = [conn EXCEPT ![c] = st],
             UNCHANGED <<serves, hub>>
      PROVE  HubServed'
  BY <1>1, <1>4 DEF HubServed
<1>5. ASSUME NEW st \in ConnState, conn' = [conn EXCEPT ![c] = st], UNCHANGED status,
             \A d \in Conn \ {c} : serves'[d] = serves[d],
             Serves(c) => Serves(c)', Shows(c) => Shows(c)'
      PROVE  StatusIsAttended'
  <2>1. \A d \in Conn : (Serves(d) => Serves(d)') /\ (Shows(d) => Shows(d)')
    BY <1>1, <1>2, <1>5 DEF Serves, Shows
  <2> QED BY <1>1, <1>2, <1>3, <1>5, <2>1, StillAttended
<1>6. ASSUME UpdateServerStatus(serves[c], "online"), UNCHANGED serves,
             conn' = [conn EXCEPT ![c] = "reading"], conn[c] \in {"added", "reading"}
      PROVE  StatusIsAttended'
  <2>1. conn'[c] = "reading" /\ serves'[c] = serves[c]
    BY <1>1, <1>6
  <2>2. CASE IsThere(serves[c])
    <3>1. status' = "online" /\ Shows(c)'
      BY <1>2, <1>6, <2>1, <2>2 DEF UpdateServerStatus, IsThere, Shows
    <3> QED BY <3>1 DEF StatusIsAttended, Shows
  <2>3. CASE ~ IsThere(serves[c])
    <3>1. UNCHANGED status
      BY <1>6, <2>3 DEF UpdateServerStatus
    <3> QED BY <1>2, <1>5, <1>6, <2>1, <3>1 DEF Serves, Shows, ConnState
  <2> QED BY <2>2, <2>3
<1>7. CASE Accept(c)
  <2>1. /\ conn[c] = "free" /\ conn' = [conn EXCEPT ![c] = "greeted"]
        /\ serves' = [serves EXCEPT ![c] = server] /\ UNCHANGED <<status, hub>>
    BY <1>7 DEF Accept, First, row
  <2>2. \A d \in Conn \ {c} : serves'[d] = serves[d] /\ conn'[d] = conn[d]
    BY <1>1, <2>1
  <2>3. StatusIsAttended'
    BY <1>5, <2>1, <2>2 DEF Serves, Shows, ConnState
  <2>4. HubServed'
    BY <1>1, <2>1, <2>2 DEF HubServed
  <2> QED BY <2>3, <2>4
<1>8. CASE Add(c)
  <2>1. /\ conn[c] = "greeted" /\ conn' = [conn EXCEPT ![c] = "added"]
        /\ hub' = [hub EXCEPT ![serves[c]] = c] /\ UNCHANGED <<status, serves>>
    BY <1>8 DEF Add, row
  <2>2. HubServed'
    <3> SUFFICES ASSUME NEW r \in Server, hub'[r] # None
                 PROVE  /\ hub'[r] \in Conn /\ serves'[hub'[r]] = r
                        /\ conn'[hub'[r]] \in {"added", "reading", "ended", "marked"}
      BY DEF HubServed
    <3>1. CASE r = serves[c]
      BY <1>1, <2>1, <3>1
    <3>2. CASE r # serves[c]
      <4>1. hub'[r] = hub[r]
        BY <1>1, <2>1, <3>2
      <4> QED BY <1>1, <2>1, <4>1 DEF HubServed
    <3> QED BY <3>1, <3>2
  <2> QED BY <1>5, <2>1, <2>2 DEF Serves, Shows, ConnState
<1>9. CASE Arrive(c)
  <2>1. /\ conn[c] = "added" /\ conn' = [conn EXCEPT ![c] = "reading"]
        /\ UNCHANGED <<serves, hub>> /\ UpdateServerStatus(serves[c], "online")
    BY <1>9 DEF Arrive
  <2> QED BY <1>4, <1>6, <2>1
<1>10. CASE ReadEnds(c)
  <2>1. /\ conn[c] = "reading" /\ conn' = [conn EXCEPT ![c] = "ended"]
        /\ UNCHANGED <<hub, serves, status>>
    BY <1>10 DEF ReadEnds, row
  <2>2. conn'[c] = "ended"
    BY <1>1, <2>1
  <2> QED BY <1>2, <1>4, <1>5, <2>1, <2>2 DEF ConnState, Serves, Shows
<1>11. CASE MarkOffline(c)
  <2>1. /\ conn[c] = "ended" /\ conn' = [conn EXCEPT ![c] = "marked"]
        /\ UNCHANGED <<hub, serves>> /\ UpdateServerStatus(serves[c], "offline")
    BY <1>11 DEF MarkOffline
  <2>2. StatusIsAttended'
    <3>1. CASE IsThere(serves[c])
      BY <2>1, <3>1 DEF UpdateServerStatus, StatusIsAttended
    <3>2. CASE ~ Exists
      BY <2>1, <3>2 DEF UpdateServerStatus, IsThere, Exists, StatusIsAttended
    <3>3. CASE serves[c] # server
      <4>1. UNCHANGED status
        BY <2>1, <3>3 DEF UpdateServerStatus, IsThere
      <4> QED BY <1>5, <2>1, <3>3, <4>1 DEF Serves, Shows, ConnState
    <3> QED BY <3>1, <3>2, <3>3 DEF IsThere
  <2> QED BY <1>4, <2>1, <2>2
<1>12. CASE Remove(c)
  <2>1. /\ conn[c] = "marked" /\ conn' = [conn EXCEPT ![c] = "free"]
        /\ hub' = [hub EXCEPT ![serves[c]] = IF @ = c THEN None ELSE @]
        /\ serves' = [serves EXCEPT ![c] = None] /\ UNCHANGED status
    BY <1>12 DEF Remove, row
  <2>2. \A d \in Conn \ {c} : serves'[d] = serves[d] /\ conn'[d] = conn[d]
    BY <1>1, <2>1
  <2>3. StatusIsAttended'
    BY <1>5, <2>1, <2>2 DEF Serves, Shows, ConnState
  <2>4. HubServed'
    <3>1. \A r \in Server : hub'[r] # None => hub'[r] = hub[r] /\ hub[r] # c
      BY <1>1, <2>1 DEF HubServed
    <3> QED BY <1>1, <2>2, <3>1 DEF HubServed
  <2> QED BY <2>3, <2>4
<1>13. CASE Heartbeat(c)
  <2>1. /\ conn[c] = "reading" /\ UNCHANGED <<conn, serves, hub>>
        /\ UpdateServerStatus(serves[c], "online")
    BY <1>13 DEF Heartbeat, serving
  <2>2. conn' = [conn EXCEPT ![c] = "reading"]
    BY <1>1, <2>1
  <2>3. StatusIsAttended'
    BY <1>6, <2>1, <2>2
  <2> QED BY <1>1, <2>1, <2>3 DEF HubServed
<1> QED BY <1>7, <1>8, <1>9, <1>10, <1>11, <1>12, <1>13 DEF ServeStep

LEMMA AttendedKept ==
  ASSUME AttendedInv, [FleetNext]_fleetVars PROVE AttendedInv'
<1>1. /\ FleetTypeOK /\ Numbered /\ HubServed /\ StatusIsAttended
      /\ setup \in [Setup -> SetupState]
      /\ FleetTypeOK' /\ Numbered'
  BY TypeKept, NumbersStay DEF AttendedInv, FleetTypeOK
<1>2. UNCHANGED <<conn, serves, hub>> => HubServed'
  BY <1>1 DEF HubServed
<1>3. ASSUME UNCHANGED <<server, of, conn, serves, timeouts, crashes, unmarked>>,
             status' = status \/ status' \notin {"installing", "online"},
             \A s \in Setup : Works(s) => Works(s)'
      PROVE  StatusIsAttended'
  <2>1. \A c \in Conn : (Serves(c) => Serves(c)') /\ (Shows(c) => Shows(c)')
    BY <1>3 DEF Serves, Shows
  <2> QED BY <1>1, <1>3, <2>1, StillAttended
<1>4. UNCHANGED <<server, of, setup>> => \A s \in Setup : Works(s) => Works(s)'
  BY DEF Works
<1>5. CASE Requests
  <2>1. UNCHANGED <<conn, serves, hub, timeouts, crashes, unmarked>>
    BY <1>5 DEF Requests, Connect, ChooseRouting, AskSetup, Delete, serving, counted
  <2>2. CASE \/ \E kind \in Kinds, m \in {"managed", "watch"} : Connect(kind, m)
             \/ Delete
    <3>1. status' \notin {"installing", "online"}
      BY <2>2 DEF Connect, Delete
    <3> QED BY <1>1, <1>2, <2>1, <3>1 DEF AttendedInv, StatusIsAttended
  <2>3. CASE ChooseRouting
    BY <1>1, <1>2, <1>3, <1>4, <2>1, <2>3 DEF ChooseRouting, AttendedInv, jobs
  <2>4. ASSUME NEW s \in Setup, AskSetup(s) PROVE AttendedInv'
    <3>1. /\ setup[s] = "unasked" /\ setup' = [setup EXCEPT ![s] = "asking"]
          /\ of' = [of EXCEPT ![s] = server] /\ UNCHANGED <<server, status>>
      BY <2>4 DEF AskSetup, First, row
    <3>2. \A t \in Setup : Works(t) => Works(t)'
      <4>1. \A t \in Setup \ {s} : setup'[t] = setup[t] /\ of'[t] = of[t]
        BY <1>1, <3>1 DEF FleetTypeOK
      <4>2. ~ Works(s)
        BY <3>1 DEF Works, Running
      <4> QED BY <3>1, <4>1, <4>2 DEF Works
    <3>3. \A c \in Conn : (Serves(c) => Serves(c)') /\ (Shows(c) => Shows(c)')
      BY <2>1, <3>1 DEF Serves, Shows
    <3>4. StatusIsAttended'
      BY <1>1, <2>1, <3>1, <3>2, <3>3, StillAttended
    <3> QED BY <1>1, <1>2, <2>1, <3>4 DEF AttendedInv
  <2> QED BY <1>5, <2>2, <2>3, <2>4 DEF Requests
<1>6. ASSUME NEW r \in Server, SurveyStep(r) PROVE AttendedInv'
  <2>1. UNCHANGED <<server, of, setup, conn, serves, hub, timeouts, crashes, unmarked>>
    BY <1>6 DEF SurveyStep, SurveyLoads, SurveyMarks, SurveyRecords, serving, counted
  <2>2. status' = status \/ status' \notin {"installing", "online"}
    BY <1>6 DEF SurveyStep, SurveyLoads, SurveyMarks, SurveyRecords, UpdateServerStatus
  <2> QED BY <1>1, <1>2, <1>3, <1>4, <2>1, <2>2 DEF AttendedInv
<1>7. ASSUME NEW s \in Setup, SetupStep(s) PROVE AttendedInv'
  <2>1. UNCHANGED <<conn, serves, hub>>
    BY <1>7
    DEF SetupStep, QueueSetup, SetupLoads, SetupMarks, SetupBreaks, IssueEnrollmentToken,
        WriteToken, StartAgent, ForgetPassword, AwaitAgent, GiveUp, serving
  <2> QED BY <1>1, <1>2, <1>7, <2>1, JobsAttend DEF AttendedInv
<1>8. CASE RunOutOfTime
  <2>1. /\ UNCHANGED <<server, status, conn, serves, hub, crashes, unmarked>>
        /\ timeouts' = timeouts + 1
    BY <1>8 DEF RunOutOfTime, row, serving
  <2>2. timeouts' # 0
    BY <1>1, <2>1, BoundsCounted DEF FleetTypeOK
  <2> QED BY <1>1, <1>2, <2>1, <2>2 DEF AttendedInv, StatusIsAttended
<1>9. CASE Crash
  <2>1. crashes' = crashes + 1 /\ hub' = [r \in Server |-> None]
    BY <1>9 DEF Crash
  <2>2. crashes' # 0
    BY <1>1, <2>1, BoundsCounted DEF FleetTypeOK
  <2>3. HubServed'
    BY <2>1 DEF HubServed
  <2> QED BY <1>1, <2>2, <2>3 DEF AttendedInv, StatusIsAttended
<1>10. CASE \/ AgentStarts \/ Enrolled \/ KeepCredential \/ AgentRestarts
            \/ TokenExpires \/ LinkLost \/ UNCHANGED fleetVars
            \/ \E a \in Attempt : Enroll(a)
  <2>1. UNCHANGED <<server, of, status, setup, conn, serves, hub, timeouts, crashes, unmarked>>
    BY <1>10
    DEF AgentStarts, Enrolled, KeepCredential, AgentRestarts, TokenExpires, LinkLost, fleetVars,
        Enroll, row, jobs, serving, counted
  <2> QED BY <1>1, <1>2, <1>3, <1>4, <2>1 DEF AttendedInv
<1>11. ASSUME NEW c \in Conn, Accept(c) \/ ServeStep(c) \/ Heartbeat(c) PROVE AttendedInv'
  BY <1>1, <1>11, ConnectionsAttend DEF AttendedInv
<1>12. ASSUME NEW c \in Conn, ReadPanics(c) \/ MarkOfflineFails(c) PROVE AttendedInv'
  <2>1. /\ conn[c] # "free" /\ conn' = [conn EXCEPT ![c] = "marked"]
        /\ unmarked' = unmarked + 1 /\ UNCHANGED <<serves, hub>>
    BY <1>12 DEF ReadPanics, MarkOfflineFails
  <2>2. unmarked' # 0
    BY <1>1, <2>1, BoundsCounted DEF FleetTypeOK
  <2>3. HubServed'
    BY <1>1, <2>1 DEF HubServed, FleetTypeOK
  <2> QED BY <1>1, <2>2, <2>3 DEF AttendedInv, StatusIsAttended
<1> QED
  BY <1>5, <1>6, <1>7, <1>8, <1>9, <1>10, <1>11, <1>12 DEF FleetNext

\* Whatever order setups, surveys and connections write the row in, and whatever is left of
\* an earlier server, one shown as being set up or as online has somebody who will yet write
\* what came of it, for any number of them, unless a job ran out of time, the control plane
\* stopped or the end of a connection was not written (service.go Setup, bootstrap_job.go
\* awaitAgent, agent_handler.go serve, agent_auth.go MarkOffline).
THEOREM SomebodyAttends == FleetSpec => []StatusIsAttended
<1>1. FleetInit => Numbered /\ HubServed /\ StatusIsAttended
  BY DEF FleetInit, Numbered, HubServed, StatusIsAttended
<1>2. FleetInit /\ FleetTypeOK => AttendedInv
  BY <1>1 DEF AttendedInv
<1>3. AttendedInv /\ [FleetNext]_fleetVars => AttendedInv'
  BY AttendedKept
<1>4. AttendedInv => StatusIsAttended
  BY DEF AttendedInv
<1> QED BY <1>2, <1>3, <1>4, FleetTypeCorrect, PTL DEF FleetSpec
=============================================================================
