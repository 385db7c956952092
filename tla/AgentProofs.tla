----------------------------- MODULE AgentProofs -----------------------------
(****************************************************************************)
(* What the agent never gets wrong, for every set of containers,            *)
(* specifications and goroutines, however passes overlap and whatever fails.*)
(****************************************************************************)
EXTENDS Agent, TLAPS

\* A pass that has begun works from a specification somebody sent.
BegunHasSpec ==
    \A p \in Pass : pass[p].pc \notin {"idle", "read"} => pass[p].spec \in Specs

\* A pass counts as healthy only versions that answered.
HealthyAnswered == \A p \in Pass : pass[p].healthy \subseteq answered

\* A pass that waits to take something away, or does, has heard from every version it
\* started.
RetiringHeardAll ==
    \A p \in Pass : pass[p].pc \in {"drain", "retire"} =>
        pass[p].started \cap App \subseteq pass[p].healthy

AgentInv == AgentTypeOK /\ BegunHasSpec /\ HealthyAnswered /\ RetiringHeardAll

USE DoneDistinct, SpecsTyped, ProcessesDistinct, ModeKnown, BoundsCounted, NamesDistinct

LEMMA InitInv == AgentInit => AgentInv
  BY DEF AgentInit, AgentInv, AgentTypeOK, BegunHasSpec, HealthyAnswered,
         RetiringHeardAll, IdlePass, PassState, PassPC, ContainerState, NoRoutes,
         Pass, Name, Owned

LEMMA IdleTyped == IdlePass \in PassState
  BY DEF IdlePass, PassState, PassPC

\* What a container's end does to requests and routes keeps them in type.
LEMMA EndsTyped ==
  ASSUME AgentTypeOK, NEW c \in Name, Ends(c)
  PROVE  /\ request' \in [Request -> App \cup {None, Done}]
         /\ routes' \in [Host -> App \cup {None}]
  BY DEF AgentTypeOK, Ends, NoRoutes

LEMMA RmTyped ==
  ASSUME AgentTypeOK, NEW c \in Name, RmSucceeds(c) \/ RmFails(c)
  PROVE  /\ docker' \in [Name -> ContainerState]
         /\ request' \in [Request -> App \cup {None, Done}]
         /\ routes' \in [Host -> App \cup {None}]
         /\ faults' \in 0..MaxFaults
  BY EndsTyped DEF AgentTypeOK, RmSucceeds, RmFails, Fault, ContainerState, machine

LEMMA RunTyped ==
  ASSUME AgentTypeOK, NEW c \in Name, RunSucceeds(c) \/ RunFails(c)
  PROVE  docker' \in [Name -> ContainerState] /\ faults' \in 0..MaxFaults
  BY DEF AgentTypeOK, RunSucceeds, RunFails, Fault, ContainerState

\* A pass that stays as the invariant wants it, while no other pass moves and no
\* version stops having answered, keeps the invariant of passes.
PassFits(st) ==
    /\ st \in PassState
    /\ st.pc \notin {"idle", "read"} => st.spec \in Specs
    /\ st.healthy \subseteq answered'
    /\ st.pc \in {"drain", "retire"} => st.started \cap App \subseteq st.healthy

\* What the invariant asks of everything but passes.
RestTyped ==
    /\ held \in Specs \cup {NoSpec}
    /\ disk \in Specs \cup {NoSpec}
    /\ mode \in {"managed", "watch"}
    /\ session \in Reader \cup {None}
    /\ abandoned \subseteq App
    /\ docker \in [Name -> ContainerState]
    /\ routes \in [Host -> App \cup {None}]
    /\ request \in [Request -> App \cup {None, Done}]
    /\ answered \subseteq App /\ silent \subseteq App
    /\ overlaps \in 0..MaxOverlaps
    /\ faults \in 0..MaxFaults

LEMMA PassMoves ==
  ASSUME AgentInv, NEW p \in Pass, NEW st,
         pass' = [pass EXCEPT ![p] = st], PassFits(st), answered \subseteq answered'
  PROVE  /\ pass' \in [Pass -> PassState]
         /\ BegunHasSpec' /\ HealthyAnswered' /\ RetiringHeardAll'
  BY DEF AgentInv, AgentTypeOK, BegunHasSpec, HealthyAnswered, RetiringHeardAll, PassFits

\* Every step of a pass is a step that fits, with the rest left in type.
LEMMA PassKeeps ==
  ASSUME AgentInv, NEW p \in Pass, NEW st,
         pass' = [pass EXCEPT ![p] = st], PassFits(st), answered \subseteq answered',
         RestTyped'
  PROVE  AgentInv'
  BY PassMoves DEF AgentInv, AgentTypeOK, RestTyped

LEMMA ReceiveKeeps ==
  ASSUME AgentInv, NEW r \in Reader, NEW s \in Specs, Receive(r, s) PROVE AgentInv'
<1> DEFINE st == [pass[r] EXCEPT !.pc = "read"]
<1>1. pass' = [pass EXCEPT ![r] = st] /\ r \in Pass
  BY DEF Receive, Save, AgentInv, AgentTypeOK, Pass
<1>2. PassFits(st)
  <2>1. /\ pass[r] \in PassState /\ pass[r].healthy \subseteq answered
        /\ answered' = answered
    BY <1>1 DEF AgentInv, AgentTypeOK, HealthyAnswered, Receive, history
  <2>2. st \in PassState /\ st.pc = "read" /\ st.healthy = pass[r].healthy
    BY <2>1 DEF PassState, PassPC
  <2> HIDE DEF st
  <2> QED BY <2>1, <2>2 DEF PassFits
<1>3. answered \subseteq answered' /\ RestTyped'
  <2>1. UNCHANGED <<mode, session, abandoned, docker, routes, request, answered, silent, overlaps>>
    BY DEF Receive, machine, history
  <2>2. {held', disk'} \subseteq {disk, s} /\ faults' \in 0..MaxFaults
    BY DEF Receive, Save, Fault, AgentInv, AgentTypeOK
  <2> QED BY <2>1, <2>2 DEF AgentInv, AgentTypeOK, RestTyped
<1> QED
  <2> HIDE DEF st
  <2> QED BY <1>1, <1>2, <1>3, PassKeeps

LEMMA BeginKeeps ==
  ASSUME AgentInv, NEW p \in Pass, Begin(p) PROVE AgentInv'
<1> DEFINE st == [IdlePass EXCEPT !.pc = "plan", !.spec = held]
<1>1. pass' = [pass EXCEPT ![p] = st]
  BY DEF Begin
<1>2. PassFits(st)
  BY DEF PassFits, IdlePass, PassState, PassPC, AgentInv, AgentTypeOK, Begin
<1>3. answered \subseteq answered' /\ RestTyped'
  BY DEF Begin, AgentInv, AgentTypeOK, RestTyped, memory, machine
<1> QED
  <2> HIDE DEF st
  <2> QED BY <1>1, <1>2, <1>3, PassKeeps

LEMMA PlanKeeps ==
  ASSUME AgentInv, NEW p \in Pass, Plan(p) PROVE AgentInv'
<1>1. /\ pass[p] \in PassState /\ pass[p].spec \in Specs
      /\ pass[p].spec.want \subseteq Owned
  BY DEF AgentInv, AgentTypeOK, BegunHasSpec, Plan, SpecType
<1>2. PICK actual \in {Managed, {}} : pass' = [pass EXCEPT ![p] = Planned(p, actual)]
  BY DEF Plan
<1>3. actual \subseteq Owned
  BY DEF Managed, Name, Owned
<1>4. PassFits(Planned(p, actual))
  BY <1>1, <1>3 DEF PassFits, Planned, PassState, PassPC, AgentInv, HealthyAnswered,
                    Plan, history
<1>5. answered \subseteq answered' /\ RestTyped'
  BY DEF Plan, AgentInv, AgentTypeOK, RestTyped, Fault, memory, machine, history
<1> QED
  BY <1>2, <1>4, <1>5, PassKeeps

LEMMA TakeAwayKeeps ==
  ASSUME AgentInv, NEW p \in Pass, NEW c \in Owned, TakeAway(p, c) PROVE AgentInv'
<1> DEFINE gone == [pass[p] EXCEPT !.replace = @ \ {c}, !.making = c]
           kept == [pass[p] EXCEPT !.replace = @ \ {c}, !.failed = @ \cup {c}]
<1>1. PICK st \in {gone, kept} : pass' = [pass EXCEPT ![p] = st]
  BY DEF TakeAway, AgentInv, AgentTypeOK
<1>2. PassFits(gone) /\ PassFits(kept)
  <2>1. /\ pass[p] \in PassState /\ pass[p].pc = "start" /\ pass[p].spec \in Specs
        /\ pass[p].healthy \subseteq answered /\ answered' = answered
    BY DEF AgentInv, AgentTypeOK, HealthyAnswered, BegunHasSpec, TakeAway, history
  <2>2. gone \in PassState /\ kept \in PassState
    BY <2>1 DEF PassState
  <2>3. gone.pc = "start" /\ gone.spec \in Specs /\ gone.healthy = pass[p].healthy
    BY <2>1 DEF PassState
  <2>4. kept.pc = "start" /\ kept.spec \in Specs /\ kept.healthy = pass[p].healthy
    BY <2>1 DEF PassState
  <2> HIDE DEF gone, kept
  <2> QED BY <2>1, <2>2, <2>3, <2>4 DEF PassFits
<1>3. answered \subseteq answered' /\ RestTyped'
  <2>1. UNCHANGED <<held, disk, mode, session, abandoned, answered, silent, overlaps>>
    BY DEF TakeAway, memory, history
  <2>2. /\ docker' \in [Name -> ContainerState] /\ faults' \in 0..MaxFaults
        /\ routes' \in [Host -> App \cup {None}] /\ request' \in [Request -> App \cup {None, Done}]
    BY RmTyped DEF TakeAway, AgentInv, Name
  <2> QED BY <2>1, <2>2 DEF AgentInv, AgentTypeOK, RestTyped
<1> QED
  <2> HIDE DEF gone, kept
  <2> QED BY <1>1, <1>2, <1>3, PassKeeps

LEMMA CreateKeeps ==
  ASSUME AgentInv, NEW p \in Pass, NEW c \in Owned, Create(p, c) PROVE AgentInv'
<1> DEFINE up   == [pass[p] EXCEPT !.making = None, !.create = @ \ {c}, !.started = @ \cup {c}]
           down == [pass[p] EXCEPT !.making = None, !.create = @ \ {c}, !.failed = @ \cup {c}]
<1>1. PICK st \in {up, down} : pass' = [pass EXCEPT ![p] = st]
  BY DEF Create, AgentInv, AgentTypeOK
<1>2. PassFits(up) /\ PassFits(down)
  <2>1. /\ pass[p] \in PassState /\ pass[p].pc = "start" /\ pass[p].spec \in Specs
        /\ pass[p].healthy \subseteq answered /\ answered' = answered
    BY DEF AgentInv, AgentTypeOK, HealthyAnswered, BegunHasSpec, Create, history
  <2>2. up \in PassState /\ down \in PassState
    BY <2>1 DEF PassState
  <2>3. up.pc = "start" /\ up.spec \in Specs /\ up.healthy = pass[p].healthy
    BY <2>1 DEF PassState
  <2>4. down.pc = "start" /\ down.spec \in Specs /\ down.healthy = pass[p].healthy
    BY <2>1 DEF PassState
  <2> HIDE DEF up, down
  <2> QED BY <2>1, <2>2, <2>3, <2>4 DEF PassFits
<1>3. answered \subseteq answered' /\ RestTyped'
  <2>1. UNCHANGED <<held, disk, mode, session, abandoned, routes, request, answered, silent, overlaps>>
    BY DEF Create, memory, history
  <2>2. docker' \in [Name -> ContainerState] /\ faults' \in 0..MaxFaults
    BY RunTyped DEF Create, AgentInv, Name
  <2> QED BY <2>1, <2>2 DEF AgentInv, AgentTypeOK, RestTyped
<1> QED
  <2> HIDE DEF up, down
  <2> QED BY <1>1, <1>2, <1>3, PassKeeps

\* A version that answers joins those that have, before it counts as healthy.
LEMMA GateAnswersKeeps ==
  ASSUME AgentInv, NEW p \in Pass, NEW c \in Owned, GateAnswers(p, c) PROVE AgentInv'
<1> DEFINE st == [pass[p] EXCEPT !.healthy = @ \cup {c}]
<1>1. pass' = [pass EXCEPT ![p] = st] /\ c \in App
  BY DEF GateAnswers, Gating, AgentInv, AgentTypeOK
<1>2. PassFits(st)
  <2>1. /\ pass[p] \in PassState /\ pass[p].pc = "start" /\ pass[p].spec \in Specs
        /\ pass[p].healthy \subseteq answered /\ answered' = answered \cup {c}
    BY DEF AgentInv, AgentTypeOK, HealthyAnswered, BegunHasSpec, GateAnswers, AllStarted
  <2>2. st \in PassState /\ st.pc = "start" /\ st.spec \in Specs
    BY <1>1, <2>1 DEF PassState
  <2>3. st.healthy = pass[p].healthy \cup {c}
    BY <2>1 DEF PassState
  <2> HIDE DEF st
  <2> QED BY <2>1, <2>2, <2>3 DEF PassFits
<1>3. answered \subseteq answered' /\ RestTyped'
  BY <1>1 DEF GateAnswers, AgentInv, AgentTypeOK, RestTyped, memory, machine
<1> QED
  <2> HIDE DEF st
  <2> QED BY <1>1, <1>2, <1>3, PassKeeps

LEMMA GateGivesUpKeeps ==
  ASSUME AgentInv, NEW p \in Pass, NEW c \in Owned, GateGivesUp(p, c) PROVE AgentInv'
<1> DEFINE st == [pass[p] EXCEPT !.unproven = @ \cup {c}]
<1>1. pass' = [pass EXCEPT ![p] = st] /\ c \in App
  BY DEF GateGivesUp, Gating, AgentInv, AgentTypeOK
<1>2. PassFits(st)
  BY <1>1 DEF PassFits, PassState, PassPC, AgentInv, AgentTypeOK, HealthyAnswered,
              BegunHasSpec, GateGivesUp, AllStarted
<1>3. answered \subseteq answered' /\ RestTyped'
  BY <1>1, RmTyped DEF GateGivesUp, AgentInv, AgentTypeOK, RestTyped, Name
<1> QED
  <2> HIDE DEF st
  <2> QED BY <1>1, <1>2, <1>3, PassKeeps

\* A pass goes on to take something away only when nothing it started is unheard from
\* and none of it was given up on, which leaves only versions that answered.
LEMMA SyncKeeps ==
  ASSUME AgentInv, NEW p \in Pass, Sync(p) PROVE AgentInv'
<1> DEFINE st == [pass[p] EXCEPT !.pc = AfterSync(p),
                                 !.await = {q \in Request : request[q] \in pass[p].remove}]
<1>1. pass' = [pass EXCEPT ![p] = st]
  BY DEF Sync, AgentInv, AgentTypeOK
<1>2. /\ pass[p] \in PassState
      /\ pass[p].spec \in Specs /\ pass[p].healthy \subseteq answered
      /\ pass[p].spec.route \in [Host -> App \cup {None}]
  BY DEF AgentInv, AgentTypeOK, BegunHasSpec, HealthyAnswered, Sync, AllStarted, SpecType
<1>3. /\ AfterSync(p) \in {"report", "drain", "retire"}
      /\ AfterSync(p) \in {"drain", "retire"} => pass[p].unproven = {}
  BY DEF AfterSync
<1>4. pass[p].unproven = {} => pass[p].started \cap App \subseteq pass[p].healthy
  BY DEF Sync, Gating
<1>5. PassFits(st)
  <2>1. st \in PassState
    BY <1>2, <1>3 DEF PassState, PassPC
  <2>2. st.pc = AfterSync(p) /\ st.spec = pass[p].spec /\ st.healthy = pass[p].healthy
        /\ st.started = pass[p].started
    BY <1>2 DEF PassState
  <2>3. answered' = answered
    BY DEF Sync, history
  <2> HIDE DEF st
  <2> QED BY <1>2, <1>3, <1>4, <2>1, <2>2, <2>3 DEF PassFits
<1>6. answered \subseteq answered' /\ RestTyped'
  BY <1>2 DEF Sync, ProvenRoutes, AgentInv, AgentTypeOK, RestTyped, Fault, memory, history
<1> QED
  <2> HIDE DEF st
  <2> QED BY <1>1, <1>5, <1>6, PassKeeps

LEMMA DrainKeeps ==
  ASSUME AgentInv, NEW p \in Pass, Drain(p) PROVE AgentInv'
<1> DEFINE st == [pass[p] EXCEPT !.pc = "retire"]
<1>1. pass' = [pass EXCEPT ![p] = st]
  BY DEF Drain, AgentInv, AgentTypeOK
<1>2. PassFits(st)
  BY DEF PassFits, PassState, PassPC, AgentInv, AgentTypeOK, HealthyAnswered, BegunHasSpec,
         RetiringHeardAll, Drain, history
<1>3. answered \subseteq answered' /\ RestTyped'
  BY DEF Drain, AgentInv, AgentTypeOK, RestTyped, memory, machine, history
<1> QED
  <2> HIDE DEF st
  <2> QED BY <1>1, <1>2, <1>3, PassKeeps

LEMMA RetireKeeps ==
  ASSUME AgentInv, NEW p \in Pass, NEW c \in Owned, Retire(p, c) PROVE AgentInv'
<1> DEFINE next == IF pass[p].remove = {c} THEN "report" ELSE "retire"
           st   == [pass[p] EXCEPT !.remove = @ \ {c}, !.retired = TRUE, !.pc = next]
<1>1. pass' = [pass EXCEPT ![p] = st]
  BY DEF Retire, AgentInv, AgentTypeOK
<1>2. PassFits(st)
  <2>1. /\ pass[p] \in PassState /\ pass[p].pc = "retire" /\ pass[p].spec \in Specs
        /\ pass[p].healthy \subseteq answered /\ answered' = answered
        /\ pass[p].started \cap App \subseteq pass[p].healthy
    BY DEF AgentInv, AgentTypeOK, HealthyAnswered, BegunHasSpec, RetiringHeardAll, Retire,
           history
  <2>2. next \in {"report", "retire"}
    OBVIOUS
  <2>3. st \in PassState
    BY <2>1, <2>2 DEF PassState, PassPC
  <2>4. /\ st.spec = pass[p].spec /\ st.healthy = pass[p].healthy
        /\ st.started = pass[p].started
    BY <2>1 DEF PassState
  <2> HIDE DEF st
  <2> QED BY <2>1, <2>3, <2>4 DEF PassFits
<1>3. answered \subseteq answered' /\ RestTyped'
  <2>1. UNCHANGED <<held, disk, mode, session, abandoned, answered, silent, overlaps>>
    BY DEF Retire, memory, history
  <2>2. /\ docker' \in [Name -> ContainerState] /\ faults' \in 0..MaxFaults
        /\ routes' \in [Host -> App \cup {None}] /\ request' \in [Request -> App \cup {None, Done}]
    BY RmTyped DEF Retire, AgentInv, Name
  <2> QED BY <2>1, <2>2 DEF AgentInv, AgentTypeOK, RestTyped
<1> QED
  <2> HIDE DEF st
  <2> QED BY <1>1, <1>2, <1>3, PassKeeps

LEMMA ReportKeeps ==
  ASSUME AgentInv, NEW p \in Pass, Report(p) PROVE AgentInv'
<1>1. pass' = [pass EXCEPT ![p] = IdlePass]
  BY DEF Report
<1>2. PassFits(IdlePass)
  BY IdleTyped DEF PassFits, IdlePass
<1>3. answered \subseteq answered' /\ RestTyped'
  BY DEF Report, AgentInv, AgentTypeOK, RestTyped, memory, machine, history
<1> QED
  BY <1>1, <1>2, <1>3, PassKeeps

\* Whatever leaves passes and answers alone only has the rest to keep in type.
LEMMA RestKeeps ==
  ASSUME AgentInv, UNCHANGED <<pass, answered>>, RestTyped'
  PROVE  AgentInv'
  BY DEF AgentInv, AgentTypeOK, RestTyped, BegunHasSpec, HealthyAnswered, RetiringHeardAll

LEMMA LifeKeeps ==
  ASSUME AgentInv, (\E r \in Reader : Connect(r)) \/ Disconnect \/ Restart
  PROVE  AgentInv'
<1>1. ASSUME NEW r \in Reader, Connect(r) PROVE AgentInv'
  BY <1>1, RestKeeps DEF Connect, AgentInv, AgentTypeOK, RestTyped, machine, history
<1>2. CASE Disconnect
  BY <1>2, RestKeeps DEF Disconnect, Fault, AgentInv, AgentTypeOK, RestTyped, memory,
                         machine, history
<1>3. CASE Restart
  <2>1. RestTyped' /\ answered' = answered
    BY <1>3 DEF Restart, Fault, AgentInv, AgentTypeOK, RestTyped, machine, history
  <2>2. /\ pass' \in [Pass -> PassState]
        /\ \A p \in Pass : pass'[p] = IdlePass
    BY <1>3, IdleTyped DEF Restart
  <2> QED
    BY <2>1, <2>2 DEF AgentInv, AgentTypeOK, RestTyped, BegunHasSpec, HealthyAnswered,
                      RetiringHeardAll, IdlePass
<1> QED BY <1>1, <1>2, <1>3

LEMMA MachineKeeps ==
  ASSUME AgentInv, MachineStep PROVE AgentInv'
<1>1. ASSUME NEW c \in Owned, Stops(c) PROVE AgentInv'
  BY <1>1, RestKeeps, EndsTyped
     DEF Stops, Fault, AgentInv, AgentTypeOK, RestTyped, ContainerState, memory, history, Name
<1>2. ASSUME NEW c \in Owned, ComesBack(c) PROVE AgentInv'
  BY <1>2, RestKeeps
     DEF ComesBack, AgentInv, AgentTypeOK, RestTyped, ContainerState, memory, history
<1>3. ASSUME NEW q \in Request, NEW h \in Host, Arrives(q, h) PROVE AgentInv'
  BY <1>3, RestKeeps DEF Arrives, AgentInv, AgentTypeOK, RestTyped, memory, history
<1>4. ASSUME NEW q \in Request, Finishes(q) PROVE AgentInv'
  BY <1>4, RestKeeps DEF Finishes, AgentInv, AgentTypeOK, RestTyped, memory, history
<1> QED BY <1>1, <1>2, <1>3, <1>4 DEF MachineStep

\* Whatever a pass works through is of the platform's own making.
LEMMA PassHandlesOwned ==
  ASSUME AgentInv, NEW p \in Pass, NEW c \in Name,
         \/ TakeAway(p, c) \/ Create(p, c) \/ GateAnswers(p, c) \/ GateGivesUp(p, c)
         \/ Retire(p, c)
  PROVE  c \in Owned
<1>1. pass[p] \in PassState
  BY DEF AgentInv, AgentTypeOK
<1>2. CASE TakeAway(p, c)
  BY <1>1, <1>2 DEF TakeAway, PassState
<1>3. CASE Create(p, c)
  BY <1>1, <1>3 DEF Create, PassState
<1>4. CASE GateAnswers(p, c) \/ GateGivesUp(p, c)
  BY <1>4 DEF GateAnswers, GateGivesUp, Gating, Owned
<1>5. CASE Retire(p, c)
  BY <1>1, <1>5 DEF Retire, PassState
<1> QED BY <1>2, <1>3, <1>4, <1>5

LEMMA PassStepKeeps ==
  ASSUME AgentInv, NEW p \in Pass, PassStep(p) PROVE AgentInv'
  BY PassHandlesOwned, BeginKeeps, PlanKeeps, SyncKeeps, DrainKeeps, TakeAwayKeeps, CreateKeeps,
     GateAnswersKeeps, GateGivesUpKeeps, RetireKeeps
  DEF PassStep

LEMMA StutterKeeps ==
  ASSUME AgentInv, UNCHANGED agentVars PROVE AgentInv'
  BY RestKeeps DEF agentVars, AgentInv, AgentTypeOK, RestTyped

LEMMA NextKeeps ==
  ASSUME AgentInv, [Next]_agentVars PROVE AgentInv'
<1>1. ASSUME NEW r \in Reader, NEW s \in Specs, Receive(r, s) PROVE AgentInv'
  BY <1>1, ReceiveKeeps
<1>2. ASSUME NEW p \in Pass, PassStep(p) \/ Report(p) PROVE AgentInv'
  BY <1>2, PassStepKeeps, ReportKeeps
<1>3. CASE (\E r \in Reader : Connect(r)) \/ Disconnect \/ Restart
  BY <1>3, LifeKeeps
<1>4. CASE MachineStep
  BY <1>4, MachineKeeps
<1>5. CASE UNCHANGED agentVars
  BY <1>5, StutterKeeps
<1> QED BY <1>1, <1>2, <1>3, <1>4, <1>5 DEF Next

\* AgentInv holds throughout, whatever the control plane sends.
THEOREM AgentInvariant == Spec => []AgentInv
  BY InitInv, NextKeeps, PTL DEF Spec

\* The agent's state keeps its type.
THEOREM AgentTypeCorrect == Spec => []AgentTypeOK
<1>1. AgentInv => AgentTypeOK
  BY DEF AgentInv
<1> QED BY <1>1, AgentInvariant, PTL

\* Only containers of the platform's own are ever named to docker.
LEMMA ForeignKept ==
  ASSUME AgentInv, ForeignUntouched, [Next]_agentVars PROVE ForeignUntouched'
<1>1. /\ \A c \in Owned : c \notin Foreign
      /\ docker \in [Name -> ContainerState] /\ Foreign \subseteq Name
  BY DEF AgentInv, AgentTypeOK, Name
<1>2. ASSUME NEW c \in Owned,
             RmSucceeds(c) \/ RmFails(c) \/ RunSucceeds(c) \/ RunFails(c)
      PROVE  ForeignUntouched'
  BY <1>1, <1>2
     DEF RmSucceeds, RmFails, RunSucceeds, RunFails, ForeignUntouched, machine
<1>3. ASSUME NEW p \in Pass, NEW c \in Owned,
             TakeAway(p, c) \/ Create(p, c) \/ GateGivesUp(p, c) \/ Retire(p, c)
      PROVE  ForeignUntouched'
  BY <1>2, <1>3 DEF TakeAway, Create, GateGivesUp, Retire
<1>4. ASSUME NEW p \in Pass, PassStep(p) \/ Report(p) PROVE ForeignUntouched'
  BY <1>3, <1>4, PassHandlesOwned
     DEF PassStep, Begin, Plan, Sync, Drain, GateAnswers, Report, machine, ForeignUntouched
<1>5. ASSUME MachineStep PROVE ForeignUntouched'
  BY <1>1, <1>5 DEF MachineStep, Stops, ComesBack, Arrives, Finishes, ForeignUntouched
<1> QED
  BY <1>4, <1>5
     DEF Next, Receive, Connect, Disconnect, Restart, machine, agentVars, ForeignUntouched

\* Nothing the customer runs is ever touched.
THEOREM ForeignIsUntouched == Spec => []ForeignUntouched
<1>1. AgentInit => ForeignUntouched
  BY DEF AgentInit, ForeignUntouched, Name
<1>2. AgentInv /\ ForeignUntouched /\ [Next]_agentVars => ForeignUntouched'
  BY ForeignKept
<1> QED
  BY <1>1, <1>2, AgentInvariant, PTL DEF Spec
(****************************************************************************)
(* What was given up on.  Nothing keeps passes apart, so what follows holds *)
(* until the first of them begins while another is under way.               *)
(****************************************************************************)
UnderWay(p) == pass[p].pc \notin {"idle", "read"}

\* What a pass that is starting containers has yet to start.
ToStart(p) == pass[p].create \cup pass[p].replace \cup {pass[p].making}

\* While passes take turns, one is under way at most, and what it means to start nobody
\* has given up on: it left that out when it planned, and only a pass that has started
\* everything gives up on more.
InTurn ==
    overlaps = 0 =>
        /\ \A p, q \in Pass : UnderWay(p) /\ UnderWay(q) => p = q
        /\ \A p \in Pass : pass[p].pc = "plan" => pass[p].making = None
        /\ \A p \in Pass : pass[p].pc = "start" => ToStart(p) \cap abandoned = {}

\* A pass that is under way already and goes on, while nothing is given up on that it,
\* or any pass, means to start.
LEMMA TurnGoesOn ==
  ASSUME AgentInv, InTurn, NEW p \in Pass, NEW st, pass' = [pass EXCEPT ![p] = st],
         UnderWay(p) \/ st.pc = "read", overlaps' = overlaps, abandoned' = abandoned,
         st.pc # "plan",
         overlaps = 0 /\ st.pc = "start"
             => (st.create \cup st.replace \cup {st.making}) \cap abandoned = {}
  PROVE  InTurn'
<1>1. /\ pass'[p] = st
      /\ \A q \in Pass : q # p => pass'[q] = pass[q]
  BY DEF AgentInv, AgentTypeOK
<1>2. ASSUME overlaps = 0 PROVE \A q, r \in Pass : UnderWay(q)' /\ UnderWay(r)' => q = r
  BY <1>1, <1>2 DEF InTurn, UnderWay
<1>3. ASSUME overlaps = 0, NEW q \in Pass
      PROVE  /\ pass'[q].pc = "plan" => pass'[q].making = None
             /\ pass'[q].pc = "start" => ToStart(q)' \cap abandoned = {}
  <2>1. CASE q = p
    BY <1>1, <1>3, <2>1 DEF ToStart
  <2>2. CASE q # p
    BY <1>1, <1>3, <2>2 DEF InTurn, ToStart
  <2> QED BY <2>1, <2>2
<1> QED BY <1>2, <1>3 DEF InTurn

\* What leaves passes alone, and what was given up on, leaves turns alone.
LEMMA TurnStays ==
  ASSUME InTurn, UNCHANGED <<pass, abandoned, overlaps>>
  PROVE  InTurn'
  BY DEF InTurn, UnderWay, ToStart

LEMMA TurnBegins ==
  ASSUME AgentInv, InTurn, NEW p \in Pass, Begin(p) PROVE InTurn'
<1>1. CASE \A q \in Pass : pass[q].pc \in {"idle", "read"}
  <2>1. /\ pass'[p].pc = "plan" /\ pass'[p].making = None
        /\ \A q \in Pass : q # p => pass'[q].pc \in {"idle", "read"}
    BY <1>1 DEF Begin, IdlePass, AgentInv, AgentTypeOK
  <2> QED BY <2>1 DEF InTurn, UnderWay
<1>2. CASE ~ \A q \in Pass : pass[q].pc \in {"idle", "read"}
  BY <1>2 DEF Begin, InTurn, AgentInv, AgentTypeOK
<1> QED BY <1>1, <1>2

LEMMA TurnPlans ==
  ASSUME AgentInv, InTurn, NEW p \in Pass, Plan(p) PROVE InTurn'
<1>1. PICK actual \in {Managed, {}} : pass' = [pass EXCEPT ![p] = Planned(p, actual)]
  BY DEF Plan
<1>2. pass[p] \in PassState /\ abandoned \subseteq App /\ None \notin App
  BY DEF AgentInv, AgentTypeOK, Name, Owned
<1>3. overlaps = 0 => pass[p].making = None
  BY DEF Plan, InTurn
<1>4. /\ Planned(p, actual).pc = "start"
      /\ Planned(p, actual).making = pass[p].making
      /\ Planned(p, actual).create \cap abandoned = {}
      /\ Planned(p, actual).replace \cap abandoned = {}
  BY <1>2 DEF Planned, PassState
<1>5. UnderWay(p) /\ overlaps' = overlaps /\ abandoned' = abandoned
  BY DEF Plan, UnderWay, memory, history
<1> QED BY <1>1, <1>2, <1>3, <1>4, <1>5, TurnGoesOn

LEMMA TurnStarts ==
  ASSUME AgentInv, InTurn, NEW p \in Pass, NEW c \in Owned, TakeAway(p, c) \/ Create(p, c)
  PROVE  InTurn'
<1>1. PICK st : /\ pass' = [pass EXCEPT ![p] = st]
                /\ st.pc = "start"
                /\ st.create \subseteq pass[p].create
                /\ st.replace \subseteq pass[p].replace
                /\ st.making \in {pass[p].making, None} \cup pass[p].replace
  <2>1. pass[p] \in PassState
    BY DEF AgentInv, AgentTypeOK
  <2>2. CASE TakeAway(p, c)
    <3>1. \/ pass' = [pass EXCEPT ![p] = [pass[p] EXCEPT !.replace = @ \ {c},
                                                         !.making = c]]
          \/ pass' = [pass EXCEPT ![p] = [pass[p] EXCEPT !.replace = @ \ {c},
                                                         !.failed = @ \cup {c}]]
      BY <2>2 DEF TakeAway, AgentInv, AgentTypeOK
    <3> QED BY <2>1, <2>2, <3>1 DEF TakeAway, PassState
  <2>3. CASE Create(p, c)
    <3>1. \/ pass' = [pass EXCEPT ![p] = [pass[p] EXCEPT !.making = None, !.create = @ \ {c},
                                                         !.started = @ \cup {c}]]
          \/ pass' = [pass EXCEPT ![p] = [pass[p] EXCEPT !.making = None, !.create = @ \ {c},
                                                         !.failed = @ \cup {c}]]
      BY <2>3 DEF Create, AgentInv, AgentTypeOK
    <3> QED BY <2>1, <2>3, <3>1 DEF Create, PassState
  <2> QED BY <2>2, <2>3
<1>2. /\ UnderWay(p) /\ pass[p].pc = "start"
      /\ overlaps' = overlaps /\ abandoned' = abandoned
  BY DEF TakeAway, Create, UnderWay, memory, history
<1>3. None \notin abandoned
  BY DEF AgentInv, AgentTypeOK, Name, Owned
<1>4. overlaps = 0 => ToStart(p) \cap abandoned = {}
  BY <1>2 DEF InTurn
<1>5. overlaps = 0 => (st.create \cup st.replace \cup {st.making}) \cap abandoned = {}
  BY <1>1, <1>3, <1>4 DEF ToStart
<1> QED BY <1>1, <1>2, <1>5, TurnGoesOn

\* A version is given up on by a pass with nothing left to start, and there is no other.
LEMMA TurnGivesUp ==
  ASSUME AgentInv, InTurn, NEW p \in Pass, NEW c \in Owned, GateGivesUp(p, c)
  PROVE  InTurn'
<1>1. /\ pass'[p] = [pass[p] EXCEPT !.unproven = @ \cup {c}]
      /\ \A q \in Pass : q # p => pass'[q] = pass[q]
  BY DEF GateGivesUp, AgentInv, AgentTypeOK
<1>2. \A q \in Pass : /\ pass'[q].pc = pass[q].pc /\ pass'[q].making = pass[q].making
                      /\ ToStart(q)' = ToStart(q)
  <2>1. pass[p] \in PassState
    BY DEF AgentInv, AgentTypeOK
  <2> QED BY <1>1, <2>1 DEF PassState, ToStart
<1>3. /\ UnderWay(p) /\ ToStart(p) = {None}
      /\ abandoned' \subseteq App /\ None \notin App /\ overlaps' = overlaps
  BY DEF GateGivesUp, AllStarted, Gating, UnderWay, ToStart, AgentInv, AgentTypeOK, Name, Owned
<1>4. ASSUME overlaps = 0, NEW q \in Pass, pass[q].pc = "start" PROVE q = p
  BY <1>3, <1>4 DEF InTurn, UnderWay
<1> QED BY <1>2, <1>3, <1>4 DEF InTurn, UnderWay

\* What a pass does once everything is started, and between two runs, starts nothing.
LEMMA TurnRest ==
  ASSUME AgentInv, InTurn, NEW p \in Pass,
         \/ Sync(p) \/ Drain(p) \/ Report(p)
         \/ \E c \in Owned : GateAnswers(p, c) \/ Retire(p, c)
  PROVE  InTurn'
<1>1. pass[p] \in PassState /\ None \notin abandoned
  BY DEF AgentInv, AgentTypeOK, Name, Owned
<1>2. CASE Sync(p)
  <2> DEFINE st == [pass[p] EXCEPT !.pc = AfterSync(p),
                        !.await = {q \in Request : request[q] \in pass[p].remove}]
  <2>1. /\ pass' = [pass EXCEPT ![p] = st] /\ UnderWay(p)
        /\ overlaps' = overlaps /\ abandoned' = abandoned
    BY <1>2 DEF Sync, AllStarted, UnderWay, memory, history, AgentInv, AgentTypeOK
  <2>2. st.pc \notin {"plan", "start"}
    BY <1>1 DEF AfterSync, PassState
  <2> HIDE DEF st
  <2> QED BY <2>1, <2>2, TurnGoesOn
<1>3. CASE Drain(p)
  <2> DEFINE st == [pass[p] EXCEPT !.pc = "retire"]
  <2>1. /\ pass' = [pass EXCEPT ![p] = st] /\ UnderWay(p)
        /\ overlaps' = overlaps /\ abandoned' = abandoned
    BY <1>3 DEF Drain, UnderWay, memory, history, AgentInv, AgentTypeOK
  <2>2. st.pc = "retire"
    BY <1>1 DEF PassState
  <2> HIDE DEF st
  <2> QED BY <2>1, <2>2, TurnGoesOn
<1>4. CASE Report(p)
  <2>1. /\ pass' = [pass EXCEPT ![p] = IdlePass] /\ UnderWay(p)
        /\ overlaps' = overlaps /\ abandoned' = abandoned
    BY <1>4 DEF Report, UnderWay, memory, history
  <2>2. IdlePass.pc = "idle"
    BY DEF IdlePass
  <2> QED BY <2>1, <2>2, TurnGoesOn
<1>5. ASSUME NEW c \in Owned, GateAnswers(p, c) PROVE InTurn'
  <2> DEFINE st == [pass[p] EXCEPT !.healthy = @ \cup {c}]
  <2>1. /\ pass' = [pass EXCEPT ![p] = st] /\ UnderWay(p)
        /\ pass[p].pc = "start" /\ ToStart(p) = {None}
        /\ overlaps' = overlaps /\ abandoned' = abandoned
    BY <1>5 DEF GateAnswers, AllStarted, UnderWay, ToStart, memory, AgentInv, AgentTypeOK
  <2>2. st.pc = "start" /\ st.create \cup st.replace \cup {st.making} = ToStart(p)
    BY <1>1, <2>1 DEF PassState, ToStart
  <2> HIDE DEF st
  <2>3. overlaps = 0 => (st.create \cup st.replace \cup {st.making}) \cap abandoned = {}
    BY <1>1, <2>1, <2>2
  <2> QED BY <2>1, <2>2, <2>3, TurnGoesOn
<1>6. ASSUME NEW c \in Owned, Retire(p, c) PROVE InTurn'
  <2> DEFINE st == [pass[p] EXCEPT !.remove = @ \ {c}, !.retired = TRUE,
                        !.pc = IF pass[p].remove = {c} THEN "report" ELSE "retire"]
  <2>0. pass \in [Pass -> PassState]
    BY DEF AgentInv, AgentTypeOK
  <2>1. /\ pass' = [pass EXCEPT ![p] = st] /\ UnderWay(p)
        /\ overlaps' = overlaps /\ abandoned' = abandoned
    <3>1. pass' = [pass EXCEPT ![p] = st]
      BY <1>6, <2>0 DEF Retire
    <3>2. UnderWay(p) /\ overlaps' = overlaps /\ abandoned' = abandoned
      BY <1>6 DEF Retire, UnderWay, memory, history
    <3> QED BY <3>1, <3>2
  <2>2. st.pc \notin {"plan", "start"}
    BY <1>1 DEF PassState
  <2> HIDE DEF st
  <2> QED BY <2>1, <2>2, TurnGoesOn
<1> QED BY <1>2, <1>3, <1>4, <1>5, <1>6

LEMMA TurnKept ==
  ASSUME AgentInv, InTurn, [Next]_agentVars PROVE InTurn'
<1>1. ASSUME NEW r \in Reader, NEW s \in Specs, Receive(r, s) PROVE InTurn'
  <2> DEFINE st == [pass[r] EXCEPT !.pc = "read"]
  <2>1. /\ pass' = [pass EXCEPT ![r] = st] /\ r \in Pass
        /\ overlaps' = overlaps /\ abandoned' = abandoned
    BY <1>1 DEF Receive, Save, history, Pass, AgentInv, AgentTypeOK
  <2>2. st.pc = "read"
    BY <2>1 DEF AgentInv, AgentTypeOK, PassState
  <2> HIDE DEF st
  <2> QED BY <2>1, <2>2, TurnGoesOn
<1>2. ASSUME NEW p \in Pass, PassStep(p) \/ Report(p) PROVE InTurn'
  BY <1>2, PassHandlesOwned, TurnBegins, TurnPlans, TurnStarts, TurnGivesUp, TurnRest
     DEF PassStep
<1>3. CASE \/ \E r \in Reader : Connect(r)
           \/ Disconnect \/ MachineStep \/ UNCHANGED agentVars
  BY <1>3, TurnStays
     DEF Connect, Disconnect, MachineStep, Stops, ComesBack, Arrives, Finishes,
         memory, history, agentVars
<1>4. CASE Restart
  <2>1. \A p \in Pass : pass'[p].pc = "idle"
    BY <1>4 DEF Restart, IdlePass
  <2> QED BY <2>1 DEF InTurn, UnderWay
<1> QED BY <1>1, <1>2, <1>3, <1>4 DEF Next

LEMMA TurnLeavesDown ==
  ASSUME AgentInv, InTurn, [Next]_agentVars, overlaps = 0,
         NEW c \in App, c \in abandoned, docker[c] = "absent"
  PROVE  docker'[c] = "absent"
<1>1. docker \in [Name -> ContainerState] /\ c \in Name
  BY DEF AgentInv, AgentTypeOK, Name, Owned
<1>2. ASSUME NEW b \in Name, RmSucceeds(b) \/ RmFails(b) PROVE docker'[c] = "absent"
  BY <1>1, <1>2 DEF RmSucceeds, RmFails, machine
<1>3. ASSUME NEW p \in Pass, NEW b \in Name, Create(p, b) PROVE docker'[c] = "absent"
  <2>1. b \in ToStart(p) /\ pass[p].pc = "start"
    BY <1>3 DEF Create, ToStart
  <2>2. b # c
    BY <2>1 DEF InTurn
  <2> QED BY <1>1, <1>3, <2>2 DEF Create, RunSucceeds, RunFails
<1>4. ASSUME NEW p \in Pass, PassStep(p) \/ Report(p) PROVE docker'[c] = "absent"
  BY <1>2, <1>3, <1>4
     DEF PassStep, Begin, Plan, TakeAway, GateAnswers, GateGivesUp, Sync, Drain, Retire,
         Report, machine
<1>5. CASE MachineStep
  BY <1>1, <1>5 DEF MachineStep, Stops, ComesBack, Arrives, Finishes, Name
<1> QED
  BY <1>4, <1>5 DEF Next, Receive, Connect, Disconnect, Restart, machine, agentVars

\* While passes take turns, a version given up on is not started again for as long as the
\* agent remembers giving up on it (agent.go abandoned).
THEOREM GivenUpIsLeftDown == Spec => GivenUpStaysDown
<1>1. AgentInit => InTurn
  BY DEF AgentInit, IdlePass, InTurn, UnderWay
<1>2. AgentInv /\ InTurn /\ [Next]_agentVars => InTurn'
  BY TurnKept
<1>3. AgentInv /\ InTurn /\ [Next]_agentVars
        => [overlaps = 0 =>
             \A c \in App : (c \in abandoned /\ docker[c] = "absent" /\ c \in abandoned')
                                => docker'[c] = "absent"]_agentVars
  BY TurnLeavesDown
<1> QED
  BY <1>1, <1>2, <1>3, AgentInvariant, PTL DEF Spec, GivenUpStaysDown

(****************************************************************************)
(* Traffic is moved before what it was on is taken away.                    *)
(****************************************************************************)

\* What a pass takes away is nothing it was asked for.
Unwanted ==
    \A p \in Pass : pass[p].pc \notin {"idle", "read"} =>
        pass[p].remove \cap pass[p].spec.want = {}

\* A router that is not running sends nothing anywhere, and is told again when it is.
RouterForgets == docker[Router] # "running" => routes = NoRoutes

TrafficMoved ==
    faults = 0 /\ overlaps = 0 =>
        \A p \in Pass : pass[p].pc \in {"drain", "retire"} /\ RoutesWithin(pass[p].spec) =>
            \A h \in Host : routes[h] \notin pass[p].remove

TrafficInv == InTurn /\ Unwanted /\ RouterForgets /\ TrafficMoved

\* Only a router that is told changes where a hostname goes, other than to nowhere.
LEMMA RoutesFall ==
  ASSUME AgentInv, [Next]_agentVars, \A p \in Pass : ~ Sync(p)
  PROVE  \A h \in Host : routes'[h] \in {routes[h], None}
<1>1. ASSUME NEW c \in Name, RmSucceeds(c) \/ RmFails(c) \/ Ends(c)
      PROVE  \A h \in Host : routes'[h] \in {routes[h], None}
  BY <1>1 DEF RmSucceeds, RmFails, Ends, NoRoutes, machine
<1>2. ASSUME NEW p \in Pass, PassStep(p) \/ Report(p)
      PROVE  \A h \in Host : routes'[h] \in {routes[h], None}
  BY <1>1, <1>2
     DEF PassStep, Begin, Plan, TakeAway, Create, GateAnswers, GateGivesUp, Drain, Retire,
         Report, machine
<1>3. CASE MachineStep
  BY <1>1, <1>3 DEF MachineStep, Stops, ComesBack, Arrives, Finishes, Name
<1> QED
  BY <1>2, <1>3 DEF Next, Receive, Connect, Disconnect, Restart, machine, agentVars

LEMMA RouterKept ==
  ASSUME AgentInv, RouterForgets, [Next]_agentVars PROVE RouterForgets'
<1>0. docker \in [Name -> ContainerState] /\ Router \in Name
  BY DEF AgentInv, AgentTypeOK, Name, Owned
<1>1. ASSUME NEW c \in Name, RmSucceeds(c) \/ RmFails(c) PROVE RouterForgets'
  BY <1>0, <1>1 DEF RmSucceeds, RmFails, Ends, RouterForgets, machine, NoRoutes
<1>2. ASSUME NEW p \in Pass, NEW c \in Name, Create(p, c) PROVE RouterForgets'
  BY <1>0, <1>2 DEF Create, RunSucceeds, RunFails, RouterForgets, NoRoutes
<1>3. ASSUME NEW p \in Pass, Sync(p) PROVE RouterForgets'
  BY <1>3 DEF Sync, RouterForgets, NoRoutes
<1>4. ASSUME NEW p \in Pass, PassStep(p) \/ Report(p) PROVE RouterForgets'
  BY <1>1, <1>2, <1>3, <1>4
     DEF PassStep, Begin, Plan, TakeAway, GateAnswers, GateGivesUp, Drain, Retire, Report,
         RouterForgets, machine, NoRoutes
<1>5. CASE MachineStep
  BY <1>0, <1>5
     DEF MachineStep, Stops, ComesBack, Arrives, Finishes, Ends, RouterForgets, NoRoutes,
         Name, Owned
<1> QED
  BY <1>4, <1>5
     DEF Next, Receive, Connect, Disconnect, Restart, RouterForgets, machine, agentVars, NoRoutes

\* Whatever it read of the machine.
LEMMA PlanLeaves ==
  ASSUME AgentInv, NEW p \in Pass, NEW actual \in SUBSET Name, pass[p].pc = "plan",
         pass' = [pass EXCEPT ![p] = Planned(p, actual)]
  PROVE  /\ pass'[p].pc = "start" /\ pass'[p].spec = pass[p].spec
         /\ pass'[p].remove \cap pass[p].spec.want = {}
<1>1. pass \in [Pass -> PassState] /\ pass[p] \in PassState
  BY DEF AgentInv, AgentTypeOK
<1>2. pass'[p] = Planned(p, actual)
  BY <1>1
<1>3. Planned(p, actual).remove = actual \ pass[p].spec.want
  BY <1>1 DEF Planned, PassState
<1>4. Planned(p, actual).pc = "start" /\ Planned(p, actual).spec = pass[p].spec
  BY <1>1 DEF Planned, PassState
<1> QED BY <1>2, <1>3, <1>4

\* A pass takes away what it planned to, less what it has taken away.
LEMMA RemoveShrinks ==
  ASSUME AgentInv, [Next]_agentVars, NEW q \in Pass, pass'[q].pc \notin {"idle", "read", "plan"}
  PROVE  \/ /\ pass[q].pc \notin {"idle", "read"}
            /\ pass'[q].spec = pass[q].spec
            /\ pass'[q].remove \subseteq pass[q].remove
            /\ \/ pass'[q].pc \in {"drain", "retire"} => pass[q].pc \in {"drain", "retire"}
               \/ Sync(q)
         \/ /\ pass[q].pc = "plan" /\ pass'[q].pc = "start"
            /\ pass'[q].spec = pass[q].spec
            /\ pass'[q].remove \cap pass[q].spec.want = {}
<1>0. pass \in [Pass -> PassState] /\ pass[q] \in PassState
  BY DEF AgentInv, AgentTypeOK
<1> USE <1>0 DEF PassState
<1>1. ASSUME NEW p \in Pass, Begin(p) \/ Report(p)
      PROVE  pass'[q] = pass[q]
  <2>1. CASE p = q /\ Begin(p)
    BY <1>1, <2>1 DEF Begin, IdlePass
  <2>2. CASE p = q /\ Report(p)
    BY <1>1, <2>2 DEF Report, IdlePass
  <2>3. CASE p # q
    BY <1>1, <2>3 DEF Begin, Report
  <2> QED BY <1>1, <2>1, <2>2, <2>3
<1>2. ASSUME NEW p \in Pass, Plan(p)
      PROVE  \/ pass'[q] = pass[q]
             \/ /\ pass[q].pc = "plan" /\ pass'[q].pc = "start"
                /\ pass'[q].spec = pass[q].spec
                /\ pass'[q].remove \cap pass[q].spec.want = {}
  <2>1. CASE p = q
    BY <1>2, <2>1, PlanLeaves DEF Plan, Managed
  <2>2. CASE p # q
    BY <1>2, <2>2 DEF Plan
  <2> QED BY <2>1, <2>2
<1>3. ASSUME NEW p \in Pass, NEW c \in Name, TakeAway(p, c) \/ Create(p, c)
      PROVE  /\ pass'[q].spec = pass[q].spec /\ pass'[q].remove = pass[q].remove
             /\ pass'[q].pc = pass[q].pc
  BY <1>3 DEF TakeAway, Create
<1>4. ASSUME NEW p \in Pass, NEW c \in Name, GateAnswers(p, c) \/ GateGivesUp(p, c)
      PROVE  /\ pass'[q].spec = pass[q].spec /\ pass'[q].remove = pass[q].remove
             /\ pass'[q].pc = pass[q].pc
  BY <1>4 DEF GateAnswers, GateGivesUp
<1>5. ASSUME NEW p \in Pass, Sync(p)
      PROVE  /\ pass'[q].spec = pass[q].spec /\ pass'[q].remove = pass[q].remove
             /\ \/ pass'[q].pc = pass[q].pc
                \/ p = q /\ pass[q].pc = "start"
  BY <1>5 DEF Sync, AllStarted
<1>6. ASSUME NEW p \in Pass, Drain(p)
      PROVE  /\ pass'[q].spec = pass[q].spec /\ pass'[q].remove = pass[q].remove
             /\ \/ pass'[q].pc = pass[q].pc
                \/ pass[q].pc = "drain" /\ pass'[q].pc = "retire"
  BY <1>6 DEF Drain
<1>7. ASSUME NEW p \in Pass, NEW c \in Name, Retire(p, c)
      PROVE  /\ pass'[q].spec = pass[q].spec /\ pass'[q].remove \subseteq pass[q].remove
             /\ \/ pass'[q].pc = pass[q].pc
                \/ pass[q].pc = "retire" /\ pass'[q].pc \in {"report", "retire"}
  BY <1>7 DEF Retire
<1>8. ASSUME NEW r \in Reader, NEW s \in Specs, Receive(r, s) PROVE pass'[q] = pass[q]
  BY <1>8 DEF Receive, Pass
<1>9. CASE MachineStep \/ (\E r \in Reader : Connect(r)) \/ Disconnect \/ UNCHANGED agentVars
  BY <1>9 DEF MachineStep, Stops, ComesBack, Arrives, Finishes, Connect, Disconnect, agentVars
<1>10. CASE Restart
  BY <1>10 DEF Restart, IdlePass
<1> QED
  BY <1>1, <1>2, <1>3, <1>4, <1>5, <1>6, <1>7, <1>8, <1>9, <1>10 DEF Next, PassStep

LEMMA UnwantedKept ==
  ASSUME AgentInv, Unwanted, [Next]_agentVars, NEW q \in Pass,
         pass'[q].pc \notin {"idle", "read"}
  PROVE  pass'[q].remove \cap pass'[q].spec.want = {}
<1>1. CASE pass'[q].pc # "plan"
  BY <1>1, RemoveShrinks DEF Unwanted
<1>2. CASE pass'[q].pc = "plan"
  <2>1. pass \in [Pass -> PassState] /\ pass[q] \in PassState
    BY DEF AgentInv, AgentTypeOK
  <2> DEFINE Same == pass'[q] = pass[q] \/ pass'[q].remove = {}
  <2>2. ASSUME NEW p \in Pass, Begin(p) PROVE Same
    BY <2>1, <2>2 DEF Begin, IdlePass
  <2>3. ASSUME NEW p \in Pass, Plan(p) PROVE Same
    BY <1>2, <2>1, <2>3, PlanLeaves DEF Plan, Managed
  <2>4. ASSUME NEW p \in Pass, NEW c \in Name, TakeAway(p, c) \/ Create(p, c) PROVE Same
    BY <1>2, <2>1, <2>4 DEF TakeAway, Create, PassState
  <2>5. ASSUME NEW p \in Pass, NEW c \in Name, GateAnswers(p, c) \/ GateGivesUp(p, c) PROVE Same
    BY <1>2, <2>1, <2>5 DEF GateAnswers, GateGivesUp, AllStarted, PassState
  <2>6. ASSUME NEW p \in Pass, Sync(p) \/ Drain(p) \/ Report(p) PROVE Same
    BY <1>2, <2>1, <2>6 DEF Sync, AfterSync, Drain, Report, IdlePass, PassState
  <2>7. ASSUME NEW p \in Pass, NEW c \in Name, Retire(p, c) PROVE Same
    BY <1>2, <2>1, <2>7 DEF Retire, PassState
  <2>8. ASSUME NEW r \in Reader, NEW s \in Specs, Receive(r, s) PROVE Same
    BY <1>2, <2>1, <2>8 DEF Receive, Pass, PassState
  <2>9. ASSUME \/ MachineStep \/ (\E r \in Reader : Connect(r)) \/ Disconnect
               \/ UNCHANGED agentVars
        PROVE  Same
    <3>1. pass' = pass
      BY <2>9 DEF MachineStep, Stops, ComesBack, Arrives, Finishes, Connect, Disconnect, agentVars
    <3> QED BY <3>1
  <2>10. ASSUME Restart PROVE Same
    BY <2>10 DEF Restart, IdlePass
  <2> HIDE DEF Same
  <2>11. Same
    BY <2>2, <2>3, <2>4, <2>5, <2>6, <2>7, <2>8, <2>9, <2>10 DEF Next, PassStep
  <2> QED BY <1>2, <2>11 DEF Unwanted, Same
<1> QED BY <1>1, <1>2

\* What a router that is told sends traffic to is nothing the pass takes away.
LEMMA SyncMoves ==
  ASSUME AgentInv, TrafficInv, NEW p \in Pass, Sync(p), faults' = faults,
         RoutesWithin(pass[p].spec)
  PROVE  \A h \in Host : routes'[h] \notin pass'[p].remove
<1>1. /\ pass \in [Pass -> PassState] /\ pass[p] \in PassState
      /\ pass[p].remove \subseteq Owned /\ None \notin Owned
      /\ faults \in Nat
  BY DEF AgentInv, AgentTypeOK, PassState, Name
<1>2. pass'[p].remove = pass[p].remove /\ pass[p].pc = "start"
  BY <1>1 DEF Sync, AllStarted, PassState
<1>3. pass[p].remove \cap pass[p].spec.want = {}
  BY <1>2 DEF TrafficInv, Unwanted
<1>4. CASE routes' = ProvenRoutes(p)
  BY <1>1, <1>2, <1>3, <1>4 DEF ProvenRoutes, RoutesWithin
<1>5. CASE docker[Router] # "running" /\ UNCHANGED routes
  BY <1>1, <1>2, <1>5 DEF TrafficInv, RouterForgets, NoRoutes
<1>6. ~ Fault
  BY <1>1 DEF Fault
<1> QED BY <1>4, <1>5, <1>6 DEF Sync, RoutesWithin

\* Neither faults nor overlaps are taken back.
LEMMA CountsGrow ==
  ASSUME AgentInv, [Next]_agentVars, faults' = 0, overlaps' = 0
  PROVE  faults = 0 /\ overlaps = 0
<1>0. faults \in Nat /\ overlaps \in Nat
  BY DEF AgentInv, AgentTypeOK
<1>1. ASSUME NEW c \in Name, RmSucceeds(c) \/ RmFails(c) \/ RunSucceeds(c) \/ RunFails(c)
      PROVE  faults = 0
  BY <1>0, <1>1 DEF RmSucceeds, RmFails, RunSucceeds, RunFails, Fault
<1>2. ASSUME NEW p \in Pass, PassStep(p) \/ Report(p) PROVE faults = 0
  <2>1. ASSUME NEW c \in Name,
               \/ TakeAway(p, c) \/ Create(p, c) \/ GateGivesUp(p, c) \/ Retire(p, c)
        PROVE  faults = 0
    BY <1>1, <2>1 DEF TakeAway, Create, GateGivesUp, Retire
  <2>2. ASSUME NEW c \in Name, GateAnswers(p, c) PROVE faults = 0
    BY <2>2 DEF GateAnswers
  <2>3. CASE Begin(p) \/ Plan(p) \/ Sync(p) \/ Drain(p) \/ Report(p)
    BY <1>0, <2>3 DEF Begin, Plan, Sync, Drain, Report, Fault
  <2> QED BY <1>2, <2>1, <2>2, <2>3 DEF PassStep
<1>3. ASSUME NEW p \in Pass, PassStep(p) \/ Report(p) PROVE overlaps = 0
  <2>1. ASSUME NEW c \in Name,
               \/ TakeAway(p, c) \/ Create(p, c) \/ GateAnswers(p, c) \/ GateGivesUp(p, c)
               \/ Retire(p, c)
        PROVE  overlaps = 0
    BY <2>1 DEF TakeAway, Create, GateAnswers, GateGivesUp, Retire, history
  <2>2. CASE Begin(p)
    BY <1>0, <2>2 DEF Begin
  <2>3. CASE Plan(p) \/ Sync(p) \/ Drain(p) \/ Report(p)
    BY <2>3 DEF Plan, Sync, Drain, Report, history
  <2> QED BY <1>3, <2>1, <2>2, <2>3 DEF PassStep
<1>4. CASE MachineStep
  BY <1>0, <1>4 DEF MachineStep, Stops, ComesBack, Arrives, Finishes, Fault, history
<1> QED
  BY <1>0, <1>2, <1>3, <1>4
     DEF Next, Receive, Save, Connect, Disconnect, Restart, Fault, history, agentVars

LEMMA TrafficKept ==
  ASSUME AgentInv, AgentInv', TrafficInv, [Next]_agentVars PROVE TrafficInv'
<1>1. InTurn'
  BY TurnKept DEF TrafficInv
<1>2. Unwanted'
  BY UnwantedKept DEF TrafficInv, Unwanted
<1>3. RouterForgets'
  BY RouterKept DEF TrafficInv
<1>4. TrafficMoved'
  <2> SUFFICES ASSUME faults' = 0, overlaps' = 0, NEW q \in Pass,
                      pass'[q].pc \in {"drain", "retire"}, RoutesWithin(pass'[q].spec),
                      NEW h \in Host
               PROVE  routes'[h] \notin pass'[q].remove
    BY DEF TrafficMoved, RoutesWithin
  <2>1. faults = 0 /\ overlaps = 0
    BY CountsGrow
  <2>2. /\ pass[q].pc \notin {"idle", "read"} /\ pass'[q].spec = pass[q].spec
        /\ pass'[q].remove \subseteq pass[q].remove
        /\ pass[q].pc \in {"drain", "retire"} \/ Sync(q)
    BY RemoveShrinks
  <2>3. CASE Sync(q)
    BY <2>1, <2>2, <2>3, SyncMoves
  <2>4. ASSUME ~ Sync(q), NEW p \in Pass, Sync(p) PROVE FALSE
    <3>1. UnderWay(p) /\ UnderWay(q)
      BY <2>2, <2>4 DEF UnderWay, Sync, AllStarted
    <3>2. pass[p].pc = "start" /\ pass[q].pc # "start"
      BY <2>2, <2>4 DEF Sync, AllStarted
    <3> QED BY <2>1, <3>1, <3>2 DEF TrafficInv, InTurn
  <2>5. CASE \A p \in Pass : ~ Sync(p)
    <3>1. routes'[h] \in {routes[h], None}
      BY <2>5, RoutesFall
    <3>2. pass[q].pc \in {"drain", "retire"} /\ RoutesWithin(pass[q].spec)
      BY <2>2, <2>5 DEF RoutesWithin
    <3>3. routes[h] \notin pass[q].remove
      BY <2>1, <3>2 DEF TrafficInv, TrafficMoved
    <3>4. None \notin pass[q].remove
      BY DEF AgentInv, AgentTypeOK, PassState, Name
    <3> QED BY <2>2, <3>1, <3>3, <3>4
  <2> QED BY <2>3, <2>4, <2>5
<1> QED BY <1>1, <1>2, <1>3, <1>4 DEF TrafficInv

\* No pass takes anything away before what it started has answered and, while nothing
\* fails and passes take turns, before the router sends its traffic elsewhere.
THEOREM RetiringIsProven == Spec => []RetiringComesLast
<1>1. AgentInit => TrafficInv
  BY DEF AgentInit, IdlePass, InTurn, UnderWay, TrafficInv, Unwanted, RouterForgets, TrafficMoved
<1>2. AgentInv /\ AgentInv' /\ TrafficInv /\ [Next]_agentVars => TrafficInv'
  BY TrafficKept
<1>3. AgentInv /\ TrafficInv => RetiringComesLast
  BY DEF AgentInv, HealthyAnswered, RetiringHeardAll, RetiringComesLast, TrafficInv, TrafficMoved
<1> QED BY <1>1, <1>2, <1>3, AgentInvariant, PTL DEF Spec
==============================================================================
