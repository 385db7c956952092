------------------------------ MODULE YolProofs ------------------------------
(****************************************************************************)
(* A deploy from end to end, for any versions, goroutines and connections,  *)
(* however passes overlap and whatever is lost: what the record says of a   *)
(* version is what the machine has shown of it.                             *)
(****************************************************************************)
EXTENDS Yol, AgentProofs, DeploymentsProofs

(****************************************************************************)
(* The invariant.  Whatever is known of a version anywhere, on either side  *)
(* or on the way between them, rests on what happened to it.                *)
(****************************************************************************)

Built == {d \in App : image[d]}

BuiltSpecs(B) == {s \in Specs : s.want \cap App \subseteq B}

\* A pass works on what was built, and counts against a version only what it failed.
PassGrounded(st, B, S) ==
    /\ st.spec \in Specs => st.spec \in BuiltSpecs(B)
    /\ (st.create \cup st.replace \cup st.started) \cap App \subseteq B
    /\ st.making \in App => st.making \in B
    /\ st.healthy \cup st.unproven \subseteq B
    /\ st.unproven \subseteq S

AgentGrounded ==
    /\ {held, disk} \subseteq BuiltSpecs(Built) \cup {NoSpec}
    /\ \A p \in Pass : PassGrounded(pass[p], Built, silent)
    /\ \A d \in App : docker[d] # "absent" => d \in Built

\* What may be written to the agent and what it may say, given what was built,
\* what answered and what did not.
DownGrounded(B)     == {ApplySpec(s) : s \in BuiltSpecs(B)} \cup {Build(d) : d \in App}
UpGrounded(B, A, S) == {Applied(H, U) : H \in SUBSET (A \cap B), U \in SUBSET (S \cap B)}
                         \cup {BuildResult(d, ok) : d \in App, ok \in BOOLEAN}

SenderGrounded(B, A, S) ==
    [pc : {"idle", "build", "greet", "reconcile", "send"},
     conn : Reader \cup {None}, spec : BuiltSpecs(B) \cup {NoSpec},
     healthy : SUBSET (A \cap B), unproven : SUBSET (S \cap B)]

WireGrounded ==
    /\ hub \in Reader \cup {None}
    /\ down \in Seq(DownGrounded(Built))
    /\ up \in Seq(UpGrounded(Built, answered, silent))
    /\ building \subseteq App
    /\ sender \in [Goroutine -> SenderGrounded(Built, answered, silent)]
    /\ \A g \in Goroutine : /\ sender[g].pc = "greet" => g \in Reader
                            /\ sender[g].pc = "send" => sender[g].spec \in Specs
    /\ changes \in 0..MaxChanges
    /\ order \in {"kept", "crossed", "mended"}

\* The order to build a version, its build and the result: one of them at most, in
\* one place, and the version waits for it.
Ordered(d, i) == i \in 1..Len(down) /\ down[i].type = "build" /\ down[i].deployment = d
Told(d, i)    == i \in 1..Len(up) /\ up[i].type = "buildResult" /\ up[i].deployment = d

OrderedOnce ==
    \A d \in App :
        /\ sender[d].pc = "build" =>
             /\ status[d] = "building" /\ d \notin building
             /\ \A i \in Nat : ~ Ordered(d, i) /\ ~ Told(d, i)
        /\ d \in building =>
             status[d] = "building" /\ \A i \in Nat : ~ Ordered(d, i) /\ ~ Told(d, i)
        /\ \A i \in Nat : Ordered(d, i) =>
             /\ status[d] = "building"
             /\ \A j \in Nat : ~ Told(d, j) /\ (Ordered(d, j) => i = j)
        /\ \A i \in Nat : Told(d, i) =>
             status[d] = "building" /\ \A j \in Nat : Told(d, j) => i = j

RecordGrounded ==
    /\ \A d \in App : status[d] \in {"none", "building"} => d \notin Built
    /\ \A d \in App : status[d] \in {"live", "superseded"} => d \in answered

WatchIdle ==
    ServerMode = "watch" =>
        /\ mode = "watch" /\ held = NoSpec /\ disk = NoSpec /\ building = {}
        /\ \A p \in Pass : pass[p].pc = "idle"
        /\ \A c \in Owned : docker[c] = "absent"

\* Until specifications cross, one goroutine at a time has one to write.
InOrder ==
    order # "crossed" =>
        \A g, h \in Goroutine : sender[g].pc = "send" /\ sender[h].pc = "send" => g = h

YolInv ==
    /\ AgentInv /\ DeployInv
    /\ AgentGrounded /\ WireGrounded /\ OrderedOnce /\ RecordGrounded /\ WatchIdle
    /\ InOrder

USE DoneDistinct, SpecsTyped, ProcessesDistinct, ModeKnown, NamesDistinct,
    GoroutinesDistinct, ChangesCounted, SpecsComplete

\* It holds at the start.
LEMMA InitYolInv == YolInit => YolInv
<1> SUFFICES ASSUME YolInit PROVE YolInv
  OBVIOUS
<1>1. AgentInv /\ DeployInv
  BY InitInv DEF YolInit, DeployInit, DeployInv, DeployTypeOK, OneLive, LiveIsBuilt, Status
<1>2. AgentGrounded
  BY DEF YolInit, AgentInit, DeployInit, AgentGrounded, PassGrounded, IdlePass, Pass,
         Built, BuiltSpecs, Name, Owned
<1>3. WireGrounded
  BY DEF YolInit, AgentInit, WireGrounded, Idle, SenderGrounded, Goroutine
<1>4. OrderedOnce
  BY DEF YolInit, OrderedOnce, Ordered, Told, Idle, Goroutine
<1>5. RecordGrounded /\ WatchIdle
  BY DEF YolInit, AgentInit, DeployInit, RecordGrounded, WatchIdle, IdlePass, Built,
         Owned, Name
<1>6. InOrder
  BY DEF YolInit, InOrder, Idle, Goroutine
<1> QED BY <1>1, <1>2, <1>3, <1>4, <1>5, <1>6 DEF YolInv

(****************************************************************************)
(* What a step is to the agent, and what it is to the record.               *)
(****************************************************************************)

\* To the agent it is a step of its own or one that happens elsewhere.
Elsewhere ==
    /\ UNCHANGED <<memory, pass, machine, history>>
    /\ session' \in {session, None}
    /\ faults' \in 0..MaxFaults

AgentPart ==
    \/ Elsewhere
    \/ \E r \in Reader, s \in BuiltSpecs(Built) : Receive(r, s)
    \/ \E p \in Pass : PassStep(p) \/ Report(p)
    \/ \E r \in Reader : Connect(r)
    \/ Disconnect \/ Restart \/ MachineStep

\* To the record it is one of its transactions, with what it records as it is.
RecordPart ==
    \/ UNCHANGED deployVars
    \/ /\ UNCHANGED history
       /\ \/ \E d \in App : RecordDeploy(d)
          \/ \E d \in App : status[d] = "building" /\ RecordNotAsked(d)
          \/ \E d \in App, ok \in BOOLEAN : status[d] = "building" /\ RecordBuild(d, ok)
          \/ \E d \in Built \cap answered : RecordRollout(d, TRUE)
          \/ \E d \in Built \cap silent : RecordRollout(d, FALSE)
          \/ \E previous, d \in App : RecordRollback(previous, d)
          \/ \E h \in Named : RecordVerified(h) \/ RecordRemoved(h)

\* The first message on the way is one that may be.
LEMMA HeadDown ==
  ASSUME WireGrounded, down # <<>>
  PROVE  /\ Head(down) \in DownGrounded(Built) /\ Head(down) = down[1]
         /\ Head(down).type = "applySpec" => Head(down).spec \in BuiltSpecs(Built)
         /\ Head(down).type = "build" => Head(down).deployment \in App
<1>1. Head(down) \in DownGrounded(Built) /\ Head(down) = down[1]
  BY DEF WireGrounded
<1> QED BY <1>1 DEF DownGrounded, ApplySpec, Build

\* So is the first on the way back.
LEMMA HeadUp ==
  ASSUME WireGrounded, up # <<>>
  PROVE  /\ Head(up) \in UpGrounded(Built, answered, silent) /\ Head(up) = up[1]
         /\ Head(up).type = "applied" =>
              /\ Head(up).healthy \in SUBSET (answered \cap Built)
              /\ Head(up).unproven \in SUBSET (silent \cap Built)
         /\ Head(up).type = "buildResult" =>
              Head(up).deployment \in App /\ Head(up).succeeded \in BOOLEAN
<1>1. Head(up) \in UpGrounded(Built, answered, silent) /\ Head(up) = up[1]
  BY DEF WireGrounded
<1> QED BY <1>1 DEF UpGrounded, Applied, BuildResult

\* Nothing counts a fault but Fault.
LEMMA FaultsTyped ==
  ASSUME AgentInv, UNCHANGED faults \/ Fault PROVE faults' \in 0..MaxFaults
  BY BoundsCounted DEF AgentInv, AgentTypeOK, Fault

\* What every step of the whole is to the agent.
LEMMA AgentPartOf ==
  ASSUME YolInv, [YolNext]_yolVars PROVE AgentPart
<1> USE DEF YolInv, memory, machine, history, agentVars, agentButFaults, Elsewhere
<1>1. CASE UNCHANGED agentVars
  BY <1>1, FaultsTyped DEF AgentPart
<1>2. ASSUME NEW r \in Reader, TakeSpec(r) PROVE AgentPart
  BY <1>2, HeadDown DEF TakeSpec, AgentPart
<1>3. ASSUME NEW r \in Reader, TakeBuildResult(r) \/ \E d \in App : FinishRollout(r, d)
      PROVE  AgentPart
  BY <1>3, FaultsTyped DEF TakeBuildResult, FinishRollout, NotRecorded, AgentPart
<1>8. ASSUME NEW g \in Goroutine, ReadSpec(g) PROVE AgentPart
  BY <1>8, FaultsTyped DEF ReadSpec, AgentPart
<1>4. ASSUME ServerRestart PROVE AgentPart
  BY <1>4, FaultsTyped DEF ServerRestart, AgentPart
<1>5. ASSUME NEW p \in Pass, ReportPass(p) PROVE AgentPart
  BY <1>5 DEF ReportPass, AgentPart
<1>6. ASSUME AgentProceeds PROVE AgentPart
  BY <1>6 DEF AgentProceeds, AgentPart
<1>7. ASSUME (\E r \in Reader : Attach(r)) \/ Detach \/ AgentRestart PROVE AgentPart
  BY <1>7 DEF Attach, Detach, AgentRestart, AgentPart
<1> QED
  BY <1>1, <1>2, <1>3, <1>4, <1>5, <1>6, <1>7, <1>8
  DEF YolNext, yolVars, Deploy, AskBuild, Rollback, ChangeHostname, SendSpec, StartBuild,
      Refuse, TakeApplied, Forget, FinishBuilding

\* What every step of the whole is to the record.  A build is recorded of a version that
\* waits for one, an outcome of a version that was built and has it.
LEMMA RecordPartOf ==
  ASSUME YolInv, [YolNext]_yolVars PROVE RecordPart
<1> USE DEF YolInv
<1>1. CASE UNCHANGED deployVars
  BY <1>1 DEF RecordPart
<1>2. ASSUME NEW d \in App, Deploy(d) PROVE RecordPart
  BY <1>2 DEF Deploy, RecordPart, agentVars, history
<1>3. ASSUME NEW d \in App, AskBuild(d) PROVE RecordPart
  BY <1>3 DEF AskBuild, RecordPart, OrderedOnce, agentVars, history
<1>4. ASSUME NEW previous \in App, NEW d \in App, Rollback(previous, d) PROVE RecordPart
  BY <1>4 DEF Rollback, RecordPart, agentVars, history
<1>7. ASSUME NEW h \in Named, ChangeHostname(h) PROVE RecordPart
  BY <1>7 DEF ChangeHostname, RecordPart, agentVars, history
<1>5. ASSUME NEW r \in Reader, TakeBuildResult(r) PROVE RecordPart
  <2> DEFINE d == Head(up).deployment
  <2>1. d \in App /\ Head(up).succeeded \in BOOLEAN /\ Told(d, 1)
    BY <1>5, HeadUp DEF TakeBuildResult, Told, WireGrounded
  <2>2. status[d] = "building"
    BY <2>1 DEF OrderedOnce
  <2> QED BY <1>5, <2>1, <2>2 DEF TakeBuildResult, NotRecorded, RecordPart, agentButFaults
<1>6. ASSUME NEW r \in Reader, NEW d \in App, FinishRollout(r, d) PROVE RecordPart
  <2>1. /\ sender[r].healthy \subseteq answered \cap Built
        /\ sender[r].unproven \subseteq silent \cap Built
    BY DEF WireGrounded, SenderGrounded, Goroutine
  <2> QED BY <1>6, <2>1 DEF FinishRollout, NotRecorded, RecordPart, agentButFaults
<1> QED
  BY <1>1, <1>2, <1>3, <1>4, <1>5, <1>6, <1>7
  DEF YolNext, yolVars, ReadSpec, SendSpec, TakeSpec, StartBuild, Refuse, TakeApplied,
      Attach, Forget, FinishBuilding, ReportPass, Detach, AgentRestart, ServerRestart,
      AgentProceeds

\* The record of the whole is the record the transactions alone can make.
LEMMA RecordTakesItsSteps ==
  ASSUME RecordPart PROVE [DeployNext]_deployVars
  BY DEF RecordPart, DeployNext, Built

\* The invariants of the two parts hold of them together.
LEMMA PartsKeepTheirs ==
  ASSUME YolInv, [YolNext]_yolVars PROVE AgentInv' /\ DeployInv'
<1>1. DeployInv'
  BY RecordPartOf, RecordTakesItsSteps, RecordKeepsInv DEF YolInv
<1>2. CASE Elsewhere
  BY <1>1, <1>2, RestKeeps
  DEF Elsewhere, YolInv, AgentInv, AgentTypeOK, RestTyped, memory, machine, history
<1>3. ASSUME NEW r \in Reader, NEW s \in BuiltSpecs(Built), Receive(r, s) PROVE AgentInv'
  BY <1>3, ReceiveKeeps DEF YolInv, BuiltSpecs
<1>4. ASSUME NEW p \in Pass, PassStep(p) \/ Report(p) PROVE AgentInv'
  BY <1>4, PassStepKeeps, ReportKeeps DEF YolInv
<1>5. CASE (\E r \in Reader : Connect(r)) \/ Disconnect \/ Restart
  BY <1>1, <1>5, LifeKeeps DEF YolInv
<1>6. CASE MachineStep
  BY <1>1, <1>6, MachineKeeps DEF YolInv
<1> QED
  BY <1>1, <1>2, <1>3, <1>4, <1>5, <1>6, AgentPartOf DEF AgentPart

(****************************************************************************)
(* What was built, what answered and what did not only grow.                *)
(****************************************************************************)
Grows ==
    /\ Built \subseteq Built'
    /\ answered \subseteq answered'
    /\ silent \subseteq silent'

\* No step takes an image, an answer or a failure back.
LEMMA AllGrows ==
  ASSUME YolInv, [YolNext]_yolVars PROVE Grows
<1>1. Built \subseteq Built'
  BY RecordPartOf, RecordTakesItsSteps, ImagesStay DEF YolInv, Built
<1>2. ASSUME NEW p \in Pass, PassStep(p)
      PROVE  answered \subseteq answered' /\ silent \subseteq silent'
  BY <1>2
  DEF PassStep, Begin, Plan, Sync, Drain, TakeAway, Create, GateAnswers, GateGivesUp,
      Retire, history
<1>3. ASSUME MachineStep PROVE UNCHANGED <<answered, silent>>
  BY <1>3 DEF MachineStep, Stops, ComesBack, Arrives, Finishes, history
<1>4. answered \subseteq answered' /\ silent \subseteq silent'
  BY <1>2, <1>3, AgentPartOf
  DEF AgentPart, Elsewhere, Receive, Report, Connect, Disconnect, Restart, history
<1> QED BY <1>1, <1>4 DEF Grows

\* What was as it should be stays so as they grow.
LEMMA PassStaysGrounded ==
  ASSUME Grows, NEW st, PassGrounded(st, Built, silent)
  PROVE  PassGrounded(st, Built', silent')
  BY DEF Grows, PassGrounded, BuiltSpecs

(****************************************************************************)
(* The agent works only on what was built.                                  *)
(****************************************************************************)

\* A pass that moves to a state as it should be, with nothing new on the machine
\* that was not built.
LEMMA PassMovesGrounded ==
  ASSUME AgentGrounded, AgentInv, Grows, NEW p \in Pass, NEW st,
         pass' = [pass EXCEPT ![p] = st], PassGrounded(st, Built', silent'),
         {held', disk'} \subseteq {held, disk} \cup BuiltSpecs(Built),
         \A d \in App : docker'[d] # "absent" => docker[d] # "absent" \/ d \in Built
  PROVE  AgentGrounded'
<1>1. \A o \in Pass : PassGrounded(pass'[o], Built', silent')
  BY PassStaysGrounded DEF AgentGrounded, AgentInv, AgentTypeOK
<1>2. {held', disk'} \subseteq BuiltSpecs(Built') \cup {NoSpec}
  BY DEF AgentGrounded, Grows, BuiltSpecs
<1> QED BY <1>1, <1>2 DEF AgentGrounded, Grows

\* Taking a container away puts nothing there.
LEMMA RmOnlyTakes ==
  ASSUME AgentInv, NEW c \in Name, RmSucceeds(c) \/ RmFails(c)
  PROVE  \A d \in App : docker'[d] # "absent" => docker[d] # "absent"
  BY DEF RmSucceeds, RmFails, machine, AgentInv, AgentTypeOK, Name, Owned

\* Running one puts nothing there but that one.
LEMMA RunOnlyMakes ==
  ASSUME AgentInv, NEW c \in Name, RunSucceeds(c) \/ RunFails(c)
  PROVE  \A d \in App : docker'[d] # "absent" => docker[d] # "absent" \/ d = c
  BY DEF RunSucceeds, RunFails, AgentInv, AgentTypeOK, Name, Owned

\* Every step of a pass works from what the specification it began with names.
LEMMA PassGrounds ==
  ASSUME YolInv, Grows, NEW p \in Pass, PassStep(p) PROVE AgentGrounded'
<1> USE DEF YolInv
<1>1. /\ pass \in [Pass -> PassState] /\ pass[p] \in PassState
      /\ PassGrounded(pass[p], Built, silent) /\ PassGrounded(pass[p], Built', silent')
  BY PassStaysGrounded DEF AgentInv, AgentTypeOK, AgentGrounded
<1>2. CASE Begin(p)
  <2> DEFINE st == [IdlePass EXCEPT !.pc = "plan", !.spec = held]
  <2>1. PassGrounded(st, Built', silent')
    BY <1>2 DEF Begin, PassGrounded, IdlePass, AgentGrounded, Grows, BuiltSpecs, Name, Owned
  <2>2. pass' = [pass EXCEPT ![p] = st] /\ UNCHANGED <<held, disk, docker>>
    BY <1>2 DEF Begin, memory, machine
  <2> HIDE DEF st
  <2> QED BY <2>1, <2>2, PassMovesGrounded
<1>3. CASE Plan(p)
  <2>1. PICK actual \in {Managed, {}} : pass' = [pass EXCEPT ![p] = Planned(p, actual)]
    BY <1>3 DEF Plan
  <2>2. pass[p].spec \in BuiltSpecs(Built) /\ actual \cap App \subseteq Built
    BY <1>1, <1>3 DEF Plan, PassGrounded, AgentInv, BegunHasSpec, AgentGrounded, Managed,
                      Name, Owned
  <2>3. PassGrounded(Planned(p, actual), Built', silent')
    BY <1>1, <2>2 DEF PassGrounded, Planned, BuiltSpecs, Grows, PassState
  <2> QED BY <1>3, <2>1, <2>3, PassMovesGrounded DEF Plan, memory, machine
<1>4. CASE Sync(p)
  <2> DEFINE st == [pass[p] EXCEPT !.pc = AfterSync(p),
                                   !.await = {q \in Request : request[q] \in pass[p].remove}]
  <2>1. pass' = [pass EXCEPT ![p] = st]
    BY <1>1, <1>4 DEF Sync
  <2>2. PassGrounded(st, Built', silent')
    BY <1>1 DEF PassGrounded, PassState
  <2> HIDE DEF st
  <2> QED BY <1>4, <2>1, <2>2, PassMovesGrounded DEF Sync, memory
<1>5. CASE Drain(p)
  <2> DEFINE st == [pass[p] EXCEPT !.pc = "retire"]
  <2>1. pass' = [pass EXCEPT ![p] = st]
    BY <1>1, <1>5 DEF Drain
  <2>2. PassGrounded(st, Built', silent')
    BY <1>1 DEF PassGrounded, PassState
  <2> HIDE DEF st
  <2> QED BY <1>5, <2>1, <2>2, PassMovesGrounded DEF Drain, memory, machine
<1>6. ASSUME NEW c \in Name, TakeAway(p, c) PROVE AgentGrounded'
  <2> DEFINE gone == [pass[p] EXCEPT !.replace = @ \ {c}, !.making = c]
             kept == [pass[p] EXCEPT !.replace = @ \ {c}, !.failed = @ \cup {c}]
  <2>1. PICK st \in {gone, kept} : pass' = [pass EXCEPT ![p] = st]
    BY <1>1, <1>6 DEF TakeAway
  <2>2. PassGrounded(gone, Built', silent') /\ PassGrounded(kept, Built', silent')
    BY <1>1, <1>6 DEF PassGrounded, PassState, TakeAway
  <2> HIDE DEF gone, kept
  <2> QED BY <1>6, <2>1, <2>2, PassMovesGrounded, RmOnlyTakes DEF TakeAway, memory
<1>7. ASSUME NEW c \in Name, Create(p, c) PROVE AgentGrounded'
  <2> DEFINE gone == [pass[p] EXCEPT !.making = None, !.create = @ \ {c},
                                     !.started = @ \cup {c}]
             kept == [pass[p] EXCEPT !.making = None, !.create = @ \ {c},
                                     !.failed = @ \cup {c}]
  <2>1. PICK st \in {gone, kept} : pass' = [pass EXCEPT ![p] = st]
    BY <1>1, <1>7 DEF Create
  <2>2. c \in App => c \in Built
    BY <1>1, <1>7 DEF Create, PassGrounded
  <2>3. PassGrounded(gone, Built', silent') /\ PassGrounded(kept, Built', silent')
    BY <1>1, <2>2 DEF PassGrounded, PassState, Grows, Name, Owned
  <2> HIDE DEF gone, kept
  <2>4. /\ \A d \in App : docker'[d] # "absent" => docker[d] # "absent" \/ d \in Built
        /\ {held', disk'} \subseteq {held, disk} \cup BuiltSpecs(Built)
    BY <1>7, <2>2, RunOnlyMakes DEF Create, memory
  <2>5. PassGrounded(st, Built', silent')
    BY <2>1, <2>3
  <2> HIDE DEF Grows, PassGrounded
  <2> QED BY <2>1, <2>4, <2>5, PassMovesGrounded
<1>8. ASSUME NEW c \in Name, GateAnswers(p, c) PROVE AgentGrounded'
  <2> DEFINE st == [pass[p] EXCEPT !.healthy = @ \cup {c}]
  <2>1. pass' = [pass EXCEPT ![p] = st]
    BY <1>1, <1>8 DEF GateAnswers
  <2>2. PassGrounded(st, Built', silent')
    BY <1>1, <1>8 DEF PassGrounded, PassState, GateAnswers, Gating
  <2> HIDE DEF st
  <2> QED BY <1>8, <2>1, <2>2, PassMovesGrounded DEF GateAnswers, memory, machine
<1>9. ASSUME NEW c \in Name, GateGivesUp(p, c) PROVE AgentGrounded'
  <2> DEFINE st == [pass[p] EXCEPT !.unproven = @ \cup {c}]
  <2>1. pass' = [pass EXCEPT ![p] = st]
    BY <1>1, <1>9 DEF GateGivesUp
  <2>2. PassGrounded(st, Built', silent')
    BY <1>1, <1>9 DEF PassGrounded, PassState, GateGivesUp, Gating
  <2> HIDE DEF st
  <2> QED BY <1>9, <2>1, <2>2, PassMovesGrounded, RmOnlyTakes DEF GateGivesUp
<1>10. ASSUME NEW c \in Name, Retire(p, c) PROVE AgentGrounded'
  <2> DEFINE next == IF pass[p].remove = {c} THEN "report" ELSE "retire"
             st   == [pass[p] EXCEPT !.remove = @ \ {c}, !.retired = TRUE, !.pc = next]
  <2>1. pass' = [pass EXCEPT ![p] = st]
    BY <1>1, <1>10 DEF Retire
  <2>2. PassGrounded(st, Built', silent')
    BY <1>1 DEF PassGrounded, PassState
  <2> HIDE DEF st
  <2> QED BY <1>10, <2>1, <2>2, PassMovesGrounded, RmOnlyTakes DEF Retire, memory
<1> QED BY <1>2, <1>3, <1>4, <1>5, <1>6, <1>7, <1>8, <1>9, <1>10 DEF PassStep

\* Whatever leaves passes alone and puts nothing new on the machine.
LEMMA RestGrounds ==
  ASSUME AgentGrounded, Grows, UNCHANGED pass,
         {held', disk'} \subseteq {held, disk},
         \A d \in App : docker'[d] # "absent" => docker[d] # "absent"
  PROVE  AgentGrounded'
<1>1. \A p \in Pass : PassGrounded(pass'[p], Built', silent')
  BY PassStaysGrounded DEF AgentGrounded
<1>2. {held', disk'} \subseteq BuiltSpecs(Built') \cup {NoSpec}
  BY DEF AgentGrounded, Grows, BuiltSpecs
<1> QED BY <1>1, <1>2 DEF AgentGrounded, Grows

\* Every step of the whole.
LEMMA AgentStaysGrounded ==
  ASSUME YolInv, [YolNext]_yolVars PROVE AgentGrounded'
<1> USE DEF YolInv, memory, machine
<1>0. Grows
  BY AllGrows
<1>1. PassGrounded(IdlePass, Built', silent')
  BY DEF PassGrounded, IdlePass, Name, Owned
<1>2. ASSUME Elsewhere PROVE AgentGrounded'
  BY <1>0, <1>2, RestGrounds DEF Elsewhere
<1>3. ASSUME NEW r \in Reader, NEW s \in BuiltSpecs(Built), Receive(r, s)
      PROVE  AgentGrounded'
  <2> DEFINE st == [pass[r] EXCEPT !.pc = "read"]
  <2>1. r \in Pass /\ pass[r] \in PassState
    BY DEF Pass, AgentInv, AgentTypeOK
  <2>2. pass' = [pass EXCEPT ![r] = st]
    BY <1>3, <2>1 DEF Receive, AgentInv, AgentTypeOK
  <2>3. PassGrounded(st, Built', silent')
    BY <1>0, <2>1, PassStaysGrounded DEF AgentGrounded, PassGrounded, PassState
  <2>4. {held', disk'} \subseteq {held, disk} \cup BuiltSpecs(Built) /\ UNCHANGED docker
    BY <1>3 DEF Receive, Save
  <2> HIDE DEF st
  <2> QED BY <1>0, <2>1, <2>2, <2>3, <2>4, PassMovesGrounded
<1>4. ASSUME NEW p \in Pass, PassStep(p) PROVE AgentGrounded'
  BY <1>0, <1>4, PassGrounds
<1>5. ASSUME NEW p \in Pass, Report(p) PROVE AgentGrounded'
  BY <1>0, <1>1, <1>5, PassMovesGrounded DEF Report
<1>6. ASSUME NEW r \in Reader, Connect(r) PROVE AgentGrounded'
  BY <1>0, <1>6, RestGrounds DEF Connect
<1>7. ASSUME Disconnect PROVE AgentGrounded'
  BY <1>0, <1>7, RestGrounds DEF Disconnect
<1>8. ASSUME Restart PROVE AgentGrounded'
  BY <1>0, <1>1, <1>8 DEF Restart, AgentGrounded, Grows, BuiltSpecs
<1>9. ASSUME MachineStep PROVE AgentGrounded'
  BY <1>0, <1>9, RestGrounds
  DEF MachineStep, Stops, ComesBack, Arrives, Finishes, AgentInv, AgentTypeOK, Name, Owned
<1> QED
  BY <1>2, <1>3, <1>4, <1>5, <1>6, <1>7, <1>8, <1>9, AgentPartOf DEF AgentPart

(****************************************************************************)
(* The record says of a version what it has shown.                          *)
(****************************************************************************)
\* Only an outcome that is in the agent's history makes a version live.
LEMMA RecordStaysGrounded ==
  ASSUME YolInv, [YolNext]_yolVars PROVE RecordGrounded'
<1> USE DEF YolInv, DeployInv, DeployTypeOK, RecordGrounded, Built, history
<1>0. Grows
  BY AllGrows
<1>1. CASE UNCHANGED deployVars
  BY <1>0, <1>1 DEF deployVars, Grows
<1>2. ASSUME NEW d \in App, RecordDeploy(d), UNCHANGED history PROVE RecordGrounded'
  BY <1>2 DEF RecordDeploy
<1>3. ASSUME NEW d \in App, RecordNotAsked(d), UNCHANGED history PROVE RecordGrounded'
  BY <1>3 DEF RecordNotAsked
<1>4. ASSUME NEW d \in App, NEW ok \in BOOLEAN, RecordBuild(d, ok), UNCHANGED history
      PROVE  RecordGrounded'
  <2>1. \A e \in App \ {d} : status'[e] = status[e] /\ image'[e] = image[e]
    BY <1>4 DEF RecordBuild
  <2>2. status'[d] \in {"deploying", "failed"}
    BY <1>4 DEF RecordBuild
  <2> QED BY <1>4, <2>1, <2>2
<1>5. ASSUME NEW d \in Built \cap answered, RecordRollout(d, TRUE), UNCHANGED history
      PROVE  RecordGrounded'
  <2>1. /\ status' = [e \in App |->
                       IF e = d THEN "live"
                       ELSE IF e \in Siblings(d) /\ status[e] = "live" THEN "superseded"
                       ELSE status[e]]
        /\ UNCHANGED image
    BY <1>5 DEF RecordRollout
  <2>2. \A e \in App \ {d} :
           status'[e] = status[e] \/ (status[e] = "live" /\ status'[e] = "superseded")
    BY <2>1
  <2>3. status'[d] = "live"
    BY <2>1
  <2> QED BY <1>5, <2>1, <2>2, <2>3
<1>6. ASSUME NEW d \in Built \cap silent, RecordRollout(d, FALSE), UNCHANGED history
      PROVE  RecordGrounded'
  BY <1>6 DEF RecordRollout
<1>7. ASSUME NEW previous \in App, NEW d \in App, RecordRollback(previous, d),
             UNCHANGED history
      PROVE  RecordGrounded'
  BY <1>7 DEF RecordRollback
<1>8. ASSUME NEW h \in Named, RecordVerified(h) \/ RecordRemoved(h), UNCHANGED history
      PROVE  RecordGrounded'
  BY <1>8 DEF RecordVerified, RecordRemoved
<1> QED BY <1>1, <1>2, <1>3, <1>4, <1>5, <1>6, <1>7, <1>8, RecordPartOf DEF RecordPart

(****************************************************************************)
(* A server that is watched is left as it was.                              *)
(****************************************************************************)
\* Nothing the control plane sends gets a pass, a build or a specification begun.
LEMMA WatchStaysIdle ==
  ASSUME YolInv, [YolNext]_yolVars PROVE WatchIdle'
<1> SUFFICES ASSUME ServerMode = "watch" PROVE WatchIdle'
  BY DEF WatchIdle
<1> USE DEF YolInv, memory, machine
<1>0. /\ mode = "watch" /\ held = NoSpec /\ disk = NoSpec /\ building = {}
      /\ \A p \in Pass : pass[p].pc = "idle"
      /\ \A c \in Owned : docker[c] = "absent"
  BY DEF WatchIdle
<1>1. building' = {}
  BY <1>0 DEF YolNext, yolVars, Deploy, AskBuild, Rollback, ChangeHostname, ReadSpec,
       SendSpec, TakeSpec, StartBuild, Refuse, TakeBuildResult, TakeApplied, Attach, Forget,
       FinishRollout, FinishBuilding, ReportPass, Detach, AgentRestart, ServerRestart, AgentProceeds
<1>2. ASSUME NEW r \in Reader, NEW s, Receive(r, s) PROVE FALSE
  BY <1>0, <1>2 DEF Receive
<1>3. ASSUME NEW p \in Pass, PassStep(p) \/ Report(p) PROVE FALSE
  BY <1>0, <1>3
  DEF PassStep, Begin, Plan, Sync, Drain, TakeAway, Create, GateAnswers, GateGivesUp,
      AllStarted, Retire, Report
<1>4. ASSUME MachineStep PROVE UNCHANGED <<memory, pass, docker>>
  BY <1>0, <1>4 DEF MachineStep, Stops, ComesBack, Arrives, Finishes
<1>5. ASSUME NEW r \in Reader, Connect(r) PROVE WatchIdle'
  BY <1>0, <1>1, <1>5 DEF Connect, WatchIdle
<1>6. CASE Restart
  BY <1>0, <1>1, <1>6 DEF Restart, WatchIdle, IdlePass
<1>7. CASE Elsewhere \/ Disconnect \/ MachineStep
  BY <1>0, <1>1, <1>4, <1>7 DEF Elsewhere, Disconnect, WatchIdle
<1> QED BY <1>2, <1>3, <1>5, <1>6, <1>7, AgentPartOf DEF AgentPart

(****************************************************************************)
(* What is said between the two is as it should be.                         *)
(****************************************************************************)
\* What may be said grows with what is known.
LEMMA WireGrows ==
  ASSUME Grows
  PROVE  /\ DownGrounded(Built) \subseteq DownGrounded(Built')
         /\ UpGrounded(Built, answered, silent) \subseteq UpGrounded(Built', answered', silent')
         /\ SenderGrounded(Built, answered, silent)
              \subseteq SenderGrounded(Built', answered', silent')
<1>1. BuiltSpecs(Built) \subseteq BuiltSpecs(Built')
  BY DEF Grows, BuiltSpecs
<1>2. DownGrounded(Built) \subseteq DownGrounded(Built')
  BY <1>1 DEF DownGrounded
<1>3. UpGrounded(Built, answered, silent) \subseteq UpGrounded(Built', answered', silent')
  BY DEF Grows, UpGrounded
<1>4. SenderGrounded(Built, answered, silent)
         \subseteq SenderGrounded(Built', answered', silent')
  BY <1>1 DEF Grows, SenderGrounded
<1> QED BY <1>2, <1>3, <1>4

\* Messages of one kind are messages of a wider one.
LEMMA SeqGrows ==
  ASSUME NEW S, NEW T, S \subseteq T PROVE Seq(S) \subseteq Seq(T)
  OBVIOUS

\* What a connection does to its messages: nothing, lose them, lose the first, add one.
LEMMA SeqSteps ==
  ASSUME NEW S, NEW q \in Seq(S), NEW r,
         r = q \/ r = <<>> \/ (q # <<>> /\ r = Tail(q)) \/ \E m \in S : r = Append(q, m)
  PROVE  r \in Seq(S)
<1>1. <<>> \in Seq(S)
  OBVIOUS
<1>2. CASE r = q
  BY <1>2
<1>3. CASE q # <<>> /\ r = Tail(q)
  BY <1>3
<1>4. ASSUME NEW m \in S, r = Append(q, m) PROVE r \in Seq(S)
  BY <1>4
<1> QED BY <1>1, <1>2, <1>3, <1>4

\* The three parts of it, each of which most steps leave alone.
DownTyped   == down \in Seq(DownGrounded(Built))
UpTyped     == up \in Seq(UpGrounded(Built, answered, silent))
SenderTyped ==
    /\ sender \in [Goroutine -> SenderGrounded(Built, answered, silent)]
    /\ \A g \in Goroutine : /\ sender[g].pc = "greet" => g \in Reader
                            /\ sender[g].pc = "send" => sender[g].spec \in Specs

\* Each part is kept by a step that does to it what a connection or a goroutine may.
LEMMA DownKept ==
  ASSUME DownTyped, Grows,
         \/ UNCHANGED down
         \/ down' = <<>>
         \/ down # <<>> /\ down' = Tail(down)
         \/ \E m \in DownGrounded(Built) : down' = Append(down, m)
  PROVE  DownTyped'
<1>1. down' \in Seq(DownGrounded(Built))
  BY SeqSteps DEF DownTyped
<1> QED BY <1>1, WireGrows, SeqGrows DEF DownTyped

LEMMA UpKept ==
  ASSUME UpTyped, Grows,
         \/ UNCHANGED up
         \/ up' = <<>>
         \/ up # <<>> /\ up' = Tail(up)
         \/ \E m \in UpGrounded(Built, answered, silent) : up' = Append(up, m)
  PROVE  UpTyped'
<1>1. up' \in Seq(UpGrounded(Built, answered, silent))
  BY SeqSteps DEF UpTyped
<1> QED BY <1>1, WireGrows, SeqGrows DEF UpTyped

LEMMA SenderKept ==
  ASSUME SenderTyped, Grows, NEW g \in Goroutine,
         NEW st \in SenderGrounded(Built, answered, silent),
         sender' = [sender EXCEPT ![g] = st],
         st.pc = "greet" => g \in Reader, st.pc = "send" => st.spec \in Specs
  PROVE  SenderTyped'
<1>1. /\ sender' \in [Goroutine -> SenderGrounded(Built, answered, silent)]
      /\ \A o \in Goroutine : /\ sender'[o].pc = "greet" => o \in Reader
                              /\ sender'[o].pc = "send" => sender'[o].spec \in Specs
  BY DEF SenderTyped
<1> QED BY <1>1, WireGrows DEF SenderTyped

LEMMA SenderStays ==
  ASSUME SenderTyped, Grows, UNCHANGED sender PROVE SenderTyped'
  BY WireGrows DEF SenderTyped

\* A specification names only what was built.
LEMMA SpecForIsBuilt == ASSUME DeployInv PROVE SpecFor \in BuiltSpecs(Built)
<1>1. SpecFor \in Specs
  BY SpecForIsSpec DEF DeployInv
<1>2. SpecFor.want \cap App \subseteq Built
  BY DEF SpecFor, NothingAsked, Placed, Built
<1> QED BY <1>1, <1>2 DEF BuiltSpecs

\* A goroutine that only goes on to its next step.
LEMMA SenderGoesOn ==
  ASSUME SenderTyped, Grows, NEW g \in Goroutine,
         NEW pc \in {"idle", "build", "greet", "reconcile"},
         sender' = [sender EXCEPT ![g].pc = pc], pc = "greet" => g \in Reader
  PROVE  SenderTyped'
<1> DEFINE st == [sender[g] EXCEPT !.pc = pc]
<1>1. st \in SenderGrounded(Built, answered, silent) /\ st.pc = pc
  BY DEF SenderTyped, SenderGrounded
<1>2. sender' = [sender EXCEPT ![g] = st]
  BY DEF SenderTyped
<1> HIDE DEF st
<1> QED BY <1>1, <1>2, SenderKept

\* A goroutine that reads a specification has it to write to a connection; one that is
\* not to, or cannot, is done.
SpecRead(g, c) ==
    sender' = [sender EXCEPT ![g] =
                 [sender[g] EXCEPT !.pc = "send", !.conn = c, !.spec = SpecFor]]

LEMMA ReadOrDone ==
  ASSUME WireGrounded, NEW g \in Goroutine, ReadSpec(g)
  PROVE  \/ \E c \in Reader : /\ SpecRead(g, c) /\ Reads(g, c) /\ UNCHANGED faults
                              /\ \/ sender[g].pc = "greet" /\ c = g
                                 \/ sender[g].pc = "reconcile" /\ c = hub
         \/ /\ sender' = [sender EXCEPT ![g].pc = "idle"] /\ UNCHANGED order
            /\ sender[g].pc \in {"greet", "reconcile"}
            /\ \/ sender[g].pc = "reconcile" /\ hub = None /\ UNCHANGED faults
               \/ Fault
<1>1. sender[g].pc = "greet" => g \in Reader
  BY DEF WireGrounded
<1>2. CASE sender[g].pc = "greet" /\ Reads(g, g) /\ UNCHANGED faults
  BY <1>1, <1>2 DEF Reads, SpecRead, WireGrounded
<1>3. CASE sender[g].pc = "reconcile" /\ hub # None /\ Reads(g, hub) /\ UNCHANGED faults
  BY <1>3 DEF Reads, SpecRead, WireGrounded
<1> QED BY <1>2, <1>3 DEF ReadSpec

\* Each part, through every step of the whole.
LEMMA SenderStaysTyped ==
  ASSUME YolInv, [YolNext]_yolVars PROVE SenderTyped'
<1>0. /\ SenderTyped /\ Grows /\ WireGrounded
      /\ App \subseteq Goroutine /\ Reader \subseteq Goroutine /\ Named \subseteq Goroutine
  BY AllGrows DEF YolInv, WireGrounded, SenderTyped, Goroutine
<1>t. \A g \in Goroutine : sender[g] \in SenderGrounded(Built, answered, silent)
  BY <1>0 DEF SenderTyped
<1>i. Idle \in SenderGrounded(Built, answered, silent) /\ Idle.pc = "idle"
  BY DEF Idle, SenderGrounded
<1>1. CASE UNCHANGED sender
  BY <1>0, <1>1, SenderStays
<1>2. ASSUME NEW d \in App, Deploy(d) PROVE SenderTyped'
  BY <1>0, <1>2, SenderGoesOn DEF Deploy
<1>3. ASSUME NEW d \in App, AskBuild(d) PROVE SenderTyped'
  BY <1>0, <1>i, <1>3, SenderKept DEF AskBuild
<1>4. ASSUME NEW previous, NEW d \in App, Rollback(previous, d) PROVE SenderTyped'
  BY <1>0, <1>4, SenderGoesOn DEF Rollback
<1>12. ASSUME NEW h \in Named, ChangeHostname(h) PROVE SenderTyped'
  BY <1>0, <1>12, SenderGoesOn DEF ChangeHostname
<1>5. ASSUME NEW g \in Goroutine, ReadSpec(g) PROVE SenderTyped'
  <2> DEFINE st(c) == [sender[g] EXCEPT !.pc = "send", !.conn = c, !.spec = SpecFor]
  <2>1. ASSUME NEW c \in Reader, sender' = [sender EXCEPT ![g] = st(c)] PROVE SenderTyped'
    <3>1. SpecFor \in BuiltSpecs(Built)
      BY SpecForIsBuilt DEF YolInv
    <3>2. /\ st(c) \in SenderGrounded(Built, answered, silent)
          /\ st(c).pc = "send" /\ st(c).spec \in Specs
      BY <1>t, <3>1 DEF SenderGrounded, BuiltSpecs
    <3> HIDE DEF st
    <3> QED BY <1>0, <2>1, <3>2, SenderKept
  <2>2. CASE sender' = [sender EXCEPT ![g].pc = "idle"]
    BY <1>0, <2>2, SenderGoesOn
  <2> QED BY <1>0, <1>5, <2>1, <2>2, ReadOrDone DEF SpecRead
<1>6. ASSUME NEW g \in Goroutine, SendSpec(g) PROVE SenderTyped'
  <2> DEFINE st == [sender[g] EXCEPT !.pc = "idle", !.conn = None, !.spec = NoSpec]
  <2>1. st \in SenderGrounded(Built, answered, silent) /\ st.pc = "idle"
    BY <1>t DEF SenderGrounded
  <2>2. sender' = [sender EXCEPT ![g] = st]
    BY <1>6 DEF SendSpec
  <2> HIDE DEF st
  <2> QED BY <1>0, <2>1, <2>2, SenderKept
<1>7. ASSUME NEW r \in Reader, TakeBuildResult(r) PROVE SenderTyped'
  <2> DEFINE next == IF Head(up).succeeded THEN "reconcile" ELSE "idle"
  <2>1. UNCHANGED sender \/ sender' = [sender EXCEPT ![r].pc = next]
    BY <1>7 DEF TakeBuildResult
  <2>2. next \in {"idle", "reconcile"}
    OBVIOUS
  <2> HIDE DEF next
  <2> QED BY <1>0, <2>1, <2>2, SenderGoesOn, SenderStays
<1>8. ASSUME NEW r \in Reader, TakeApplied(r) PROVE SenderTyped'
  <2> DEFINE st == [sender[r] EXCEPT !.healthy = Head(up).healthy, !.unproven = Head(up).unproven]
  <2>1. sender' = [sender EXCEPT ![r] = st]
    BY <1>0, <1>8 DEF TakeApplied, SenderTyped
  <2>2. /\ Head(up).healthy \in SUBSET (answered \cap Built)
        /\ Head(up).unproven \in SUBSET (silent \cap Built)
    BY <1>0, <1>8, HeadUp DEF TakeApplied
  <2>3. /\ sender[r] \in SenderGrounded(Built, answered, silent)
        /\ sender[r].pc = "idle"
    BY <1>0, <1>8 DEF SenderTyped, TakeApplied, Listening
  <2>4. st \in SenderGrounded(Built, answered, silent) /\ st.pc = "idle"
    BY <2>2, <2>3 DEF SenderGrounded
  <2> HIDE DEF st
  <2> QED BY <1>0, <2>1, <2>4, SenderKept
<1>9. ASSUME NEW r \in Reader, NEW d \in App, FinishRollout(r, d) PROVE SenderTyped'
  <2> DEFINE heard == [sender[r] EXCEPT !.healthy = @ \ {d}, !.pc = "reconcile"]
             silenced == [sender[r] EXCEPT !.unproven = @ \ {d}]
             lost == [sender[r] EXCEPT !.healthy = @ \ {d}, !.unproven = @ \ {d}]
  <2>1. PICK st \in {heard, silenced, lost} : sender' = [sender EXCEPT ![r] = st]
    BY <1>0, <1>9 DEF FinishRollout, SenderTyped
  <2>2. sender[r] \in SenderGrounded(Built, answered, silent) /\ sender[r].pc = "idle"
    BY <1>0, <1>9 DEF FinishRollout, SenderTyped
  <2>3. heard \in SenderGrounded(Built, answered, silent) /\ heard.pc = "reconcile"
    BY <2>2 DEF SenderGrounded
  <2>4. silenced \in SenderGrounded(Built, answered, silent) /\ silenced.pc = "idle"
    BY <2>2 DEF SenderGrounded
  <2>5. lost \in SenderGrounded(Built, answered, silent) /\ lost.pc = "idle"
    BY <2>2 DEF SenderGrounded
  <2> HIDE DEF heard, silenced, lost
  <2> QED BY <1>0, <2>1, <2>3, <2>4, <2>5, SenderKept
<1>10. ASSUME NEW r \in Reader, Attach(r) PROVE SenderTyped'
  BY <1>0, <1>10, SenderGoesOn DEF Attach
<1>11. ASSUME ServerRestart PROVE SenderTyped'
  BY <1>0, <1>11, <1>i, WireGrows DEF ServerRestart, SenderTyped
<1> QED
  BY <1>1, <1>2, <1>3, <1>4, <1>5, <1>6, <1>7, <1>8, <1>9, <1>10, <1>11, <1>12
  DEF YolNext, yolVars, TakeSpec, StartBuild, Refuse, Forget, FinishBuilding, ReportPass,
      Detach, AgentRestart, AgentProceeds

LEMMA DownStaysTyped ==
  ASSUME YolInv, [YolNext]_yolVars PROVE DownTyped'
<1>0. DownTyped /\ Grows /\ WireGrounded
  BY AllGrows DEF YolInv, WireGrounded, DownTyped
<1>1. CASE UNCHANGED down \/ down' = <<>> \/ (down # <<>> /\ down' = Tail(down))
  BY <1>0, <1>1, DownKept
<1>2. ASSUME NEW d \in App, AskBuild(d) PROVE DownTyped'
  BY <1>0, <1>2, DownKept DEF AskBuild, DownGrounded
<1>3. ASSUME NEW g \in Goroutine, SendSpec(g) PROVE DownTyped'
  <2>1. sender[g].spec \in BuiltSpecs(Built)
    BY <1>0, <1>3 DEF WireGrounded, SenderGrounded, SendSpec
  <2>2. ApplySpec(sender[g].spec) \in DownGrounded(Built)
    BY <2>1 DEF DownGrounded
  <2> QED BY <1>0, <1>3, <2>2, DownKept DEF SendSpec
<1> QED
  BY <1>1, <1>2, <1>3
  DEF YolNext, yolVars, wire, Deploy, Rollback, ChangeHostname, ReadSpec, TakeSpec,
      StartBuild, Refuse, TakeBuildResult, TakeApplied, Attach, Forget, FinishRollout,
      FinishBuilding,
      ReportPass, Detach, AgentRestart, ServerRestart, AgentProceeds

LEMMA UpStaysTyped ==
  ASSUME YolInv, [YolNext]_yolVars PROVE UpTyped'
<1>0. UpTyped /\ Grows /\ WireGrounded
  BY AllGrows DEF YolInv, WireGrounded, UpTyped
<1>1. CASE UNCHANGED up \/ up' = <<>> \/ (up # <<>> /\ up' = Tail(up))
  BY <1>0, <1>1, UpKept
<1>2. ASSUME NEW d \in App, NEW ok \in BOOLEAN, FinishBuilding(d, ok) PROVE UpTyped'
  BY <1>0, <1>2, UpKept DEF FinishBuilding, Say, UpGrounded
<1>3. ASSUME NEW p \in Pass, ReportPass(p) PROVE UpTyped'
  <2>1. /\ pass[p].healthy \subseteq answered \cap Built
        /\ pass[p].unproven \subseteq silent \cap Built
    BY DEF YolInv, AgentInv, HealthyAnswered, AgentGrounded, PassGrounded
  <2>2. Applied(pass[p].healthy, pass[p].unproven) \in UpGrounded(Built, answered, silent)
    BY <2>1 DEF UpGrounded
  <2> QED BY <1>0, <1>3, <2>2, UpKept DEF ReportPass, Say
<1> QED
  BY <1>1, <1>2, <1>3
  DEF YolNext, yolVars, wire, Deploy, AskBuild, Rollback, ChangeHostname, ReadSpec,
      SendSpec, TakeSpec, StartBuild, Refuse, TakeBuildResult, TakeApplied, Attach, Forget,
      FinishRollout, Detach, AgentRestart, ServerRestart, AgentProceeds

LEMMA WireStaysGrounded ==
  ASSUME YolInv, [YolNext]_yolVars PROVE WireGrounded'
<1>0. WireGrounded
  BY DEF YolInv
<1>1. hub' \in Reader \cup {None}
  BY <1>0
  DEF WireGrounded, YolNext, yolVars, wire, Deploy, AskBuild, Rollback, ChangeHostname,
      ReadSpec, SendSpec, TakeSpec, StartBuild, Refuse, TakeBuildResult, TakeApplied,
      Attach, Forget, FinishRollout, FinishBuilding, ReportPass, Detach, AgentRestart,
      ServerRestart, AgentProceeds
<1>2. building' \subseteq App
  BY <1>0, HeadDown
  DEF WireGrounded, YolNext, yolVars, wire, Deploy, AskBuild, Rollback, ChangeHostname,
      ReadSpec, SendSpec, TakeSpec, StartBuild, Refuse, TakeBuildResult, TakeApplied,
      Attach, Forget, FinishRollout, FinishBuilding, ReportPass, Detach, AgentRestart,
      ServerRestart, AgentProceeds
<1>3. changes' \in 0..MaxChanges
  <2>1. ASSUME Change PROVE changes' \in 0..MaxChanges
    BY <1>0, <2>1, ChangesCounted DEF WireGrounded, Change
  <2>2. Change \/ UNCHANGED changes
    BY DEF YolNext, yolVars, Deploy, AskBuild, Rollback, ChangeHostname, ReadSpec, SendSpec,
           TakeSpec, StartBuild, Refuse, TakeBuildResult, TakeApplied, Attach, Forget,
           FinishRollout, FinishBuilding, ReportPass, Detach, AgentRestart, ServerRestart,
           AgentProceeds
  <2> QED BY <1>0, <2>1, <2>2 DEF WireGrounded
<1>4. order' \in {"kept", "crossed", "mended"}
  BY <1>0
  DEF WireGrounded, YolNext, yolVars, wire, Deploy, AskBuild, Rollback, ChangeHostname,
      Reads, ReadSpec, SendSpec, TakeSpec, StartBuild, Refuse, TakeBuildResult, TakeApplied,
      Attach, Forget, FinishRollout, FinishBuilding, ReportPass, Detach, AgentRestart,
      ServerRestart, AgentProceeds
<1> QED
  BY <1>1, <1>2, <1>3, <1>4, SenderStaysTyped, DownStaysTyped, UpStaysTyped
  DEF WireGrounded, SenderTyped, DownTyped, UpTyped

(****************************************************************************)
(* A version is ordered, built and told of once.                            *)
(****************************************************************************)
\* Where a message is after the first was taken, or another added.
LEMMA DownTail ==
  ASSUME DownTyped, down # <<>>, down' = Tail(down), NEW d, NEW i \in Nat, Ordered(d, i)'
  PROVE  Ordered(d, i + 1)
  BY DEF DownTyped, Ordered

LEMMA UpTail ==
  ASSUME UpTyped, up # <<>>, up' = Tail(up), NEW d, NEW i \in Nat, Told(d, i)'
  PROVE  Told(d, i + 1)
  BY DEF UpTyped, Told

LEMMA DownAppend ==
  ASSUME DownTyped, NEW m, down' = Append(down, m), NEW d, NEW i \in Nat, Ordered(d, i)'
  PROVE  Ordered(d, i) \/ (i = Len(down) + 1 /\ m.type = "build" /\ m.deployment = d)
  BY DEF DownTyped, Ordered

LEMMA UpAppend ==
  ASSUME UpTyped, NEW m, up' = Append(up, m), NEW d, NEW i \in Nat, Told(d, i)'
  PROVE  Told(d, i) \/ (i = Len(up) + 1 /\ m.type = "buildResult" /\ m.deployment = d)
  BY DEF UpTyped, Told

\* Where an order for d is, if there is one.
Pending(d) ==
    \/ sender[d].pc = "build" \/ d \in building
    \/ \E i \in Nat : Ordered(d, i) \/ Told(d, i)

\* What the messages of one direction come to: as many as before, or the first taken.
FewerOrdered == \/ \A d \in App, i \in Nat : Ordered(d, i)' => Ordered(d, i)
                \/ \A d \in App, i \in Nat : Ordered(d, i)' => Ordered(d, i + 1)
FewerTold    == \/ \A d \in App, i \in Nat : Told(d, i)' => Told(d, i)
                \/ \A d \in App, i \in Nat : Told(d, i)' => Told(d, i + 1)

\* A step that orders nothing, and leaves no order for a version it settles.
LEMMA FewerOrders ==
  ASSUME OrderedOnce, FewerOrdered, FewerTold,
         building' \subseteq building,
         \A d \in App : sender'[d].pc = "build" => sender[d].pc = "build",
         \A d \in App : status[d] = "building" => status'[d] = "building" \/ ~ Pending(d)'
  PROVE  OrderedOnce'
<1> SUFFICES ASSUME NEW d \in App
    PROVE (/\ sender[d].pc = "build" =>
                /\ status[d] = "building" /\ d \notin building
                /\ \A i \in Nat : ~ Ordered(d, i) /\ ~ Told(d, i)
           /\ d \in building =>
                status[d] = "building" /\ \A i \in Nat : ~ Ordered(d, i) /\ ~ Told(d, i)
           /\ \A i \in Nat : Ordered(d, i) =>
                /\ status[d] = "building"
                /\ \A j \in Nat : ~ Told(d, j) /\ (Ordered(d, j) => i = j)
           /\ \A i \in Nat : Told(d, i) =>
                status[d] = "building" /\ \A j \in Nat : Told(d, j) => i = j)'
  BY DEF OrderedOnce
<1>1. \A i \in Nat : Ordered(d, i)' => \E k \in Nat : Ordered(d, k)
  BY DEF FewerOrdered
<1>2. \A i \in Nat : Told(d, i)' => \E k \in Nat : Told(d, k)
  BY DEF FewerTold
<1>3. \A i, j \in Nat : Ordered(d, i)' /\ Ordered(d, j)' => i = j
  <2>1. \A i, j \in Nat : Ordered(d, i) /\ Ordered(d, j) => i = j
    BY DEF OrderedOnce
  <2>2. CASE \A i \in Nat : Ordered(d, i)' => Ordered(d, i)
    BY <2>1, <2>2
  <2>3. CASE \A i \in Nat : Ordered(d, i)' => Ordered(d, i + 1)
    BY <2>1, <2>3
  <2> QED BY <2>2, <2>3 DEF FewerOrdered
<1>4. \A i, j \in Nat : Told(d, i)' /\ Told(d, j)' => i = j
  <2>1. \A i, j \in Nat : Told(d, i) /\ Told(d, j) => i = j
    BY DEF OrderedOnce
  <2>2. CASE \A i \in Nat : Told(d, i)' => Told(d, i)
    BY <2>1, <2>2
  <2>3. CASE \A i \in Nat : Told(d, i)' => Told(d, i + 1)
    BY <2>1, <2>3
  <2> QED BY <2>2, <2>3 DEF FewerTold
<1>5. Pending(d)' => Pending(d)
  BY <1>1, <1>2 DEF Pending
<1>6. Pending(d)' => status'[d] = "building"
  BY <1>5 DEF Pending, OrderedOnce
<1> QED BY <1>1, <1>2, <1>3, <1>4, <1>6 DEF OrderedOnce, Pending

\* No transaction but those that settle a version keeps it from building.
LEMMA StaysBuilding ==
  ASSUME RecordGrounded, DeployTypeOK, NEW d \in App,
         \/ UNCHANGED status
         \/ \E h \in BOOLEAN : d \in Built /\ RecordRollout(d, h)
         \/ RecordDeploy(d)
         \/ \E previous \in App : RecordRollback(previous, d)
  PROVE  \A e \in App : status[e] = "building" => status'[e] = "building"
<1>1. CASE UNCHANGED status
  BY <1>1
<1>2. CASE d \in Built /\ RecordRollout(d, TRUE)
  <2>1. /\ status' = [e \in App |->
                       IF e = d THEN "live"
                       ELSE IF e \in Siblings(d) /\ status[e] = "live" THEN "superseded"
                       ELSE status[e]]
        /\ status[d] # "building"
    BY <1>2 DEF RecordRollout, RecordGrounded
  <2> QED BY <2>1
<1>3. CASE d \in Built /\ RecordRollout(d, FALSE)
  BY <1>3 DEF RecordRollout, RecordGrounded, DeployTypeOK
<1>4. CASE RecordDeploy(d)
  BY <1>4 DEF RecordDeploy, DeployTypeOK
<1>5. ASSUME NEW previous, RecordRollback(previous, d)
      PROVE  \A e \in App : status[e] = "building" => status'[e] = "building"
  BY <1>5 DEF RecordRollback, DeployTypeOK
<1> QED BY <1>1, <1>2, <1>3, <1>4, <1>5

\* A step of the connection that no order is part of.
LEMMA DownFewer ==
  ASSUME DownTyped,
         \/ UNCHANGED down \/ down' = <<>>
         \/ down # <<>> /\ down' = Tail(down)
         \/ \E s : down' = Append(down, ApplySpec(s))
  PROVE  FewerOrdered
<1>1. CASE UNCHANGED down \/ down' = <<>>
  BY <1>1 DEF FewerOrdered, Ordered
<1>2. CASE down # <<>> /\ down' = Tail(down)
  BY <1>2, DownTail DEF FewerOrdered
<1>3. ASSUME NEW s, down' = Append(down, ApplySpec(s)) PROVE FewerOrdered
  BY <1>3, DownAppend DEF FewerOrdered, ApplySpec
<1> QED BY <1>1, <1>2, <1>3

LEMMA UpFewer ==
  ASSUME UpTyped,
         \/ UNCHANGED up \/ up' = <<>>
         \/ up # <<>> /\ up' = Tail(up)
         \/ \E H, U : up' = Append(up, Applied(H, U))
  PROVE  FewerTold
<1>1. CASE UNCHANGED up \/ up' = <<>>
  BY <1>1 DEF FewerTold, Told
<1>2. CASE up # <<>> /\ up' = Tail(up)
  BY <1>2, UpTail DEF FewerTold
<1>3. ASSUME NEW H, NEW U, up' = Append(up, Applied(H, U)) PROVE FewerTold
  BY <1>3, UpAppend DEF FewerTold, Applied
<1> QED BY <1>1, <1>2, <1>3

\* A version that has just been recorded has nothing about it anywhere yet.
LEMMA DeployOrders ==
  ASSUME YolInv, NEW d \in App, Deploy(d) PROVE OrderedOnce'
<1>1. OrderedOnce /\ ~ Pending(d)
  BY DEF YolInv, Deploy, RecordDeploy, Pending, OrderedOnce
<1>2. /\ status'[d] = "building" /\ UNCHANGED <<down, up, building>>
      /\ \A e \in App \ {d} : status'[e] = status[e] /\ sender'[e] = sender[e]
  BY DEF Deploy, RecordDeploy, wire, YolInv, DeployInv, DeployTypeOK, WireGrounded, Goroutine
<1> QED BY <1>1, <1>2 DEF OrderedOnce, Pending, Ordered, Told

\* The order goes from the request that made it to the connection, or nowhere.
LEMMA AskOrders ==
  ASSUME YolInv, NEW d \in App, AskBuild(d) PROVE OrderedOnce'
<1>1. /\ OrderedOnce /\ DownTyped /\ UNCHANGED <<up, building>>
      /\ sender'[d].pc = "idle" /\ \A e \in App \ {d} : sender'[e] = sender[e]
  BY DEF YolInv, WireGrounded, DownTyped, AskBuild, Goroutine, Idle
<1>2. /\ sender[d].pc = "build" /\ status[d] = "building" /\ d \notin building
      /\ \A i \in Nat : ~ Ordered(d, i) /\ ~ Told(d, i)
  BY DEF YolInv, OrderedOnce, AskBuild
<1>3. CASE down' = Append(down, Build(d)) /\ UNCHANGED status
  <2>1. \A e \in App, i \in Nat :
           Ordered(e, i)' => Ordered(e, i) \/ (i = Len(down) + 1 /\ e = d)
    BY <1>1, <1>3, DownAppend DEF Build
  <2>2. \A e \in App, i \in Nat : Told(e, i)' <=> Told(e, i)
    BY <1>1 DEF Told
  <2> QED BY <1>1, <1>2, <1>3, <2>1, <2>2 DEF OrderedOnce
<1>4. CASE UNCHANGED down
  <2>1. \A e \in App \ {d} : status'[e] = status[e]
    BY <1>4 DEF AskBuild, RecordNotAsked, deployVars, YolInv, DeployInv, DeployTypeOK
  <2> QED BY <1>1, <1>2, <1>4, <2>1 DEF OrderedOnce, Ordered, Told
<1> QED BY <1>3, <1>4 DEF AskBuild, deployVars

\* It goes from the connection to a build.
LEMMA BuildOrders ==
  ASSUME YolInv, NEW r \in Reader, StartBuild(r) PROVE OrderedOnce'
<1>0. PICK d \in App : d = Head(down).deployment
  BY HeadDown DEF StartBuild, YolInv
<1>1. /\ OrderedOnce /\ DownTyped /\ WireGrounded
      /\ UNCHANGED <<status, up, sender>> /\ down # <<>>
      /\ down' = Tail(down) /\ building' = building \cup {d}
  BY <1>0 DEF YolInv, WireGrounded, DownTyped, StartBuild, deployVars
<1>2. Ordered(d, 1)
  BY <1>0, <1>1, HeadDown DEF StartBuild, Ordered, DownTyped
<1>3. /\ status[d] = "building" /\ d \notin building /\ sender[d].pc # "build"
      /\ \A j \in Nat : ~ Told(d, j) /\ (Ordered(d, j) => j = 1)
  BY <1>1, <1>2 DEF OrderedOnce
<1>4. \A e \in App, i \in Nat : Ordered(e, i)' => Ordered(e, i + 1) /\ i \in Nat \ {0}
  BY <1>1, DownTail DEF Ordered
<1>5. \A i \in Nat : ~ Ordered(d, i)'
  BY <1>3, <1>4
<1>6. \A e \in App, i \in Nat : Told(e, i)' <=> Told(e, i)
  BY <1>1 DEF Told
<1> QED BY <1>1, <1>2, <1>3, <1>4, <1>5, <1>6 DEF OrderedOnce

\* It goes from the build to a result, or is lost with the connection.
LEMMA ResultOrders ==
  ASSUME YolInv, NEW d \in App, NEW ok \in BOOLEAN, FinishBuilding(d, ok) PROVE OrderedOnce'
<1>1. /\ OrderedOnce /\ UpTyped /\ UNCHANGED <<status, down, sender>>
      /\ d \in building /\ building' = building \ {d}
  BY DEF YolInv, WireGrounded, UpTyped, FinishBuilding, deployVars
<1>2. /\ status[d] = "building" /\ sender[d].pc # "build"
      /\ \A i \in Nat : ~ Ordered(d, i) /\ ~ Told(d, i)
  BY <1>1 DEF OrderedOnce
<1>3. \A e \in App, i \in Nat : Ordered(e, i)' <=> Ordered(e, i)
  BY <1>1 DEF Ordered
<1>4. CASE up' = Append(up, BuildResult(d, ok))
  <2>1. \A e \in App, i \in Nat : Told(e, i)' => Told(e, i) \/ (i = Len(up) + 1 /\ e = d)
    BY <1>1, <1>4, UpAppend DEF BuildResult
  <2> QED BY <1>1, <1>2, <1>3, <2>1 DEF OrderedOnce
<1>5. CASE UNCHANGED up
  BY <1>1, <1>2, <1>3, <1>5 DEF OrderedOnce, Told
<1> QED BY <1>4, <1>5 DEF FinishBuilding, Say

\* The result settles the version it was about.
LEMMA RecordedOrders ==
  ASSUME YolInv, NEW r \in Reader, TakeBuildResult(r) PROVE OrderedOnce'
<1>0. PICK d \in App : d = Head(up).deployment
  BY HeadUp DEF TakeBuildResult, YolInv
<1>1. /\ OrderedOnce /\ UpTyped /\ WireGrounded /\ UNCHANGED <<down, building>>
      /\ up # <<>> /\ up' = Tail(up)
  BY DEF YolInv, WireGrounded, UpTyped, TakeBuildResult
<1>2. Told(d, 1)
  BY <1>0, <1>1, HeadUp DEF TakeBuildResult, Told, UpTyped
<1>3. /\ d \notin building /\ sender[d].pc # "build"
      /\ \A j \in Nat : ~ Ordered(d, j) /\ (Told(d, j) => j = 1)
  BY <1>1, <1>2 DEF OrderedOnce
<1>4. \A e \in App, i \in Nat : Told(e, i)' => Told(e, i + 1) /\ i \in Nat \ {0}
  BY <1>1, UpTail DEF Told
<1>5. \A e \in App : sender'[e] = sender[e]
  BY DEF TakeBuildResult, YolInv, WireGrounded, Goroutine
<1>6. ~ Pending(d)'
  BY <1>1, <1>2, <1>3, <1>4, <1>5 DEF Pending, Ordered
<1>7. \A e \in App \ {d} : status'[e] = status[e]
  BY <1>0 DEF TakeBuildResult, RecordBuild, NotRecorded, deployVars, YolInv, DeployInv,
             DeployTypeOK
<1>8. FewerOrdered /\ FewerTold
  BY <1>1, <1>4 DEF FewerOrdered, FewerTold, Ordered
<1> QED BY <1>1, <1>5, <1>6, <1>7, <1>8, FewerOrders

\* Every other step leaves orders as they were, or loses them with what carried them.
LEMMA OrdersStay ==
  ASSUME YolInv, [YolNext]_yolVars PROVE OrderedOnce'
<1>0. OrderedOnce /\ DownTyped /\ UpTyped /\ WireGrounded /\ RecordGrounded /\ DeployTypeOK
  BY DEF YolInv, WireGrounded, DownTyped, UpTyped, DeployInv
<1>1. ASSUME NEW g \in Goroutine, ReadSpec(g) \/ SendSpec(g) PROVE OrderedOnce'
  <2>0. /\ sender'[g].pc # "build"
        /\ \A e \in Goroutine \ {g} : sender'[e] = sender[e]
    <3>1. /\ sender[g] \in SenderGrounded(Built, answered, silent)
          /\ sender \in [Goroutine -> SenderGrounded(Built, answered, silent)]
      BY <1>0 DEF WireGrounded
    <3>2. CASE ReadSpec(g)
      <4> DEFINE st(c) == [sender[g] EXCEPT !.pc = "send", !.conn = c, !.spec = SpecFor]
      <4>1. \A c : st(c).pc = "send"
        BY <3>1 DEF SenderGrounded
      <4>2. CASE sender' = [sender EXCEPT ![g].pc = "idle"]
        BY <3>1, <4>2 DEF SenderGrounded
      <4>3. \/ \E c \in Reader : sender' = [sender EXCEPT ![g] = st(c)]
            \/ sender' = [sender EXCEPT ![g].pc = "idle"]
        BY <1>0, <3>2, ReadOrDone DEF SpecRead
      <4> HIDE DEF st
      <4> QED BY <3>1, <4>1, <4>2, <4>3
    <3>3. CASE SendSpec(g)
      BY <3>1, <3>3 DEF SendSpec, SenderGrounded
    <3> QED BY <1>1, <3>2, <3>3
  <2>1. \A e \in App : sender'[e].pc = "build" => sender[e].pc = "build"
    BY <2>0 DEF Goroutine
  <2>2. FewerOrdered /\ FewerTold /\ UNCHANGED <<building, status>>
    BY <1>0, <1>1, DownFewer, UpFewer DEF ReadSpec, SendSpec, wire, deployVars
  <2> QED BY <1>0, <2>1, <2>2, FewerOrders
<1>2. ASSUME NEW r \in Reader, TakeSpec(r) \/ Refuse(r) \/ Forget(r) PROVE OrderedOnce'
  BY <1>0, <1>2, DownFewer, UpFewer, FewerOrders DEF TakeSpec, Refuse, Forget, deployVars
<1>3. ASSUME NEW r \in Reader, TakeApplied(r) \/ Attach(r) PROVE OrderedOnce'
  <2>1. \A e \in App : sender'[e] = sender[e]
    BY <1>0, <1>3 DEF TakeApplied, Attach, WireGrounded, Goroutine
  <2> QED BY <1>0, <1>3, <2>1, DownFewer, UpFewer, FewerOrders DEF TakeApplied, Attach, deployVars
<1>4. ASSUME NEW r \in Reader, NEW d \in App, FinishRollout(r, d) PROVE OrderedOnce'
  <2>1. \A e \in App : sender'[e] = sender[e]
    BY <1>0, <1>4 DEF FinishRollout, WireGrounded, Goroutine
  <2>2. sender[r].healthy \cup sender[r].unproven \subseteq Built
    BY <1>0 DEF WireGrounded, SenderGrounded, Goroutine
  <2>3. \A e \in App : status[e] = "building" => status'[e] = "building"
    BY <1>0, <1>4, <2>2, StaysBuilding DEF FinishRollout, NotRecorded, deployVars
  <2> QED BY <1>0, <1>4, <2>1, <2>3, DownFewer, UpFewer, FewerOrders DEF FinishRollout, wire
<1>5. ASSUME NEW previous \in App, NEW d \in App, Rollback(previous, d) PROVE OrderedOnce'
  <2>1. \A e \in App : sender'[e].pc = "build" => sender[e].pc = "build"
    BY <1>0, <1>5 DEF Rollback, WireGrounded, Goroutine, SenderGrounded
  <2>2. \A e \in App : status[e] = "building" => status'[e] = "building"
    BY <1>0, <1>5, StaysBuilding DEF Rollback
  <2> QED BY <1>0, <1>5, <2>1, <2>2, DownFewer, UpFewer, FewerOrders DEF Rollback, wire
<1>10. ASSUME NEW h \in Named, ChangeHostname(h) PROVE OrderedOnce'
  <2>1. \A e \in App : sender'[e] = sender[e]
    BY <1>0, <1>10 DEF ChangeHostname, WireGrounded, Goroutine
  <2>2. UNCHANGED status
    BY <1>10 DEF ChangeHostname, RecordVerified, RecordRemoved
  <2> QED BY <1>0, <1>10, <2>1, <2>2, DownFewer, UpFewer, FewerOrders DEF ChangeHostname, wire
<1>6. ASSUME NEW p \in Pass, ReportPass(p) PROVE OrderedOnce'
  BY <1>0, <1>6, DownFewer, UpFewer, FewerOrders DEF ReportPass, Say, deployVars
<1>7. ASSUME Detach \/ AgentRestart \/ AgentProceeds PROVE OrderedOnce'
  BY <1>0, <1>7, DownFewer, UpFewer, FewerOrders
  DEF Detach, AgentRestart, AgentProceeds, wire, deployVars
<1>8. ASSUME ServerRestart PROVE OrderedOnce'
  BY <1>0, <1>8, DownFewer, UpFewer, FewerOrders
  DEF ServerRestart, deployVars, Idle, Goroutine
<1>9. CASE UNCHANGED yolVars
  BY <1>0, <1>9, DownFewer, UpFewer, FewerOrders DEF yolVars, wire, deployVars
<1> QED
  BY <1>1, <1>2, <1>3, <1>4, <1>5, <1>6, <1>7, <1>8, <1>9, <1>10, DeployOrders,
     AskOrders, BuildOrders, ResultOrders, RecordedOrders
  DEF YolNext

\* Whoever reads while another has one to write is seen to cross it.
LEMMA InOrderStays ==
  ASSUME YolInv, [YolNext]_yolVars PROVE InOrder'
<1>0. /\ InOrder /\ WireGrounded
      /\ sender \in [Goroutine -> SenderGrounded(Built, answered, silent)]
      /\ App \subseteq Goroutine /\ Reader \subseteq Goroutine /\ Named \subseteq Goroutine
  BY DEF YolInv, WireGrounded, Goroutine
<1>1. ASSUME UNCHANGED order,
             \A g \in Goroutine : sender'[g].pc = "send" => sender[g].pc = "send"
      PROVE  InOrder'
  BY <1>0, <1>1 DEF InOrder
<1>2. ASSUME NEW g \in Goroutine, ReadSpec(g) PROVE InOrder'
  <2>1. ASSUME NEW c \in Reader, SpecRead(g, c), Reads(g, c) PROVE InOrder'
    <3>1. order' # "crossed" => \A h \in Goroutine : sender[h].pc # "send"
      BY <2>1 DEF Reads, Sending
    <3>2. \A h \in Goroutine : h # g => sender'[h] = sender[h]
      BY <1>0, <2>1 DEF SpecRead
    <3> QED BY <3>1, <3>2 DEF InOrder
  <2>2. CASE sender' = [sender EXCEPT ![g].pc = "idle"] /\ UNCHANGED order
    BY <1>0, <1>1, <2>2 DEF SenderGrounded
  <2> QED BY <1>0, <1>2, <2>1, <2>2, ReadOrDone
<1>3. ASSUME NEW g \in Goroutine, SendSpec(g) PROVE InOrder'
  <2>1. UNCHANGED order /\ \A h \in Goroutine \ {g} : sender'[h] = sender[h]
    BY <1>3 DEF SendSpec
  <2>2. sender'[g].pc # "send"
    BY <1>0, <1>3 DEF SendSpec, SenderGrounded
  <2> QED BY <1>1, <2>1, <2>2
<1>4. ASSUME NEW d \in App,
             Deploy(d) \/ AskBuild(d) \/ \E previous \in App : Rollback(previous, d)
      PROVE  InOrder'
  BY <1>0, <1>1, <1>4 DEF Deploy, AskBuild, Rollback, Idle, SenderGrounded
<1>5. ASSUME NEW h \in Named, ChangeHostname(h) PROVE InOrder'
  BY <1>0, <1>1, <1>5 DEF ChangeHostname, SenderGrounded
<1>6. ASSUME NEW r \in Reader,
             \/ TakeBuildResult(r) \/ TakeApplied(r) \/ Attach(r)
             \/ \E d \in App : FinishRollout(r, d)
      PROVE  InOrder'
  <2>1. CASE \E d \in App : FinishRollout(r, d)
    <3>1. UNCHANGED order /\ \A g \in Goroutine \ {r} : sender'[g] = sender[g]
      BY <1>0, <2>1 DEF FinishRollout, NotRecorded
    <3>2. sender'[r].pc # "send"
      <4>0. /\ sender[r] \in SenderGrounded(Built, answered, silent) /\ sender[r].pc = "idle"
            /\ r \in Goroutine
        BY <1>0, <2>1 DEF FinishRollout
      <4> DEFINE heard(d)    == [sender[r] EXCEPT !.healthy = @ \ {d}, !.pc = "reconcile"]
                 silenced(d) == [sender[r] EXCEPT !.unproven = @ \ {d}]
                 lost(d)     == [sender[r] EXCEPT !.healthy = @ \ {d}, !.unproven = @ \ {d}]
      <4>1. PICK d \in App : sender'[r] \in {heard(d), silenced(d), lost(d)}
        BY <1>0, <2>1 DEF FinishRollout
      <4>2. heard(d).pc = "reconcile" /\ silenced(d).pc = "idle" /\ lost(d).pc = "idle"
        BY <4>0 DEF SenderGrounded
      <4> HIDE DEF heard, silenced, lost
      <4> QED BY <4>1, <4>2
    <3> QED BY <1>1, <3>1, <3>2
  <2>2. CASE TakeBuildResult(r) \/ TakeApplied(r) \/ Attach(r)
    <3>1. UNCHANGED order /\ \A g \in Goroutine \ {r} : sender'[g] = sender[g]
      BY <1>0, <2>2 DEF TakeBuildResult, TakeApplied, Attach
    <3>2. sender'[r].pc = "send" => sender[r].pc = "send"
      BY <1>0, <2>2 DEF TakeBuildResult, TakeApplied, Listening, Attach, SenderGrounded
    <3> QED BY <1>1, <3>1, <3>2
  <2> QED BY <1>6, <2>1, <2>2
<1>7. CASE ServerRestart
  BY <1>1, <1>7 DEF ServerRestart, Idle
<1>8. CASE UNCHANGED <<sender, order>>
  BY <1>1, <1>8
<1> QED
  BY <1>2, <1>3, <1>4, <1>5, <1>6, <1>7, <1>8
  DEF YolNext, yolVars, TakeSpec, StartBuild, Refuse, Forget, FinishBuilding, ReportPass,
      Detach, AgentRestart, AgentProceeds

LEMMA YolNextKeeps ==
  ASSUME YolInv, [YolNext]_yolVars PROVE YolInv'
<1>1. AgentInv' /\ DeployInv'
  BY PartsKeepTheirs
<1> QED
  BY <1>1, AgentStaysGrounded, WireStaysGrounded, OrdersStay, RecordStaysGrounded,
     WatchStaysIdle, InOrderStays
  DEF YolInv

\* YolInv holds throughout, whatever is lost, late or overlaps.
THEOREM YolInvariant == YolSpec => []YolInv
  BY InitYolInv, YolNextKeeps, PTL DEF YolSpec

(****************************************************************************)
(* What the invariant says of the system.                                   *)
(****************************************************************************)

\* Both sides and what is between them keep their types.
THEOREM YolTypeCorrect == YolSpec => []YolTypeOK
<1>1. ASSUME YolInv PROVE YolTypeOK
  <2>1. AgentTypeOK /\ DeployTypeOK /\ WireGrounded
    BY <1>1 DEF YolInv, AgentInv, DeployInv
  <2>2. DownGrounded(Built) \subseteq DownMessage
    BY DEF DownGrounded, DownMessage, BuiltSpecs
  <2>3. UpGrounded(Built, answered, silent) \subseteq UpMessage
    BY DEF UpGrounded, UpMessage, Built
  <2>4. SenderGrounded(Built, answered, silent) \subseteq SenderState
    BY DEF SenderGrounded, SenderState, BuiltSpecs, Built
  <2>5. down \in Seq(DownMessage) /\ up \in Seq(UpMessage)
    BY <2>1, <2>2, <2>3, SeqGrows DEF WireGrounded
  <2>6. sender \in [Goroutine -> SenderState]
    BY <2>1, <2>4 DEF WireGrounded
  <2> QED BY <2>1, <2>5, <2>6 DEF WireGrounded, YolTypeOK
<1> QED BY <1>1, YolInvariant, PTL

\* A version the record calls live, or says another superseded, answered a health
\* check on the server, however its report got there.
THEOREM LiveIsProven == YolSpec => []LiveHasAnswered
<1>1. YolInv => LiveHasAnswered
  BY DEF YolInv, RecordGrounded, LiveHasAnswered
<1> QED BY <1>1, YolInvariant, PTL

\* The agent is never made to run a version that has no image.
THEOREM OnlyTheBuiltRuns == YolSpec => []NothingUnbuiltRuns
<1>1. YolInv => NothingUnbuiltRuns
  BY DEF YolInv, AgentGrounded, NothingUnbuiltRuns, Built
<1> QED BY <1>1, YolInvariant, PTL

\* A server that is watched stays as it was, whatever is deployed to it and
\* whichever instructions reach it.
THEOREM WatchedIsLeft == YolSpec => []WatchedIsUntouched
<1>1. YolInv => WatchedIsUntouched
  BY DEF YolInv, WatchIdle, WatchedIsUntouched
<1> QED BY <1>1, YolInvariant, PTL

\* The real agent and connections bring the record nothing that DeploySpec does not
\* allow for, so whatever is proved of the record alone holds of the whole.
THEOREM RecordIsDeploySpec == YolSpec => DeploySpec
<1>1. YolInit => DeployInit
  BY DEF YolInit
<1>2. YolInv /\ [YolNext]_yolVars => [DeployNext]_deployVars
  BY RecordPartOf, RecordTakesItsSteps
<1> QED BY <1>1, <1>2, YolInvariant, PTL DEF YolSpec, DeploySpec

(****************************************************************************)
(* The whole does what Serving says.                                        *)
(****************************************************************************)
\* One version at most can be the live one of its service.
LEMMA LiveOfOne ==
  ASSUME DeployInv, NEW d \in App, status[d] = "live"
  PROVE  LiveOf(ServiceOf[d]) = d
<1>1. \A e \in App : status[e] = "live" /\ ServiceOf[e] = ServiceOf[d] => e = d
  BY DEF DeployInv, OneLive
<1> QED BY <1>1 DEF LiveOf

\* Where the same version of a service is live, or none is, nothing has changed.
LEMMA LiveOfStays ==
  ASSUME DeployInv, DeployInv', NEW s,
         \A d \in App : ServiceOf[d] = s => (status'[d] = "live" <=> status[d] = "live")
  PROVE  LiveOf(s)' = LiveOf(s)
<1>1. ASSUME NEW d \in App, ServiceOf[d] = s, status[d] = "live" PROVE LiveOf(s)' = LiveOf(s)
  <2>1. LiveOf(s) = d
    BY <1>1, LiveOfOne
  <2>2. \A e \in App : status'[e] = "live" /\ ServiceOf[e] = s => e = d
    BY <1>1 DEF DeployInv, OneLive
  <2> QED BY <1>1, <2>1, <2>2 DEF LiveOf
<1>2. CASE \A d \in App : ~ (ServiceOf[d] = s /\ status[d] = "live")
  BY <1>2 DEF LiveOf
<1> QED BY <1>1, <1>2

\* Of what health checks say, a step adds one thing or nothing.
LEMMA HistoryPart ==
  ASSUME YolInv, [YolNext]_yolVars
  PROVE  \/ UNCHANGED <<answered, silent>>
         \/ \E c \in App : answered' = answered \cup {c} /\ UNCHANGED silent
         \/ \E c \in App : silent' = silent \cup {c} /\ UNCHANGED answered
<1>1. ASSUME NEW p \in Pass, NEW c \in Name, GateAnswers(p, c) \/ GateGivesUp(p, c)
      PROVE  \/ c \in App /\ answered' = answered \cup {c} /\ UNCHANGED silent
             \/ c \in App /\ silent' = silent \cup {c} /\ UNCHANGED answered
  BY <1>1 DEF GateAnswers, GateGivesUp, Gating
<1>2. ASSUME NEW p \in Pass,
             \/ Begin(p) \/ Plan(p) \/ Sync(p) \/ Drain(p)
             \/ \E c \in Name : TakeAway(p, c) \/ Create(p, c) \/ Retire(p, c)
      PROVE  UNCHANGED <<answered, silent>>
  BY <1>2 DEF Begin, Plan, Sync, Drain, TakeAway, Create, Retire, history
<1>3. ASSUME MachineStep PROVE UNCHANGED <<answered, silent>>
  BY <1>3 DEF MachineStep, Stops, ComesBack, Arrives, Finishes, history
<1> QED
  BY <1>1, <1>2, <1>3, AgentPartOf
  DEF AgentPart, PassStep, Elsewhere, Receive, Report, Connect, Disconnect, Restart, history

Abstract == [s \in Service |-> LiveOf(s)]

LEMMA PromiseStep ==
  ASSUME YolInv, YolInv', [YolNext]_yolVars
  PROVE  [Promise!Next]_(Promise!vars)
<1> USE DEF Promise!Next, Promise!vars
<1>0. DeployInv /\ DeployInv' /\ ServiceOf \in [App -> Service] /\ DeployTypeOK
  BY ServicesKnown DEF YolInv, DeployInv
<1>1. ASSUME \A d \in App : status'[d] = "live" <=> status[d] = "live"
      PROVE  Abstract' = Abstract
  BY <1>0, <1>1, LiveOfStays DEF Abstract
<1>2. CASE UNCHANGED deployVars
  <2>1. Abstract' = Abstract
    BY <1>1, <1>2 DEF deployVars
  <2> QED BY <2>1, HistoryPart DEF Promise!Prove, Promise!Fail, Abstract
<1>6. ASSUME UNCHANGED history, NEW h \in Named, RecordVerified(h) \/ RecordRemoved(h)
      PROVE  [Promise!Next]_(Promise!vars)
  <2>1. Abstract' = Abstract
    BY <1>1, <1>6 DEF RecordVerified, RecordRemoved
  <2> QED BY <1>6, <2>1 DEF Abstract, history
<1>3. ASSUME UNCHANGED history, NEW d \in App,
             \/ RecordDeploy(d)
             \/ status[d] = "building" /\ RecordNotAsked(d)
             \/ \E ok \in BOOLEAN : status[d] = "building" /\ RecordBuild(d, ok)
             \/ \E previous \in App : RecordRollback(previous, d)
      PROVE  [Promise!Next]_(Promise!vars)
  <2>1. \A e \in App : status'[e] = "live" <=> status[e] = "live"
    BY <1>0, <1>3
    DEF RecordDeploy, RecordNotAsked, RecordBuild, RecordRollback, DeployTypeOK
  <2> QED BY <1>1, <1>3, <2>1 DEF Abstract, history
<1>4. ASSUME UNCHANGED history, NEW d \in answered, d \in App, RecordRollout(d, TRUE)
      PROVE  [Promise!Next]_(Promise!vars)
  <2>1. status' = [e \in App |->
                     IF e = d THEN "live"
                     ELSE IF e \in Siblings(d) /\ status[e] = "live" THEN "superseded"
                     ELSE status[e]]
    BY <1>4 DEF RecordRollout
  <2>2. LiveOf(ServiceOf[d])' = d
    <3>1. status'[d] = "live"
      BY <1>4, <2>1
    <3>2. \A e \in App : status'[e] = "live" /\ ServiceOf[e] = ServiceOf[d] => e = d
      BY <1>0, <1>4, <3>1 DEF DeployInv, OneLive
    <3> QED BY <1>4, <3>1, <3>2 DEF LiveOf
  <2>3. ASSUME NEW s \in Service \ {ServiceOf[d]} PROVE LiveOf(s)' = LiveOf(s)
    BY <1>0, <1>4, <2>1, LiveOfStays DEF Siblings
  <2>4. Abstract' = [Abstract EXCEPT ![ServiceOf[d]] = d]
    BY <1>0, <1>4, <2>2, <2>3 DEF Abstract
  <2> QED BY <1>4, <2>4 DEF Promise!Promote, Abstract, history
<1>5. ASSUME UNCHANGED history, NEW d \in silent, d \in App, RecordRollout(d, FALSE)
      PROVE  [Promise!Next]_(Promise!vars)
  <2>1. status' = [status EXCEPT ![d] = "failed"]
    BY <1>5 DEF RecordRollout
  <2>2. CASE status[d] # "live"
    <3>1. Abstract' = Abstract
      BY <1>0, <1>1, <1>5, <2>1, <2>2 DEF DeployTypeOK
    <3> QED BY <1>5, <3>1 DEF Abstract, history
  <2>3. CASE status[d] = "live"
    <3>1. LiveOf(ServiceOf[d]) = d
      BY <1>0, <1>5, <2>3, LiveOfOne
    <3>2. LiveOf(ServiceOf[d])' = None
      BY <1>0, <1>5, <2>1, <2>3 DEF LiveOf, DeployTypeOK, DeployInv, OneLive
    <3>3. ASSUME NEW s \in Service \ {ServiceOf[d]} PROVE LiveOf(s)' = LiveOf(s)
      BY <1>0, <1>5, <2>1, LiveOfStays DEF DeployTypeOK
    <3>4. Abstract' = [Abstract EXCEPT ![ServiceOf[d]] = None]
      BY <1>0, <1>5, <3>2, <3>3 DEF Abstract
    <3>5. Abstract[ServiceOf[d]] = d
      BY <1>0, <1>5, <3>1 DEF Abstract
    <3> QED BY <1>5, <3>4, <3>5 DEF Promise!Drop, Abstract, history
  <2> QED BY <2>2, <2>3
<1> QED BY <1>2, <1>3, <1>4, <1>5, <1>6, RecordPartOf DEF RecordPart, Built

\* A deploy is what Serving says it is: a version comes in front of people only after
\* it answered, and goes only for another or when it has failed to answer.
THEOREM PromiseIsKept == YolSpec => KeepsPromise
<1>1. YolInit => Promise!Init
  BY DEF YolInit, AgentInit, DeployInit, Promise!Init, LiveOf
<1>2. YolInv /\ YolInv' /\ [YolNext]_yolVars => [Promise!Next]_(Promise!vars)
  BY PromiseStep
<1> QED BY <1>1, <1>2, YolInvariant, PTL DEF YolSpec, KeepsPromise, Promise!Spec

(****************************************************************************)
(* Deploys keep the service up.  What follows holds until something goes    *)
(* wrong, passes overlap or specifications cross.                           *)
(****************************************************************************)
Calm == faults = 0 /\ overlaps = 0 /\ order = "kept" /\ ServerMode = "managed"

\* What is counted only grows, and an order that was lost is not kept again.
LEMMA TalliesGrow ==
  ASSUME [YolNext]_yolVars
  PROVE  /\ UNCHANGED faults \/ Fault
         /\ UNCHANGED overlaps \/ overlaps' = overlaps + 1
         /\ order' = "kept" => order = "kept"
<1>1. ASSUME NEW c \in Name, RmSucceeds(c) \/ RmFails(c) \/ RunSucceeds(c) \/ RunFails(c)
      PROVE  UNCHANGED faults \/ Fault
  BY <1>1 DEF RmSucceeds, RmFails, RunSucceeds, RunFails
<1>2. ASSUME NEW p \in Pass, PassStep(p)
      PROVE  /\ UNCHANGED faults \/ Fault
             /\ UNCHANGED overlaps \/ overlaps' = overlaps + 1
  <2>1. CASE Begin(p) \/ Plan(p) \/ Sync(p) \/ Drain(p)
    BY <2>1 DEF Begin, Plan, Sync, Drain, history
  <2>2. ASSUME NEW c \in Name, TakeAway(p, c) \/ Create(p, c) \/ GateAnswers(p, c)
                                 \/ GateGivesUp(p, c) \/ Retire(p, c)
        PROVE  (UNCHANGED faults \/ Fault) /\ UNCHANGED overlaps
    BY <1>1, <2>2 DEF TakeAway, Create, GateAnswers, GateGivesUp, Retire, history
  <2> QED BY <1>2, <2>1, <2>2 DEF PassStep
<1>3. ASSUME MachineStep PROVE (UNCHANGED faults \/ Fault) /\ UNCHANGED overlaps
  BY <1>3 DEF MachineStep, Stops, ComesBack, Arrives, Finishes, history
<1>4. CASE AgentProceeds
  BY <1>2, <1>3, <1>4 DEF AgentProceeds
<1>5. ASSUME NEW r \in Reader, TakeSpec(r)
      PROVE  (UNCHANGED faults \/ Fault) /\ UNCHANGED <<overlaps, order>>
  BY <1>5 DEF TakeSpec, Receive, Save, history
<1>6. ASSUME NEW r \in Reader, \/ TakeBuildResult(r) \/ Attach(r)
                               \/ \E d \in App : FinishRollout(r, d)
      PROVE  (UNCHANGED faults \/ Fault) /\ UNCHANGED <<overlaps, order>>
  BY <1>6 DEF TakeBuildResult, Attach, Connect, FinishRollout, NotRecorded, agentButFaults,
              history, agentVars
<1>7. ASSUME NEW p \in Pass, ReportPass(p)
      PROVE  UNCHANGED <<faults, overlaps, order>>
  BY <1>7 DEF ReportPass, Report, history
<1>8. CASE Detach \/ AgentRestart \/ ServerRestart
  BY <1>8 DEF Detach, Disconnect, AgentRestart, Restart, ServerRestart, history
<1>9. ASSUME NEW g \in Goroutine, ReadSpec(g)
      PROVE  /\ UNCHANGED faults \/ Fault
             /\ UNCHANGED overlaps
             /\ order' = "kept" => order = "kept"
  BY <1>9 DEF ReadSpec, Reads, agentButFaults, history
<1> QED
  BY <1>4, <1>5, <1>6, <1>7, <1>8, <1>9
  DEF YolNext, yolVars, agentVars, Deploy, AskBuild, Rollback, ChangeHostname, SendSpec,
      StartBuild, Refuse, TakeApplied, Forget, FinishBuilding

\* So a behaviour in which nothing has gone wrong has been so from the start, and nothing
\* goes wrong in a step that leaves it so.
LEMMA FaultlessLasts ==
  ASSUME YolInv, [YolNext]_yolVars, faults' = 0
  PROVE  faults = 0 /\ UNCHANGED faults /\ ~ Fault
<1>1. faults \in Nat
  BY BoundsCounted DEF YolInv, AgentInv, AgentTypeOK
<1> QED BY <1>1, TalliesGrow DEF Fault

\* So it is with a calm one.
LEMMA CalmLasts ==
  ASSUME YolInv, [YolNext]_yolVars, Calm'
  PROVE  Calm /\ UNCHANGED <<faults, overlaps, order>> /\ ~ Fault
<1>1. overlaps \in Nat
  BY BoundsCounted DEF YolInv, AgentInv, AgentTypeOK
<1> QED BY <1>1, TalliesGrow, FaultlessLasts DEF Calm

\* What of the agent's a step may be that goes as it should.
LEMMA FaultlessPart ==
  ASSUME YolInv, [YolNext]_yolVars, faults' = 0
  PROVE  \/ UNCHANGED <<memory, pass, machine, history>>
         \/ \E r \in Reader, s \in BuiltSpecs(Built) : Receive(r, s)
         \/ \E p \in Pass : PassStep(p) \/ Report(p)
         \/ \E r \in Reader : Connect(r)
         \/ MachineStep /\ \A c \in Owned : ~ Stops(c)
<1>1. ~ Fault
  BY FaultlessLasts
<1> QED
  BY <1>1, AgentPartOf DEF AgentPart, Elsewhere, Disconnect, Restart, Stops

LEMMA CalmPart ==
  ASSUME YolInv, [YolNext]_yolVars, Calm'
  PROVE  \/ UNCHANGED <<memory, pass, machine, history>>
         \/ \E r \in Reader, s \in BuiltSpecs(Built) : Receive(r, s)
         \/ \E p \in Pass : PassStep(p) \/ Report(p)
         \/ \E r \in Reader : Connect(r)
         \/ MachineStep /\ \A c \in Owned : ~ Stops(c)
  BY FaultlessPart DEF Calm

\* A step of the whole is one the agent may take under any control plane, or not its own.
LEMMA AgentStep ==
  ASSUME YolInv, [YolNext]_yolVars PROVE Elsewhere \/ Next
  BY AgentPartOf DEF AgentPart, Next, BuiltSpecs

\* Nothing overlaps in the whole but where it does in the agent.
LEMMA TurnLasts ==
  ASSUME YolInv, InTurn, [YolNext]_yolVars PROVE InTurn'
<1>1. CASE Elsewhere
  BY <1>1, TurnStays DEF Elsewhere, memory, history
<1>2. CASE Next
  BY <1>2, TurnKept DEF YolInv
<1> QED BY <1>1, <1>2, AgentStep

(****************************************************************************)
(* The agent starts a version once, and keeps what answered for as long as  *)
(* it is asked for.                                                         *)
(****************************************************************************)
Known == answered \cup silent

Untried(d) == d \notin Known

\* What a specification asks to run, if there is one.
Asked(s) == IF s = NoSpec THEN {} ELSE s.want \cap App

\* A pass starts what its specification asks for and takes away what it does not, has
\* nothing to replace, and waits for what never answered or was given up on before.
Careful(st, K) ==
    /\ st.replace = {} /\ st.making = None
    /\ st.pc \in {"idle", "read"} => st.healthy \cup st.unproven = {}
    /\ st.pc \notin {"idle", "read"} =>
         /\ st.started \cup st.create \subseteq st.spec.want
         /\ st.remove \cap st.spec.want = {}
    /\ st.pc = "plan" => st.started = {}
    /\ st.pc = "start" =>
         ((st.started \cap App) \ (st.healthy \cup st.unproven)) \cap K = {}

TriedOnce ==
    /\ answered \cap silent = {} /\ silent = abandoned
    /\ answered \cup silent \subseteq Built
    /\ \A c \in Owned : docker[c] # "exited"
    /\ \A p \in Pass : Careful(pass[p], Known)

\* What answered runs, or nobody asks for it any more.
AnsweredRun ==
    \A d \in answered : docker[d] # "running" =>
        /\ d \notin Asked(held)
        /\ \A p \in Pass : UnderWay(p) => d \notin Asked(pass[p].spec)

\* Another pass is not under way.
LEMMA Alone ==
  ASSUME InTurn, overlaps = 0, NEW p \in Pass, UnderWay(p), NEW q \in Pass, q # p
  PROVE  ~ UnderWay(q)
  BY DEF InTurn

\* A pass that goes on with care, on its own, having tried what it tried.
LEMMA CareKept ==
  ASSUME AgentInv, InTurn, overlaps = 0, TriedOnce, NEW p \in Pass, NEW st,
         UnderWay(p) \/ UNCHANGED Known,
         pass' = [pass EXCEPT ![p] = st], Careful(st, Known')
  PROVE  \A q \in Pass : Careful(pass'[q], Known')
<1>0. ASSUME NEW q \in Pass, q # p PROVE pass'[q] = pass[q]
  BY <1>0 DEF AgentInv, AgentTypeOK
<1>1. ASSUME NEW q \in Pass, q # p PROVE Careful(pass'[q], Known')
  <2>1. Careful(pass[q], Known)
    BY DEF TriedOnce
  <2>2. CASE UNCHANGED Known
    BY <1>0, <1>1, <2>1, <2>2 DEF Careful, Known
  <2>3. CASE UnderWay(p)
    BY <1>0, <1>1, <2>1, <2>3, Alone DEF Careful, UnderWay
  <2> QED BY <2>2, <2>3
<1>2. Careful(pass'[p], Known')
  <2>1. pass'[p] = st
    BY DEF AgentInv, AgentTypeOK
  <2> QED BY <2>1 DEF Careful, Known
<1> QED BY <1>1, <1>2

\* Whatever leaves passes, the machine's containers and what is known of versions alone.
LEMMA CareStays ==
  ASSUME TriedOnce, Grows, UNCHANGED <<pass, docker, answered, silent, abandoned>>
  PROVE  TriedOnce'
  BY DEF TriedOnce, Careful, Known, Grows

LEMMA CareBegins ==
  ASSUME YolInv, InTurn, overlaps = 0, overlaps' = 0, TriedOnce, Grows,
         NEW p \in Pass, Begin(p) \/ Plan(p), ~ Fault
  PROVE  TriedOnce'
<1>0. /\ AgentInv /\ pass[p] \in PassState /\ Careful(pass[p], Known)
      /\ UNCHANGED <<docker, answered, silent, abandoned, overlaps>> /\ UNCHANGED Known
  BY DEF Known, YolInv, AgentInv, AgentTypeOK, TriedOnce, Begin, Plan, memory, machine, history
<1>1. CASE Begin(p)
  <2> DEFINE st == [IdlePass EXCEPT !.pc = "plan", !.spec = held]
  <2>1. pass' = [pass EXCEPT ![p] = st] /\ Careful(st, Known')
    BY <1>1 DEF Begin, IdlePass, Careful
  <2> HIDE DEF st
  <2>2. \A q \in Pass : Careful(pass'[q], Known')
    BY <1>0, <2>1, CareKept
  <2> QED BY <1>0, <2>2 DEF TriedOnce, Grows
<1>2. CASE Plan(p) /\ ~ Fault
  <2> DEFINE st == Planned(p, Managed)
  <2>1. pass' = [pass EXCEPT ![p] = st] /\ pass[p].pc = "plan" /\ UnderWay(p)
    BY <1>2 DEF Plan, UnderWay
  <2>2. Careful(st, Known')
    <3>1. /\ st.pc = "start" /\ st.making = None /\ st.started = {}
          /\ st.spec = pass[p].spec
          /\ st.create \subseteq pass[p].spec.want
          /\ st.remove = Managed \ pass[p].spec.want
      BY <1>0, <2>1 DEF Planned, PassState, Careful
    <3>2. pass[p].spec.want \subseteq Owned
      BY <1>0, <2>1 DEF AgentInv, BegunHasSpec, UnderWay, SpecType
    <3>3. st.replace = {}
      <4>1. st.replace = {c \in (pass[p].spec.want \ abandoned) \cap Managed : ~AsWanted(c)}
        BY <1>0 DEF Planned, PassState
      <4>2. \A c \in Owned \cap Managed : AsWanted(c)
        BY <1>0 DEF TriedOnce, Managed, AsWanted, AgentInv, AgentTypeOK, ContainerState
      <4> QED BY <3>2, <4>1, <4>2
    <3> HIDE DEF st
    <3> QED BY <3>1, <3>3 DEF Careful
  <2> HIDE DEF st
  <2>3. \A q \in Pass : Careful(pass'[q], Known')
    BY <1>0, <2>1, <2>2, CareKept
  <2> QED BY <1>0, <2>3 DEF TriedOnce, Grows
<1> QED BY <1>1, <1>2

\* A version is started once: what it means to start was not given up on, and would be
\* running had it answered.
LEMMA CareStarts ==
  ASSUME YolInv, InTurn, overlaps = 0, TriedOnce, AnsweredRun, Grows,
         NEW p \in Pass, NEW c \in Owned, TakeAway(p, c) \/ Create(p, c), ~ Fault
  PROVE  TriedOnce'
<1>0. /\ AgentInv /\ pass[p] \in PassState /\ Careful(pass[p], Known)
      /\ UNCHANGED <<answered, silent, abandoned>> /\ UNCHANGED Known
      /\ pass[p].pc = "start" /\ UnderWay(p)
  BY DEF Known, YolInv, AgentInv, AgentTypeOK, TriedOnce, TakeAway, Create, UnderWay,
         memory, history
<1>1. c \in pass[p].create /\ Create(p, c)
  BY <1>0 DEF TakeAway, Create, Careful, Name
<1>2. \A b \in Owned : docker'[b] # "exited"
  BY <1>0, <1>1 DEF TriedOnce, Create, RunSucceeds, RunFails, AgentInv, AgentTypeOK, Name
<1>3. CASE RunSucceeds(c) /\ pass' = [pass EXCEPT ![p].making = None,
                                       ![p].create = @ \ {c}, ![p].started = @ \cup {c}]
  <2> DEFINE st == [pass[p] EXCEPT !.making = None, !.create = @ \ {c},
                                   !.started = @ \cup {c}]
  <2>1. pass' = [pass EXCEPT ![p] = st]
    BY <1>0, <1>3 DEF AgentInv, AgentTypeOK
  <2>2. c \in App => c \notin Known
    <3>1. c \notin abandoned
      BY <1>0, <1>1 DEF InTurn, ToStart
    <3>2. c \in App => c \in Asked(pass[p].spec)
      BY <1>0, <1>1 DEF Careful, Asked, AgentInv, BegunHasSpec
    <3>3. c \in App => c \notin answered
      BY <1>0, <1>3, <3>2 DEF AnsweredRun, RunSucceeds
    <3> QED BY <3>1, <3>3 DEF TriedOnce, Known
  <2>3. Careful(st, Known')
    BY <1>0, <1>1, <2>2 DEF Careful, PassState
  <2> HIDE DEF st
  <2>4. \A q \in Pass : Careful(pass'[q], Known')
    BY <1>0, <2>1, <2>3, CareKept
  <2> QED BY <1>0, <1>2, <2>4 DEF TriedOnce, Grows
<1>4. CASE pass' = [pass EXCEPT ![p].making = None, ![p].create = @ \ {c},
                                ![p].failed = @ \cup {c}]
  <2> DEFINE st == [pass[p] EXCEPT !.making = None, !.create = @ \ {c},
                                   !.failed = @ \cup {c}]
  <2>1. pass' = [pass EXCEPT ![p] = st]
    BY <1>0, <1>4 DEF AgentInv, AgentTypeOK
  <2>3. Careful(st, Known')
    BY <1>0, <1>1 DEF Careful, PassState
  <2> HIDE DEF st
  <2>4. \A q \in Pass : Careful(pass'[q], Known')
    BY <1>0, <2>1, <2>3, CareKept
  <2> QED BY <1>0, <1>2, <2>4 DEF TriedOnce, Grows
<1> QED BY <1>1, <1>3, <1>4 DEF Create

\* A version that is heard from, or is not, is known from then on.
LEMMA CareHears ==
  ASSUME YolInv, InTurn, overlaps = 0, TriedOnce, Grows,
         NEW p \in Pass, NEW c \in Owned, GateAnswers(p, c) \/ GateGivesUp(p, c), ~ Fault
  PROVE  TriedOnce' /\ Untried(c) /\ c \in App
<1>0. /\ AgentInv /\ pass[p] \in PassState /\ Careful(pass[p], Known)
      /\ pass[p].pc = "start" /\ UnderWay(p)
      /\ c \in App /\ c \in pass[p].started /\ c \notin pass[p].healthy \cup pass[p].unproven
  BY DEF YolInv, AgentInv, AgentTypeOK, TriedOnce, GateAnswers, GateGivesUp, AllStarted,
         Gating, UnderWay
<1>1. c \notin Known /\ Untried(c) /\ c \in Built
  BY <1>0 DEF Careful, Untried, YolInv, AgentGrounded, PassGrounded
<1>2. \A b \in Owned : docker'[b] # "exited"
  BY DEF TriedOnce, GateAnswers, GateGivesUp, RmSucceeds, RmFails, machine, YolInv, AgentInv,
         AgentTypeOK, Name
<1>3. CASE GateAnswers(p, c)
  <2> DEFINE st == [pass[p] EXCEPT !.healthy = @ \cup {c}]
  <2>1. /\ pass' = [pass EXCEPT ![p] = st] /\ Known' = Known \cup {c}
        /\ answered' = answered \cup {c} /\ UNCHANGED <<silent, abandoned>>
    BY <1>0, <1>3 DEF GateAnswers, Known, memory, AgentInv, AgentTypeOK
  <2>3. Careful(st, Known')
    BY <1>0, <2>1 DEF Careful, PassState
  <2> HIDE DEF st
  <2>4. \A q \in Pass : Careful(pass'[q], Known')
    BY <1>0, <2>1, <2>3, CareKept
  <2>5. /\ answered' \cap silent' = {} /\ silent' = abandoned'
        /\ answered' \cup silent' \subseteq Built'
    BY <1>1, <2>1 DEF TriedOnce, Grows, Known
  <2>6. TriedOnce'
    BY <1>2, <2>4, <2>5 DEF TriedOnce
  <2> QED BY <1>0, <1>1, <2>6
<1>4. CASE GateGivesUp(p, c)
  <2> DEFINE st == [pass[p] EXCEPT !.unproven = @ \cup {c}]
  <2>1. /\ pass' = [pass EXCEPT ![p] = st] /\ Known' = Known \cup {c}
        /\ silent' = silent \cup {c} /\ abandoned' = abandoned \cup {c} /\ UNCHANGED answered
    BY <1>0, <1>4 DEF GateGivesUp, Known, AgentInv, AgentTypeOK
  <2>3. Careful(st, Known')
    BY <1>0, <2>1 DEF Careful, PassState
  <2> HIDE DEF st
  <2>4. \A q \in Pass : Careful(pass'[q], Known')
    BY <1>0, <2>1, <2>3, CareKept
  <2>5. /\ answered' \cap silent' = {} /\ silent' = abandoned'
        /\ answered' \cup silent' \subseteq Built'
    BY <1>1, <2>1 DEF TriedOnce, Grows, Known
  <2>6. TriedOnce'
    BY <1>2, <2>4, <2>5 DEF TriedOnce
  <2> QED BY <1>0, <1>1, <2>6
<1> QED BY <1>0, <1>1, <1>3, <1>4

\* What is left of a pass once it has heard from everything, and between two passes.
LEMMA CareRests ==
  ASSUME YolInv, InTurn, overlaps = 0, TriedOnce, Grows,
         NEW p \in Pass, ~ Fault,
         \/ Sync(p) \/ Drain(p) \/ Report(p)
         \/ \E c \in Owned : Retire(p, c)
  PROVE  TriedOnce'
<1>0. /\ AgentInv /\ pass[p] \in PassState /\ Careful(pass[p], Known)
      /\ UNCHANGED <<answered, silent, abandoned>> /\ UNCHANGED Known
      /\ UnderWay(p)
  BY DEF Known, YolInv, AgentInv, AgentTypeOK, TriedOnce, Sync, Drain, Report, Retire,
         AllStarted, UnderWay, memory, history
<1>1. \A b \in Owned : docker'[b] # "exited"
  BY DEF TriedOnce, Sync, Drain, Report, Retire, RmSucceeds, RmFails, machine, YolInv,
         AgentInv, AgentTypeOK, Name
<1>2. ASSUME NEW st, pass' = [pass EXCEPT ![p] = st], Careful(st, Known') PROVE TriedOnce'
  <2>1. \A q \in Pass : Careful(pass'[q], Known')
    BY <1>0, <1>2, CareKept
  <2> QED BY <1>0, <1>1, <2>1 DEF TriedOnce, Grows
<1>3. CASE Sync(p)
  <2> DEFINE st == [pass[p] EXCEPT !.pc = AfterSync(p),
                        !.await = {q \in Request : request[q] \in pass[p].remove}]
  <2>1. pass' = [pass EXCEPT ![p] = st]
    BY <1>3 DEF Sync, AllStarted, AgentInv, AgentTypeOK, YolInv
  <2>2. Careful(st, Known')
    BY <1>0 DEF Careful, PassState, AfterSync, UnderWay
  <2> HIDE DEF st
  <2> QED BY <1>2, <2>1, <2>2
<1>4. CASE Drain(p)
  <2> DEFINE st == [pass[p] EXCEPT !.pc = "retire"]
  <2>1. pass' = [pass EXCEPT ![p] = st]
    BY <1>4 DEF Drain, AgentInv, AgentTypeOK, YolInv
  <2>2. Careful(st, Known')
    BY <1>0 DEF Careful, PassState, UnderWay
  <2> HIDE DEF st
  <2> QED BY <1>2, <2>1, <2>2
<1>5. CASE Report(p)
  <2>1. pass' = [pass EXCEPT ![p] = IdlePass] /\ Careful(IdlePass, Known')
    BY <1>5 DEF Report, Careful, IdlePass
  <2> QED BY <1>2, <2>1
<1>6. ASSUME NEW c \in Owned, Retire(p, c) PROVE TriedOnce'
  <2> DEFINE st == [pass[p] EXCEPT !.remove = @ \ {c}, !.retired = TRUE,
                        !.pc = IF pass[p].remove = {c} THEN "report" ELSE "retire"]
  <2>1. pass' = [pass EXCEPT ![p] = st]
    BY <1>6 DEF Retire, AgentInv, AgentTypeOK, YolInv
  <2>2. Careful(st, Known')
    BY <1>0 DEF Careful, PassState, UnderWay
  <2> HIDE DEF st
  <2> QED BY <1>2, <2>1, <2>2
<1> QED BY <1>3, <1>4, <1>5, <1>6

LEMMA TriedOnceStays ==
  ASSUME YolInv, InTurn, TriedOnce, AnsweredRun, [YolNext]_yolVars, Calm'
  PROVE  TriedOnce'
<1>0. Grows /\ ~ Fault /\ overlaps = 0 /\ overlaps' = 0
  BY AllGrows, CalmLasts DEF Calm
<1>1. CASE UNCHANGED <<memory, pass, machine, history>>
  BY <1>0, <1>1, CareStays DEF memory, machine, history
<1>2. ASSUME NEW r \in Reader, NEW s, Receive(r, s) PROVE TriedOnce'
  <2> DEFINE st == [pass[r] EXCEPT !.pc = "read"]
  <2>1. /\ AgentInv /\ pass[r] \in PassState /\ r \in Pass /\ Careful(pass[r], Known)
        /\ UNCHANGED <<docker, answered, silent, abandoned>> /\ UNCHANGED Known
        /\ pass[r].pc = "idle"
    BY <1>2 DEF YolInv, AgentInv, AgentTypeOK, Pass, TriedOnce, Receive, Known, machine,
                history
  <2>2. pass' = [pass EXCEPT ![r] = st]
    BY <1>2, <2>1 DEF Receive, AgentInv, AgentTypeOK
  <2>3. Careful(st, Known')
    BY <2>1 DEF Careful, PassState
  <2> HIDE DEF st
  <2>4. \A q \in Pass : Careful(pass'[q], Known')
    BY <1>0, <2>1, <2>2, <2>3, CareKept
  <2> QED BY <1>0, <2>1, <2>4 DEF TriedOnce, Grows
<1>3. ASSUME NEW p \in Pass, PassStep(p) \/ Report(p) PROVE TriedOnce'
  BY <1>0, <1>3, PassHandlesOwned, CareBegins, CareStarts, CareHears, CareRests
     DEF PassStep, YolInv
<1>4. ASSUME NEW r \in Reader, Connect(r) PROVE TriedOnce'
  BY <1>0, <1>4, CareStays DEF Connect, machine, history
<1>5. CASE MachineStep /\ \A c \in Owned : ~ Stops(c)
  <2>1. UNCHANGED <<pass, docker, answered, silent, abandoned>>
    BY <1>5 DEF MachineStep, ComesBack, Arrives, Finishes, TriedOnce, memory, history
  <2> QED BY <1>0, <2>1, CareStays
<1> QED BY <1>1, <1>2, <1>3, <1>4, <1>5, CalmPart

\* A pass that is under way keeps the specification it began with.
WorksOn == \A q \in Pass : UnderWay(q)' => UnderWay(q) /\ pass'[q].spec = pass[q].spec

LEMMA PassKeepsSpec ==
  ASSUME AgentInv, NEW p \in Pass,
         \/ Plan(p) \/ Sync(p) \/ Drain(p) \/ Report(p)
         \/ \E c \in Owned : \/ TakeAway(p, c) \/ Create(p, c)
                             \/ GateAnswers(p, c) \/ GateGivesUp(p, c) \/ Retire(p, c)
  PROVE  WorksOn
<1>0. pass \in [Pass -> PassState] /\ pass[p] \in PassState
  BY DEF AgentInv, AgentTypeOK
<1>1. \A q \in Pass : q # p => pass'[q] = pass[q]
  BY <1>0 DEF Plan, Sync, Drain, Report, TakeAway, Create, GateAnswers, GateGivesUp, Retire
<1>2. UnderWay(p)
  BY DEF Plan, Sync, Drain, Report, TakeAway, Create, GateAnswers, GateGivesUp, Retire,
         AllStarted, UnderWay
<1>3. UnderWay(p)' => pass'[p].spec = pass[p].spec
  <2>1. CASE Plan(p)
    <3>1. PICK actual \in {Managed, {}} : pass' = [pass EXCEPT ![p] = Planned(p, actual)]
      BY <2>1 DEF Plan
    <3>2. Planned(p, actual).spec = pass[p].spec
      BY <1>0 DEF Planned, PassState
    <3> QED BY <1>0, <3>1, <3>2
  <2>2. CASE Report(p)
    BY <1>0, <2>2 DEF Report, IdlePass, UnderWay
  <2>3. CASE Sync(p) \/ Drain(p)
    BY <1>0, <2>3 DEF Sync, Drain, PassState
  <2>4. ASSUME NEW c \in Owned, TakeAway(p, c) PROVE pass'[p].spec = pass[p].spec
    BY <1>0, <2>4 DEF TakeAway, PassState
  <2>5. ASSUME NEW c \in Owned, Create(p, c) PROVE pass'[p].spec = pass[p].spec
    <3> DEFINE gone == [pass[p] EXCEPT !.making = None, !.create = @ \ {c},
                                       !.started = @ \cup {c}]
               kept == [pass[p] EXCEPT !.making = None, !.create = @ \ {c},
                                       !.failed = @ \cup {c}]
    <3>1. PICK st \in {gone, kept} : pass' = [pass EXCEPT ![p] = st]
      BY <1>0, <2>5 DEF Create
    <3>2. gone.spec = pass[p].spec /\ kept.spec = pass[p].spec
      BY <1>0 DEF PassState
    <3> HIDE DEF gone, kept
    <3> QED BY <1>0, <3>1, <3>2
  <2>6. ASSUME NEW c \in Owned, GateAnswers(p, c) \/ GateGivesUp(p, c)
        PROVE  pass'[p].spec = pass[p].spec
    BY <1>0, <2>6 DEF GateAnswers, GateGivesUp, PassState
  <2>7. ASSUME NEW c \in Owned, Retire(p, c) PROVE pass'[p].spec = pass[p].spec
    BY <1>0, <2>7 DEF Retire, PassState
  <2> QED BY <2>1, <2>2, <2>3, <2>4, <2>5, <2>6, <2>7
<1> QED BY <1>1, <1>2, <1>3 DEF WorksOn, UnderWay

\* What answered stays for as long as it is asked for, if what is held never asks again
\* for what it had stopped asking for and a pass at work is no further on than it.
LEMMA AnsweredRunStays ==
  ASSUME YolInv, InTurn, TriedOnce, AnsweredRun, [YolNext]_yolVars, Calm',
         \A d \in answered : d \in Asked(held') => d \in Asked(held),
         \A p \in Pass, d \in answered :
            UnderWay(p) /\ d \in Asked(held) => d \in Asked(pass[p].spec)
  PROVE  AnsweredRun'
<1>0. /\ AgentInv /\ ~ Fault /\ overlaps = 0 /\ overlaps' = 0 /\ answered \subseteq App
      /\ App \subseteq Name /\ Owned \subseteq Name /\ docker \in [Name -> ContainerState]
  BY CalmLasts DEF Calm, YolInv, AgentInv, AgentTypeOK, Name, Owned
<1>1. ASSUME WorksOn, UNCHANGED answered,
             \A d \in answered : docker[d] = "running" => docker'[d] = "running"
      PROVE  AnsweredRun'
  BY <1>1 DEF AnsweredRun, WorksOn, Asked
<1>2. CASE UNCHANGED <<memory, pass, machine, history>>
  BY <1>1, <1>2 DEF WorksOn, UnderWay, memory, machine, history
<1>3. ASSUME NEW r \in Reader, NEW s, Receive(r, s) PROVE AnsweredRun'
  <2>1. WorksOn
    BY <1>0, <1>3 DEF Receive, WorksOn, UnderWay, AgentInv, AgentTypeOK, PassState, Pass
  <2> QED BY <1>1, <1>3, <2>1 DEF Receive, machine, history
<1>4. ASSUME NEW p \in Pass, Begin(p) PROVE AnsweredRun'
  <2>1. /\ \A q \in Pass : UnderWay(q)' => q = p
        /\ pass'[p].spec = held
        /\ UNCHANGED <<held, docker, answered>>
    BY <1>0, <1>4 DEF Begin, UnderWay, IdlePass, AgentInv, AgentTypeOK, memory, machine
  <2> QED BY <2>1 DEF AnsweredRun
<1>5. ASSUME NEW p \in Pass, Plan(p) \/ Sync(p) \/ Drain(p) \/ Report(p) PROVE AnsweredRun'
  BY <1>0, <1>1, <1>5, PassKeepsSpec DEF Plan, Sync, Drain, Report, machine, history
<1>6. ASSUME NEW p \in Pass, NEW c \in Owned, TakeAway(p, c) \/ Create(p, c)
      PROVE  AnsweredRun'
  <2>1. ~ TakeAway(p, c)
    BY DEF TakeAway, TriedOnce, Careful
  <2>2. \A d \in answered : docker[d] = "running" => docker'[d] = "running"
    BY <1>0, <1>6, <2>1 DEF Create, RunSucceeds, RunFails
  <2> QED BY <1>0, <1>1, <1>6, <2>2, PassKeepsSpec DEF TakeAway, Create, history
<1>7. ASSUME NEW p \in Pass, NEW c \in Owned, GateAnswers(p, c) PROVE AnsweredRun'
  <2>1. WorksOn /\ docker[c] = "running" /\ UNCHANGED <<held, docker>>
        /\ answered' = answered \cup {c}
    BY <1>0, <1>7, PassKeepsSpec DEF GateAnswers, memory, machine
  <2> QED BY <2>1 DEF AnsweredRun, WorksOn
<1>8. ASSUME NEW p \in Pass, NEW c \in Owned, GateGivesUp(p, c) PROVE AnsweredRun'
  <2>1. c \notin answered
    <3>1. Untried(c)
      BY <1>0, <1>8, CareHears, AllGrows
    <3> QED BY <3>1 DEF Untried, Known
  <2>2. \A d \in answered : docker[d] = "running" => docker'[d] = "running"
    BY <1>0, <1>8, <2>1 DEF GateGivesUp, RmSucceeds, RmFails
  <2> QED BY <1>0, <1>1, <1>8, <2>2, PassKeepsSpec DEF GateGivesUp
<1>9. ASSUME NEW p \in Pass, NEW c \in Owned, Retire(p, c) PROVE AnsweredRun'
  <2>1. WorksOn /\ UNCHANGED <<held, answered>> /\ UnderWay(p)
        /\ \A d \in answered \ {c} : docker[d] = "running" => docker'[d] = "running"
    BY <1>0, <1>9, PassKeepsSpec
    DEF Retire, RmSucceeds, RmFails, machine, memory, history, UnderWay
  <2>2. c \notin Asked(pass[p].spec)
    BY <1>9, <2>1 DEF TriedOnce, Careful, Retire, Asked, UnderWay
  <2>3. c \in answered => c \notin Asked(held)
    BY <2>1, <2>2
  <2>4. \A q \in Pass : UnderWay(q)' => q = p
    BY <1>0, <2>1, Alone DEF WorksOn
  <2> QED BY <2>1, <2>2, <2>3, <2>4 DEF AnsweredRun, WorksOn
<1>10. ASSUME NEW r \in Reader, Connect(r) PROVE AnsweredRun'
  BY <1>1, <1>10 DEF Connect, WorksOn, UnderWay, machine, history
<1>11. CASE MachineStep /\ \A c \in Owned : ~ Stops(c)
  <2>1. UNCHANGED <<pass, docker, answered>>
    BY <1>11 DEF MachineStep, ComesBack, Arrives, Finishes, TriedOnce, memory, history
  <2> QED BY <1>1, <2>1 DEF WorksOn, UnderWay
<1> QED
  BY <1>0, <1>2, <1>3, <1>4, <1>5, <1>6, <1>7, <1>8, <1>9, <1>10, <1>11, CalmPart,
     PassHandlesOwned
  DEF PassStep

(****************************************************************************)
(* A version is heard of once.                                              *)
(****************************************************************************)

\* Where the outcome of a version's rollout may be on its way to the record.
InPass(d)   == \E p \in Pass : d \in pass[p].healthy \cup pass[p].unproven
InUp(d, i)  == /\ i \in 1..Len(up) /\ up[i].type = "applied"
               /\ d \in up[i].healthy \cup up[i].unproven
InSender(d) == \E g \in Goroutine : d \in sender[g].healthy \cup sender[g].unproven

\* An outcome is in one place at most, and the version waits for it.
HeardOnce ==
    \A d \in App :
        /\ InPass(d) => /\ status[d] = "deploying" /\ ~ InSender(d)
                        /\ \A i \in Nat : ~ InUp(d, i)
        /\ \A i \in Nat : InUp(d, i) =>
             /\ status[d] = "deploying" /\ ~ InSender(d)
             /\ \A j \in Nat : InUp(d, j) => i = j
        /\ InSender(d) => status[d] = "deploying"

\* A version that was built and not heard of yet is going out.
BuiltGoesOut == \A d \in Built : Untried(d) => status[d] = "deploying"

\* There is one connection, which one goroutine serves and everybody writes to.
OneConnection ==
    /\ hub = session
    /\ \A g \in Goroutine :
         /\ sender[g].pc = "greet" => g = session
         /\ sender[g].healthy \cup sender[g].unproven # {} => g = session /\ session # None
         /\ sender[g].pc = "send" => sender[g].conn = session /\ session # None

\* A version that was not heard of keeps waiting once it was built.
LEMMA BuiltStaysOut ==
  ASSUME YolInv, BuiltGoesOut, [YolNext]_yolVars PROVE BuiltGoesOut'
<1>0. /\ Grows /\ RecordGrounded /\ DeployTypeOK
      /\ \A d \in App : Untried(d)' => Untried(d)
  BY AllGrows DEF YolInv, DeployInv, Untried, Known, Grows
<1> USE DEF BuiltGoesOut, Built, DeployTypeOK
<1>1. CASE UNCHANGED deployVars
  BY <1>0, <1>1 DEF deployVars
<1>2. ASSUME NEW d \in App, \/ RecordDeploy(d)
                            \/ status[d] = "building" /\ RecordNotAsked(d)
      PROVE  BuiltGoesOut'
  BY <1>0, <1>2 DEF RecordDeploy, RecordNotAsked, RecordGrounded
<1>3. ASSUME NEW d \in App, NEW ok \in BOOLEAN, status[d] = "building", RecordBuild(d, ok)
      PROVE  BuiltGoesOut'
  <2>1. /\ \A e \in App \ {d} : status'[e] = status[e] /\ image'[e] = image[e]
        /\ image[d] = FALSE
    BY <1>0, <1>3 DEF RecordBuild, RecordGrounded
  <2>2. image'[d] => status'[d] = "deploying"
    BY <1>0, <1>3, <2>1 DEF RecordBuild
  <2> QED BY <1>0, <2>1, <2>2
<1>4. ASSUME NEW d \in Built \cap answered, RecordRollout(d, TRUE) PROVE BuiltGoesOut'
  <2>1. /\ \A e \in App : e # d /\ status[e] # "live" => status'[e] = status[e]
        /\ UNCHANGED image
    BY <1>4 DEF RecordRollout
  <2> QED BY <1>0, <1>4, <2>1 DEF RecordGrounded, Untried, Known
<1>5. ASSUME NEW d \in Built \cap silent, RecordRollout(d, FALSE) PROVE BuiltGoesOut'
  <2>1. \A e \in App \ {d} : status'[e] = status[e] /\ image'[e] = image[e]
    BY <1>5 DEF RecordRollout
  <2> QED BY <1>0, <1>5, <2>1 DEF Untried, Known
<1>6. ASSUME NEW previous \in App, NEW d \in App, RecordRollback(previous, d)
      PROVE  BuiltGoesOut'
  BY <1>0, <1>6 DEF RecordRollback
<1>7. ASSUME NEW h \in Named, RecordVerified(h) \/ RecordRemoved(h) PROVE BuiltGoesOut'
  BY <1>0, <1>7 DEF RecordVerified, RecordRemoved
<1> QED BY <1>1, <1>2, <1>3, <1>4, <1>5, <1>6, <1>7, RecordPartOf DEF RecordPart

\* While nothing fails, the connection that was made first is the only one.
LEMMA OneConnectionStays ==
  ASSUME YolInv, OneConnection, [YolNext]_yolVars, faults' = 0
  PROVE  OneConnection'
<1>0. /\ ~ Fault
      /\ sender \in [Goroutine -> SenderGrounded(Built, answered, silent)]
      /\ Reader \subseteq Goroutine /\ App \subseteq Goroutine /\ Named \subseteq Goroutine
      /\ None \notin Reader /\ WireGrounded
  BY FaultlessLasts
  DEF YolInv, WireGrounded, Goroutine, Pass, Name, Owned
<1>1. ASSUME UNCHANGED <<hub, session, sender>> PROVE OneConnection'
  BY <1>1 DEF OneConnection
<1>2. ASSUME NEW g \in Goroutine, NEW st, sender' = [sender EXCEPT ![g] = st],
             UNCHANGED <<hub, session>>,
             st.pc = "greet" => g = session,
             st.healthy \cup st.unproven # {} => g = session /\ session # None,
             st.pc = "send" => st.conn = session /\ session # None
      PROVE  OneConnection'
  BY <1>0, <1>2 DEF OneConnection
<1>3. ASSUME NEW d \in App, Deploy(d) \/ AskBuild(d) PROVE OneConnection'
  <2>1. CASE Deploy(d)
    <3> DEFINE st == [sender[d] EXCEPT !.pc = "build"]
    <3>1. /\ sender' = [sender EXCEPT ![d] = st] /\ UNCHANGED <<hub, session>>
          /\ st.pc = "build" /\ st.healthy = sender[d].healthy
          /\ st.unproven = sender[d].unproven
      BY <1>0, <2>1 DEF Deploy, agentVars, wire, SenderGrounded
    <3> HIDE DEF st
    <3> QED BY <1>0, <1>2, <3>1 DEF OneConnection
  <2>2. CASE AskBuild(d)
    BY <1>0, <1>2, <2>2 DEF AskBuild, Idle, agentVars
  <2> QED BY <1>3, <2>1, <2>2
<1>12. ASSUME NEW g \in Goroutine, sender' = [sender EXCEPT ![g].pc = "reconcile"],
              UNCHANGED <<hub, session>>
       PROVE  OneConnection'
  <2> DEFINE st == [sender[g] EXCEPT !.pc = "reconcile"]
  <2>1. /\ sender' = [sender EXCEPT ![g] = st] /\ st.pc = "reconcile"
        /\ st.healthy = sender[g].healthy /\ st.unproven = sender[g].unproven
    BY <1>0, <1>12 DEF SenderGrounded
  <2> HIDE DEF st
  <2> QED BY <1>2, <1>12, <2>1 DEF OneConnection
<1>13. ASSUME NEW previous \in App, NEW d \in App, Rollback(previous, d)
       PROVE  OneConnection'
  BY <1>0, <1>12, <1>13 DEF Rollback, agentVars, wire
<1>14. ASSUME NEW h \in Named, ChangeHostname(h) PROVE OneConnection'
  BY <1>0, <1>12, <1>14 DEF ChangeHostname, agentVars, wire
<1>4. ASSUME NEW g \in Goroutine, ReadSpec(g) \/ SendSpec(g) PROVE OneConnection'
  <2>0. sender[g] \in SenderGrounded(Built, answered, silent)
    BY <1>0
  <2>1. CASE ReadSpec(g)
    <3> DEFINE st(c) == [sender[g] EXCEPT !.pc = "send", !.conn = c, !.spec = SpecFor]
               gone  == [sender[g] EXCEPT !.pc = "idle"]
    <3>1. /\ \A c : /\ st(c).pc = "send" /\ st(c).conn = c
                    /\ st(c).healthy = sender[g].healthy /\ st(c).unproven = sender[g].unproven
          /\ gone.pc = "idle" /\ gone.healthy = sender[g].healthy
          /\ gone.unproven = sender[g].unproven
      BY <2>0 DEF SenderGrounded
    <3>2. \/ /\ sender' = [sender EXCEPT ![g] = st(session)] /\ session \in Reader
          \/ sender' = [sender EXCEPT ![g] = gone]
      <4>1. \A c \in Reader : SpecRead(g, c) => sender' = [sender EXCEPT ![g] = st(c)]
        BY DEF SpecRead
      <4> QED BY <1>0, <2>1, <4>1, ReadOrDone DEF OneConnection
    <3>3. UNCHANGED <<hub, session>>
      BY <2>1 DEF ReadSpec, agentButFaults, wire
    <3> HIDE DEF st, gone
    <3> QED BY <1>0, <1>2, <3>1, <3>2, <3>3 DEF OneConnection
  <2>2. CASE SendSpec(g)
    <3> DEFINE st == [sender[g] EXCEPT !.pc = "idle", !.conn = None, !.spec = NoSpec]
    <3>1. /\ sender' = [sender EXCEPT ![g] = st] /\ UNCHANGED <<hub, session>>
          /\ st.pc = "idle" /\ st.healthy = sender[g].healthy
          /\ st.unproven = sender[g].unproven
      BY <2>0, <2>2 DEF SendSpec, agentVars, SenderGrounded
    <3> HIDE DEF st
    <3> QED BY <1>2, <3>1 DEF OneConnection
  <2> QED BY <1>4, <2>1, <2>2
<1>5. ASSUME NEW r \in Reader, TakeBuildResult(r) PROVE OneConnection'
  BY <1>0, <1>5
  DEF TakeBuildResult, NotRecorded, agentButFaults, OneConnection, SenderGrounded
<1>6. ASSUME NEW r \in Reader, TakeApplied(r) PROVE OneConnection'
  BY <1>0, <1>6 DEF TakeApplied, agentVars, OneConnection, SenderGrounded
<1>7. ASSUME NEW r \in Reader, NEW d \in App, FinishRollout(r, d) PROVE OneConnection'
  <2>1. r = session /\ UNCHANGED <<hub, session>>
    BY <1>0, <1>7 DEF FinishRollout, OneConnection, wire, agentButFaults
  <2> DEFINE heard    == [sender[r] EXCEPT !.healthy = @ \ {d}, !.pc = "reconcile"]
             silenced == [sender[r] EXCEPT !.unproven = @ \ {d}]
  <2>2. PICK st \in {heard, silenced} : sender' = [sender EXCEPT ![r] = st]
    BY <1>0, <1>7 DEF FinishRollout, NotRecorded
  <2>3. heard.pc = "reconcile" /\ silenced.pc = "idle"
    BY <1>0, <1>7 DEF FinishRollout, SenderGrounded
  <2> HIDE DEF heard, silenced
  <2>4. st.pc \in {"idle", "reconcile"}
    BY <2>2, <2>3
  <2> QED BY <1>0, <1>2, <2>1, <2>2, <2>4
<1>8. ASSUME NEW r \in Reader, Attach(r) PROVE OneConnection'
  <2>1. /\ session = None /\ session' = r /\ hub' = r
        /\ \A g \in Goroutine : g # r => sender'[g] = sender[g]
        /\ sender'[r].pc = "greet"
    BY <1>0, <1>8 DEF Attach, Connect, SenderGrounded
  <2>2. \A g \in Goroutine : /\ sender[g].pc = "greet" => g = r
                             /\ sender[g].pc # "send"
                             /\ sender[g].healthy \cup sender[g].unproven = {}
    <3>1. \A g \in Goroutine : sender[g].pc = "greet" => g \in Reader
      BY <1>0 DEF WireGrounded
    <3> QED BY <1>0, <2>1, <3>1 DEF OneConnection
  <2>3. ASSUME NEW g \in Goroutine
        PROVE  /\ sender'[g].pc = "greet" => g = r
               /\ sender'[g].healthy \cup sender'[g].unproven # {} => g = r /\ r # None
               /\ sender'[g].pc # "send"
    <3>1. CASE g = r
      <4>1. sender'[r].healthy = {} /\ sender'[r].unproven = {}
        BY <1>0, <1>8 DEF Attach, Idle, SenderGrounded
      <4> QED BY <2>1, <3>1, <4>1
    <3>2. CASE g # r
      <4>1. sender'[g] = sender[g]
        BY <2>1, <3>2
      <4> QED BY <2>2, <4>1
    <3> QED BY <3>1, <3>2
  <2> QED BY <2>1, <2>3 DEF OneConnection
<1>9. ASSUME NEW r \in Reader, TakeSpec(r) PROVE OneConnection'
  BY <1>1, <1>9 DEF TakeSpec, Receive
<1>10. CASE AgentProceeds
  <2>1. ASSUME NEW p \in Pass, PassStep(p) PROVE UNCHANGED session
    BY <2>1 DEF PassStep, Begin, Plan, Sync, Drain, TakeAway, Create, GateAnswers,
                GateGivesUp, Retire
  <2>2. ASSUME MachineStep PROVE UNCHANGED session
    BY <2>2 DEF MachineStep, Stops, ComesBack, Arrives, Finishes
  <2> QED BY <1>1, <1>10, <2>1, <2>2 DEF AgentProceeds, wire
<1>11. ASSUME NEW r \in Reader, Forget(r) PROVE FALSE
  BY <1>11 DEF Forget, OneConnection
<1> QED
  BY <1>0, <1>1, <1>3, <1>4, <1>5, <1>6, <1>7, <1>8, <1>9, <1>10, <1>11, <1>13, <1>14
  DEF YolNext, yolVars, agentVars, wire, StartBuild, Refuse, FinishBuilding,
      ReportPass, Report, Detach, Disconnect, AgentRestart, Restart, ServerRestart

\* What messages and passes tell of a version: as much as before, or all but the first
\* message.
FewerHeard ==
    /\ \/ \A d \in App, i \in Nat : InUp(d, i)' => InUp(d, i)
       \/ \A d \in App, i \in Nat : InUp(d, i)' => InUp(d, i + 1)
    /\ \A d \in App : InPass(d)' => InPass(d)

\* A step that tells of nothing new, and settles only a version that nothing tells of.
LEMMA HeardLess ==
  ASSUME HeardOnce, FewerHeard,
         \A d \in App : InSender(d)' => InSender(d),
         \A d \in App : status[d] = "deploying" =>
            \/ status'[d] = "deploying"
            \/ ~ InPass(d)' /\ ~ InSender(d)' /\ \A i \in Nat : ~ InUp(d, i)'
  PROVE  HeardOnce'
<1> SUFFICES ASSUME NEW d \in App
    PROVE  (/\ InPass(d) => /\ status[d] = "deploying" /\ ~ InSender(d)
                            /\ \A i \in Nat : ~ InUp(d, i)
            /\ \A i \in Nat : InUp(d, i) =>
                 /\ status[d] = "deploying" /\ ~ InSender(d)
                 /\ \A j \in Nat : InUp(d, j) => i = j
            /\ InSender(d) => status[d] = "deploying")'
  BY DEF HeardOnce
<1>1. \A i \in Nat : InUp(d, i)' => \E k \in Nat : InUp(d, k)
  BY DEF FewerHeard
<1>2. \A i, j \in Nat : InUp(d, i)' /\ InUp(d, j)' => i = j
  <2>1. \A i, j \in Nat : InUp(d, i) /\ InUp(d, j) => i = j
    BY DEF HeardOnce
  <2>2. CASE \A i \in Nat : InUp(d, i)' => InUp(d, i)
    BY <2>1, <2>2
  <2>3. CASE \A i \in Nat : InUp(d, i)' => InUp(d, i + 1)
    BY <2>1, <2>3
  <2> QED BY <2>2, <2>3 DEF FewerHeard
<1>3. InPass(d)' => InPass(d)
  BY DEF FewerHeard
<1>4. InPass(d)' \/ InSender(d)' \/ (\E i \in Nat : InUp(d, i)') => status'[d] = "deploying"
  BY <1>1, <1>3 DEF HeardOnce
<1> QED BY <1>1, <1>2, <1>3, <1>4 DEF HeardOnce

\* The first message is taken, one is added.
LEMMA HeardTail ==
  ASSUME UpTyped, up # <<>>, up' = Tail(up), NEW d, NEW i \in Nat, InUp(d, i)'
  PROVE  InUp(d, i + 1) /\ i # 0
  BY DEF UpTyped, InUp

LEMMA HeardAppend ==
  ASSUME UpTyped, NEW m, up' = Append(up, m), NEW d, NEW i \in Nat, InUp(d, i)'
  PROVE  \/ InUp(d, i)
         \/ /\ i = Len(up) + 1 /\ m.type = "applied"
            /\ d \in m.healthy \cup m.unproven
  BY DEF UpTyped, InUp

\* What is told of a version is of one that is known.
LEMMA HeardIsKnown ==
  ASSUME YolInv, NEW d \in App, InSender(d) \/ \E i \in Nat : InUp(d, i)
  PROVE  d \in Known
<1>1. ASSUME InSender(d) PROVE d \in Known
  BY <1>1 DEF InSender, Known, YolInv, WireGrounded, SenderGrounded
<1>2. ASSUME NEW i \in Nat, InUp(d, i) PROVE d \in Known
  <2>1. up[i] \in UpGrounded(Built, answered, silent) /\ up[i].type = "applied"
    BY <1>2 DEF InUp, YolInv, WireGrounded
  <2>2. /\ up[i].healthy \in SUBSET (answered \cap Built)
        /\ up[i].unproven \in SUBSET (silent \cap Built)
    BY <2>1 DEF UpGrounded, Applied, BuildResult
  <2> QED BY <1>2, <2>2 DEF InUp, Known
<1> QED BY <1>1, <1>2

\* A pass hears of a version only from its gate.
LEMMA PassHearsNoMore ==
  ASSUME AgentInv, NEW p \in Pass,
         \/ Begin(p) \/ Plan(p) \/ Sync(p) \/ Drain(p) \/ Report(p)
         \/ \E c \in Owned : TakeAway(p, c) \/ Create(p, c) \/ Retire(p, c)
  PROVE  \A d \in App : InPass(d)' => InPass(d)
<1>0. pass \in [Pass -> PassState] /\ pass[p] \in PassState
  BY DEF AgentInv, AgentTypeOK
<1> DEFINE Less(st) == /\ st.healthy \subseteq pass[p].healthy
                       /\ st.unproven \subseteq pass[p].unproven
<1>1. ASSUME NEW st, pass' = [pass EXCEPT ![p] = st], Less(st)
      PROVE  \A d \in App : InPass(d)' => InPass(d)
  BY <1>0, <1>1 DEF InPass
<1>2. CASE Begin(p)
  <2> DEFINE st == [IdlePass EXCEPT !.pc = "plan", !.spec = held]
  <2>1. pass' = [pass EXCEPT ![p] = st] /\ Less(st)
    BY <1>2 DEF Begin, IdlePass
  <2> HIDE DEF st
  <2> QED BY <1>1, <2>1
<1>3. CASE Plan(p)
  <2>1. PICK actual \in {Managed, {}} : pass' = [pass EXCEPT ![p] = Planned(p, actual)]
    BY <1>3 DEF Plan
  <2>2. Less(Planned(p, actual))
    BY <1>0 DEF Planned, PassState
  <2> QED BY <1>1, <2>1, <2>2
<1>4. CASE Sync(p)
  <2> DEFINE st == [pass[p] EXCEPT !.pc = AfterSync(p),
                        !.await = {q \in Request : request[q] \in pass[p].remove}]
  <2>1. pass' = [pass EXCEPT ![p] = st] /\ Less(st)
    BY <1>0, <1>4 DEF Sync, PassState
  <2> HIDE DEF st
  <2> QED BY <1>1, <2>1
<1>5. CASE Drain(p)
  <2> DEFINE st == [pass[p] EXCEPT !.pc = "retire"]
  <2>1. pass' = [pass EXCEPT ![p] = st] /\ Less(st)
    BY <1>0, <1>5 DEF Drain, PassState
  <2> HIDE DEF st
  <2> QED BY <1>1, <2>1
<1>6. CASE Report(p)
  <2>1. pass' = [pass EXCEPT ![p] = IdlePass] /\ Less(IdlePass)
    BY <1>6 DEF Report, IdlePass
  <2> QED BY <1>1, <2>1
<1>7. ASSUME NEW c \in Owned, TakeAway(p, c) PROVE \A d \in App : InPass(d)' => InPass(d)
  <2> DEFINE gone == [pass[p] EXCEPT !.replace = @ \ {c}, !.making = c]
             kept == [pass[p] EXCEPT !.replace = @ \ {c}, !.failed = @ \cup {c}]
  <2>1. PICK st \in {gone, kept} : pass' = [pass EXCEPT ![p] = st]
    BY <1>0, <1>7 DEF TakeAway
  <2>2. Less(gone) /\ Less(kept)
    BY <1>0 DEF PassState
  <2> HIDE DEF gone, kept
  <2> QED BY <1>1, <2>1, <2>2
<1>8. ASSUME NEW c \in Owned, Create(p, c) PROVE \A d \in App : InPass(d)' => InPass(d)
  <2> DEFINE gone == [pass[p] EXCEPT !.making = None, !.create = @ \ {c},
                                     !.started = @ \cup {c}]
             kept == [pass[p] EXCEPT !.making = None, !.create = @ \ {c},
                                     !.failed = @ \cup {c}]
  <2>1. PICK st \in {gone, kept} : pass' = [pass EXCEPT ![p] = st]
    BY <1>0, <1>8 DEF Create
  <2>2. Less(gone) /\ Less(kept)
    BY <1>0 DEF PassState
  <2> HIDE DEF gone, kept
  <2> QED BY <1>1, <2>1, <2>2
<1>9. ASSUME NEW c \in Owned, Retire(p, c) PROVE \A d \in App : InPass(d)' => InPass(d)
  <2> DEFINE next == IF pass[p].remove = {c} THEN "report" ELSE "retire"
             st   == [pass[p] EXCEPT !.remove = @ \ {c}, !.retired = TRUE, !.pc = next]
  <2>1. pass' = [pass EXCEPT ![p] = st]
    BY <1>0, <1>9 DEF Retire
  <2>2. Less(st)
    BY <1>0 DEF PassState
  <2> HIDE DEF st
  <2> QED BY <1>1, <2>1, <2>2
<1> QED BY <1>2, <1>3, <1>4, <1>5, <1>6, <1>7, <1>8, <1>9

\* A gate hears of a version that nothing told of, and that is going out.
LEMMA GateHeard ==
  ASSUME YolInv, InTurn, overlaps = 0, TriedOnce, HeardOnce, BuiltGoesOut, ~ Fault,
         NEW p \in Pass, NEW c \in Owned, GateAnswers(p, c) \/ GateGivesUp(p, c), Grows,
         UNCHANGED <<up, sender, status>>
  PROVE  HeardOnce'
<1>1. /\ c \in App /\ Untried(c) /\ c \in Built
      /\ \A d \in App : InPass(d)' => InPass(d) \/ d = c
  <2>1. c \in App /\ Untried(c)
    BY CareHears
  <2>2. c \in Built
    BY <2>1 DEF GateAnswers, GateGivesUp, Gating, YolInv, AgentGrounded, PassGrounded
  <2> DEFINE heard    == [pass[p] EXCEPT !.healthy = @ \cup {c}]
             silenced == [pass[p] EXCEPT !.unproven = @ \cup {c}]
  <2>3. PICK st \in {heard, silenced} : pass' = [pass EXCEPT ![p] = st]
    BY DEF GateAnswers, GateGivesUp, YolInv, AgentInv, AgentTypeOK
  <2>4. /\ heard.healthy \cup heard.unproven = pass[p].healthy \cup pass[p].unproven \cup {c}
        /\ silenced.healthy \cup silenced.unproven
             = pass[p].healthy \cup pass[p].unproven \cup {c}
    BY DEF YolInv, AgentInv, AgentTypeOK, PassState
  <2> HIDE DEF heard, silenced
  <2>5. \A d \in App : InPass(d)' => InPass(d) \/ d = c
    BY <2>3, <2>4 DEF InPass, YolInv, AgentInv, AgentTypeOK
  <2> QED BY <2>1, <2>2, <2>5
<1>2. /\ \A d \in App, i \in Nat : InUp(d, i)' <=> InUp(d, i)
      /\ \A d \in App : InSender(d)' <=> InSender(d)
  BY DEF InUp, InSender
<1>3. ~ InSender(c) /\ \A i \in Nat : ~ InUp(c, i)
  BY <1>1, HeardIsKnown DEF Untried
<1>4. status[c] = "deploying"
  BY <1>1 DEF BuiltGoesOut
<1> QED BY <1>1, <1>2, <1>3, <1>4 DEF HeardOnce

\* A pass that has ended tells of what it heard, in one message.
LEMMA ReportHeard ==
  ASSUME YolInv, InTurn, overlaps = 0, TriedOnce, HeardOnce, NEW p \in Pass, ReportPass(p)
  PROVE  HeardOnce'
<1>0. AgentInv /\ UpTyped /\ UNCHANGED <<sender, status>>
  BY DEF YolInv, WireGrounded, UpTyped, ReportPass, deployVars
<1>1. \A d \in App : ~ InPass(d)'
  <2>1. UnderWay(p) /\ pass' = [pass EXCEPT ![p] = IdlePass]
    BY DEF ReportPass, Report, UnderWay
  <2>2. \A q \in Pass : q # p => pass[q].healthy \cup pass[q].unproven = {}
    BY <2>1, Alone DEF UnderWay, TriedOnce, Careful
  <2> QED BY <1>0, <2>1, <2>2 DEF InPass, IdlePass, AgentInv, AgentTypeOK
<1>2. ASSUME NEW d \in App, NEW i \in Nat, InUp(d, i)'
      PROVE  InUp(d, i) \/ (i = Len(up) + 1 /\ InPass(d))
  <2>1. CASE UNCHANGED up
    BY <1>2, <2>1 DEF InUp
  <2>2. CASE up' = Append(up, Applied(pass[p].healthy, pass[p].unproven))
    <3>1. \/ InUp(d, i)
          \/ /\ i = Len(up) + 1
             /\ d \in Applied(pass[p].healthy, pass[p].unproven).healthy
                        \cup Applied(pass[p].healthy, pass[p].unproven).unproven
      BY <1>0, <1>2, <2>2, HeardAppend
    <3> QED BY <3>1 DEF Applied, InPass
  <2> QED BY <2>1, <2>2 DEF ReportPass, Say
<1>3. \A d \in App : InSender(d)' <=> InSender(d)
  BY <1>0 DEF InSender
<1>4. \A d \in App, i \in Nat : InUp(d, i) => i < Len(up) + 1
  BY <1>0 DEF InUp, UpTyped
<1>5. Len(up) \in Nat
  BY <1>0 DEF UpTyped
<1> QED BY <1>0, <1>1, <1>2, <1>3, <1>4, <1>5 DEF HeardOnce

\* The goroutine that serves the connection takes a message up with nothing left of the
\* one before.
LEMMA AppliedHeard ==
  ASSUME YolInv, OneConnection, HeardOnce, NEW r \in Reader, TakeApplied(r)
  PROVE  HeardOnce'
<1>0. /\ UpTyped /\ UNCHANGED <<pass, status>> /\ up # <<>> /\ up' = Tail(up)
      /\ r \in Goroutine /\ sender[r] \in SenderGrounded(Built, answered, silent)
      /\ sender \in [Goroutine -> SenderGrounded(Built, answered, silent)]
  BY DEF YolInv, WireGrounded, UpTyped, TakeApplied, deployVars, agentVars, Goroutine
<1>1. \A d \in App : InSender(d)' => InSender(d) \/ InUp(d, 1)
  <2> DEFINE st == [sender[r] EXCEPT !.healthy = Head(up).healthy,
                                     !.unproven = Head(up).unproven]
  <2>1. sender' = [sender EXCEPT ![r] = st]
    BY <1>0 DEF TakeApplied
  <2>2. st.healthy = Head(up).healthy /\ st.unproven = Head(up).unproven
    BY <1>0 DEF SenderGrounded
  <2>3. Head(up) = up[1] /\ 1 \in 1..Len(up) /\ up[1].type = "applied"
    BY <1>0 DEF UpTyped, TakeApplied
  <2> HIDE DEF st
  <2> QED BY <1>0, <2>1, <2>2, <2>3 DEF InSender, InUp
<1>2. \A d \in App : ~ InSender(d)
  <2>1. sender[r].healthy \cup sender[r].unproven = {} /\ r = session
    BY DEF TakeApplied, Listening
  <2> QED BY <2>1 DEF InSender, OneConnection
<1>3. \A d \in App, i \in Nat : InUp(d, i)' => InUp(d, i + 1) /\ i # 0
  BY <1>0, HeardTail
<1>4. \A d \in App : InPass(d)' <=> InPass(d)
  BY <1>0 DEF InPass
<1>5. ASSUME NEW d \in App, NEW i \in Nat, InUp(d, i)' PROVE ~ InUp(d, 1)
  <2>1. InUp(d, i + 1) /\ i + 1 # 1 /\ i + 1 \in Nat
    BY <1>3, <1>5
  <2> QED BY <2>1 DEF HeardOnce
<1> QED BY <1>0, <1>1, <1>2, <1>3, <1>4, <1>5 DEF HeardOnce

\* An outcome is recorded of a version that nothing else tells of.
LEMMA RecordedHeard ==
  ASSUME YolInv, OneConnection, TriedOnce, HeardOnce, ~ Fault,
         NEW r \in Reader, NEW d \in App, FinishRollout(r, d)
  PROVE  HeardOnce' /\ status[d] = "deploying"
<1>0. /\ UNCHANGED <<pass, up>> /\ r \in Goroutine
      /\ sender[r] \in SenderGrounded(Built, answered, silent)
      /\ sender \in [Goroutine -> SenderGrounded(Built, answered, silent)]
      /\ InSender(d) /\ DeployTypeOK
  BY DEF YolInv, WireGrounded, DeployInv, FinishRollout, wire, agentButFaults, Goroutine,
         InSender
<1>1. status[d] = "deploying" /\ ~ InPass(d) /\ \A i \in Nat : ~ InUp(d, i)
  BY <1>0 DEF HeardOnce
<1>2. /\ \A e \in App : InPass(e)' <=> InPass(e)
      /\ \A e \in App, i \in Nat : InUp(e, i)' <=> InUp(e, i)
  BY <1>0 DEF InPass, InUp
<1>3. (\A e \in App : InSender(e)' => InSender(e)) /\ ~ InSender(d)'
  <2> DEFINE heard    == [sender[r] EXCEPT !.healthy = @ \ {d}, !.pc = "reconcile"]
             silenced == [sender[r] EXCEPT !.unproven = @ \ {d}]
  <2>1. \/ d \in sender[r].healthy /\ sender' = [sender EXCEPT ![r] = heard]
        \/ d \in sender[r].unproven /\ sender' = [sender EXCEPT ![r] = silenced]
    BY <1>0 DEF FinishRollout, NotRecorded
  <2>2. /\ heard.healthy = sender[r].healthy \ {d} /\ heard.unproven = sender[r].unproven
        /\ silenced.healthy = sender[r].healthy /\ silenced.unproven = sender[r].unproven \ {d}
    BY <1>0 DEF SenderGrounded
  <2>3. sender[r].healthy \cap sender[r].unproven = {}
    BY <1>0 DEF SenderGrounded, TriedOnce
  <2>4. \A g \in Goroutine : g # r => sender[g].healthy \cup sender[g].unproven = {}
    BY <1>0, <2>1 DEF OneConnection
  <2> HIDE DEF heard, silenced
  <2> QED BY <1>0, <2>1, <2>2, <2>3, <2>4 DEF InSender
<1>4. \A e \in App : e # d /\ status[e] = "deploying" => status'[e] = "deploying"
  BY <1>0 DEF FinishRollout, RecordRollout, NotRecorded, DeployTypeOK
<1> QED BY <1>1, <1>2, <1>3, <1>4 DEF HeardOnce

LEMMA HeardOnceStays ==
  ASSUME YolInv, InTurn, TriedOnce, OneConnection, BuiltGoesOut, HeardOnce,
         [YolNext]_yolVars, Calm'
  PROVE  HeardOnce'
<1>0. /\ ~ Fault /\ overlaps = 0 /\ Grows /\ WireGrounded
      /\ sender \in [Goroutine -> SenderGrounded(Built, answered, silent)]
      /\ Reader \subseteq Goroutine /\ App \subseteq Goroutine /\ Named \subseteq Goroutine
      /\ AgentInv /\ UpTyped /\ DeployTypeOK
  BY CalmLasts, AllGrows
  DEF Calm, YolInv, WireGrounded, Goroutine, UpTyped, DeployInv
<1>1. ASSUME UNCHANGED up \/ (up # <<>> /\ up' = Tail(up))
                 \/ \E d, ok : up' = Append(up, BuildResult(d, ok)),
             \A d \in App : InPass(d)' => InPass(d),
             \A d \in App : InSender(d)' => InSender(d),
             \A d \in App : status[d] = "deploying" => status'[d] = "deploying"
      PROVE  HeardOnce'
  <2>1. FewerHeard
    <3>1. CASE UNCHANGED up
      BY <1>1, <3>1 DEF FewerHeard, InUp
    <3>2. CASE up # <<>> /\ up' = Tail(up)
      BY <1>0, <1>1, <3>2, HeardTail DEF FewerHeard
    <3>3. ASSUME NEW d, NEW ok, up' = Append(up, BuildResult(d, ok)) PROVE FewerHeard
      BY <1>0, <1>1, <3>3, HeardAppend DEF FewerHeard, BuildResult
    <3> QED BY <1>1, <3>1, <3>2, <3>3
  <2> QED BY <1>1, <2>1, HeardLess
<1>2. ASSUME NEW g \in Goroutine, NEW st, sender' = [sender EXCEPT ![g] = st],
             st.healthy \subseteq sender[g].healthy, st.unproven \subseteq sender[g].unproven
      PROVE  \A d \in App : InSender(d)' => InSender(d)
  BY <1>0, <1>2 DEF InSender
<1>3. UNCHANGED pass => \A d \in App : InPass(d)' => InPass(d)
  BY DEF InPass
<1>4. UNCHANGED sender => \A d \in App : InSender(d)' => InSender(d)
  BY DEF InSender
<1>5. ASSUME NEW d \in App, Deploy(d) PROVE HeardOnce'
  <2> DEFINE st == [sender[d] EXCEPT !.pc = "build"]
  <2>1. /\ sender' = [sender EXCEPT ![d] = st]
        /\ st.healthy = sender[d].healthy /\ st.unproven = sender[d].unproven
    BY <1>0, <1>5 DEF Deploy, SenderGrounded
  <2>2. UNCHANGED <<up, pass>> /\ \A e \in App : status[e] = "deploying" => status'[e] = "deploying"
    BY <1>0, <1>5 DEF Deploy, RecordDeploy, agentVars, wire, DeployTypeOK
  <2> HIDE DEF st
  <2> QED BY <1>0, <1>1, <1>2, <1>3, <2>1, <2>2
<1>14. ASSUME NEW g \in Goroutine, sender' = [sender EXCEPT ![g].pc = "reconcile"],
              UNCHANGED <<up, pass>>,
              \A e \in App : status[e] = "deploying" => status'[e] = "deploying"
       PROVE  HeardOnce'
  <2> DEFINE st == [sender[g] EXCEPT !.pc = "reconcile"]
  <2>1. /\ sender' = [sender EXCEPT ![g] = st]
        /\ st.healthy = sender[g].healthy /\ st.unproven = sender[g].unproven
    BY <1>0, <1>14 DEF SenderGrounded
  <2> HIDE DEF st
  <2> QED BY <1>0, <1>1, <1>2, <1>3, <1>14, <2>1
<1>15. ASSUME NEW previous \in App, NEW d \in App, Rollback(previous, d) PROVE HeardOnce'
  <2>1. \A e \in App : status[e] = "deploying" => status'[e] = "deploying"
    BY <1>0, <1>15 DEF Rollback, RecordRollback, DeployTypeOK
  <2> QED BY <1>0, <1>14, <1>15, <2>1 DEF Rollback, agentVars, wire
<1>16. ASSUME NEW h \in Named, ChangeHostname(h) PROVE HeardOnce'
  BY <1>0, <1>14, <1>16
  DEF ChangeHostname, RecordVerified, RecordRemoved, agentVars, wire
<1>6. ASSUME NEW d \in App, AskBuild(d) PROVE HeardOnce'
  <2>1. /\ sender' = [sender EXCEPT ![d] = Idle] /\ Idle.healthy = {} /\ Idle.unproven = {}
        /\ UNCHANGED <<up, pass>> /\ status[d] = "building"
    BY <1>6 DEF AskBuild, Idle, agentVars, YolInv, OrderedOnce
  <2>2. \A e \in App : status[e] = "deploying" => status'[e] = "deploying"
    BY <1>0, <1>6, <2>1 DEF AskBuild, RecordNotAsked, deployVars, DeployTypeOK
  <2> QED BY <1>0, <1>1, <1>2, <1>3, <2>1, <2>2
<1>7. ASSUME NEW g \in Goroutine, ReadSpec(g) \/ SendSpec(g) PROVE HeardOnce'
  <2> DEFINE read(c) == [sender[g] EXCEPT !.pc = "send", !.conn = c, !.spec = SpecFor]
             gone    == [sender[g] EXCEPT !.pc = "idle"]
             sent    == [sender[g] EXCEPT !.pc = "idle", !.conn = None, !.spec = NoSpec]
  <2>1. /\ \A c : read(c).healthy = sender[g].healthy /\ read(c).unproven = sender[g].unproven
        /\ gone.healthy = sender[g].healthy /\ gone.unproven = sender[g].unproven
        /\ sent.healthy = sender[g].healthy /\ sent.unproven = sender[g].unproven
    BY <1>0 DEF SenderGrounded
  <2>2. \E c, st : sender' = [sender EXCEPT ![g] = st] /\ st \in {read(c), gone, sent}
    BY <1>0, <1>7, ReadOrDone DEF SpecRead, SendSpec
  <2> HIDE DEF read, gone, sent
  <2>3. \A d \in App : InSender(d)' => InSender(d)
    BY <1>2, <2>1, <2>2
  <2> QED BY <1>1, <1>3, <1>7, <2>3
          DEF ReadSpec, SendSpec, agentVars, agentButFaults, deployVars, wire
<1>8. ASSUME NEW r \in Reader, TakeSpec(r) PROVE HeardOnce'
  <2> DEFINE st == [pass[r] EXCEPT !.pc = "read"]
  <2>1. /\ pass' = [pass EXCEPT ![r] = st] /\ r \in Pass
        /\ st.healthy = pass[r].healthy /\ st.unproven = pass[r].unproven
    BY <1>0, <1>8 DEF TakeSpec, Receive, Pass, AgentInv, AgentTypeOK, PassState
  <2> HIDE DEF st
  <2>2. \A d \in App : InPass(d)' => InPass(d)
    BY <1>0, <2>1 DEF InPass, AgentInv, AgentTypeOK
  <2> QED BY <1>1, <1>4, <1>8, <2>2 DEF TakeSpec, deployVars
<1>9. ASSUME NEW r \in Reader, TakeBuildResult(r) PROVE HeardOnce'
  <2>1. /\ Head(up).deployment \in App /\ status[Head(up).deployment] = "building"
        /\ UNCHANGED pass
    <3>1. Told(Head(up).deployment, 1) /\ Head(up).deployment \in App
      BY <1>0, <1>9, HeadUp DEF TakeBuildResult, Told, UpTyped, YolInv
    <3> QED BY <1>9, <3>1 DEF YolInv, OrderedOnce, TakeBuildResult, agentButFaults
  <2>2. \A e \in App : status[e] = "deploying" => status'[e] = "deploying"
    BY <1>0, <1>9, <2>1 DEF TakeBuildResult, RecordBuild, NotRecorded, DeployTypeOK
  <2> DEFINE st == [sender[r] EXCEPT !.pc = IF Head(up).succeeded THEN "reconcile" ELSE "idle"]
  <2>3. /\ sender' = [sender EXCEPT ![r] = st]
        /\ st.healthy = sender[r].healthy /\ st.unproven = sender[r].unproven
    BY <1>0, <1>9 DEF TakeBuildResult, NotRecorded, SenderGrounded
  <2> HIDE DEF st
  <2> QED BY <1>0, <1>1, <1>2, <1>3, <1>9, <2>1, <2>2, <2>3 DEF TakeBuildResult
<1>10. ASSUME NEW r \in Reader, Attach(r) PROVE HeardOnce'
  <2> DEFINE st == [sender[r] EXCEPT !.pc = "greet"]
  <2>1. /\ sender' = [sender EXCEPT ![r] = st]
        /\ st.healthy = sender[r].healthy /\ st.unproven = sender[r].unproven
    BY <1>0, <1>10 DEF Attach, SenderGrounded
  <2> HIDE DEF st
  <2> QED BY <1>0, <1>1, <1>2, <1>3, <1>10, <2>1 DEF Attach, Connect, deployVars
<1>11. ASSUME NEW d \in App, NEW ok \in BOOLEAN, FinishBuilding(d, ok) PROVE HeardOnce'
  BY <1>1, <1>3, <1>4, <1>11 DEF FinishBuilding, Say, agentVars, deployVars
<1>12. CASE AgentProceeds
  <2>0. UNCHANGED <<up, sender, status>>
    BY <1>12 DEF AgentProceeds, wire, deployVars
  <2>1. ASSUME NEW p \in Pass, PassStep(p) PROVE HeardOnce'
    <3>1. ASSUME NEW c \in Name, GateAnswers(p, c) \/ GateGivesUp(p, c) PROVE HeardOnce'
      BY <1>0, <2>0, <3>1, GateHeard, PassHandlesOwned
    <3>2. ASSUME \/ Begin(p) \/ Plan(p) \/ Sync(p) \/ Drain(p)
                 \/ \E c \in Name : TakeAway(p, c) \/ Create(p, c) \/ Retire(p, c)
          PROVE  HeardOnce'
      BY <1>0, <1>1, <1>4, <2>0, <3>2, PassHearsNoMore, PassHandlesOwned
    <3> QED BY <2>1, <3>1, <3>2 DEF PassStep
  <2>2. CASE MachineStep
    BY <1>1, <1>3, <1>4, <2>0, <2>2
    DEF MachineStep, Stops, ComesBack, Arrives, Finishes
  <2> QED BY <1>12, <2>1, <2>2 DEF AgentProceeds
<1>13. CASE UNCHANGED yolVars \/ \E r \in Reader : StartBuild(r) \/ Refuse(r) \/ Forget(r)
  BY <1>1, <1>3, <1>4, <1>13
  DEF yolVars, StartBuild, Refuse, Forget, agentVars, deployVars, wire
<1> QED
  BY <1>0, <1>5, <1>6, <1>7, <1>8, <1>9, <1>10, <1>11, <1>12, <1>13, <1>15, <1>16,
     ReportHeard, AppliedHeard, RecordedHeard
  DEF YolNext, Detach, Disconnect, AgentRestart, Restart, ServerRestart

(****************************************************************************)
(* Specifications reach the agent in the order they were worked out.        *)
(****************************************************************************)

\* What the record asks to run.
Out == {d \in App : status[d] \in {"live", "deploying"} /\ image[d]}

\* Of two specifications the later asks for every version the earlier did that is yet to
\* be known, K, and for no version that answered, A, that the earlier did not.
Follows(S, T, K, A) ==
    \A d \in App : /\ d \notin K /\ d \in S => d \in T
                   /\ d \in A /\ d \in T => d \in S

LEMMA FollowsOn ==
  ASSUME NEW S, NEW T, NEW R, NEW K, NEW A, Follows(S, T, K, A), Follows(T, R, K, A)
  PROVE  Follows(S, R, K, A)
  BY DEF Follows

LEMMA FollowsItself == \A S, K, A : Follows(S, S, K, A)
  BY DEF Follows

OnWay(i)   == i \in 1..Len(down) /\ down[i].type = "applySpec"
AskedIn(i) == Asked(down[i].spec)

\* What a pass works on, what is held, what is on the way, what is about to be sent and
\* what the record asks for: each follows all those before it.
SpecsInTurn ==
    /\ \A p \in Pass : UnderWay(p) =>
         Follows(Asked(pass[p].spec), Asked(held), Known, answered)
    /\ \A i \in Nat : OnWay(i) =>
         /\ Follows(Asked(held), AskedIn(i), Known, answered)
         /\ Follows(AskedIn(i), Out, Known, answered)
         /\ \A j \in Nat : OnWay(j) /\ i < j =>
              Follows(AskedIn(i), AskedIn(j), Known, answered)
    /\ \A g \in Goroutine : sender[g].pc = "send" =>
         /\ Follows(Asked(held), Asked(sender[g].spec), Known, answered)
         /\ Follows(Asked(sender[g].spec), Out, Known, answered)
         /\ \A i \in Nat : OnWay(i) =>
              Follows(AskedIn(i), Asked(sender[g].spec), Known, answered)
    /\ Follows(Asked(held), Out, Known, answered)

\* No goroutine has a specification to send that it had not before.
NothingRead ==
    \A g \in Goroutine : sender'[g].pc = "send" =>
        sender[g].pc = "send" /\ sender'[g].spec = sender[g].spec

\* A step that sends nothing new, and asks for what follows.
LEMMA SpecsStay ==
  ASSUME SpecsInTurn, UNCHANGED <<held, answered>>, UNCHANGED Known,
         \A p \in Pass : UnderWay(p)' =>
            Follows(Asked(pass'[p].spec), Asked(held), Known, answered),
         NEW k \in Nat,
         \A i \in Nat : OnWay(i)' => OnWay(i + k) /\ AskedIn(i)' = AskedIn(i + k),
         NothingRead,
         Follows(Out, Out', Known, answered)
  PROVE  SpecsInTurn'
<1>1. ASSUME NEW S, Follows(S, Out, Known, answered)
      PROVE  Follows(S, Out', Known, answered)
  BY <1>1, FollowsOn
<1>2. \A p \in Pass : UnderWay(p)' =>
         Follows(Asked(pass'[p].spec), Asked(held'), Known', answered')
  OBVIOUS
<1>3. ASSUME NEW i \in Nat, OnWay(i)'
      PROVE  /\ Follows(Asked(held'), AskedIn(i)', Known', answered')
             /\ Follows(AskedIn(i)', Out', Known', answered')
             /\ \A j \in Nat : OnWay(j)' /\ i < j =>
                  Follows(AskedIn(i)', AskedIn(j)', Known', answered')
  <2>1. i + k \in Nat /\ OnWay(i + k) /\ AskedIn(i)' = AskedIn(i + k)
    BY <1>3
  <2>2. \A j \in Nat : OnWay(j)' /\ i < j =>
           j + k \in Nat /\ i + k < j + k /\ OnWay(j + k) /\ AskedIn(j)' = AskedIn(j + k)
    OBVIOUS
  <2> QED BY <1>1, <2>1, <2>2 DEF SpecsInTurn
<1>4. ASSUME NEW g \in Goroutine, sender'[g].pc = "send"
      PROVE  /\ Follows(Asked(held'), Asked(sender'[g].spec), Known', answered')
             /\ Follows(Asked(sender'[g].spec), Out', Known', answered')
             /\ \A i \in Nat : OnWay(i)' =>
                  Follows(AskedIn(i)', Asked(sender'[g].spec), Known', answered')
  <2>1. sender[g].pc = "send" /\ sender'[g].spec = sender[g].spec
    BY <1>4 DEF NothingRead
  <2>2. \A i \in Nat : OnWay(i)' =>
           i + k \in Nat /\ OnWay(i + k) /\ AskedIn(i)' = AskedIn(i + k)
    OBVIOUS
  <2> QED BY <1>1, <2>1, <2>2 DEF SpecsInTurn
<1>5. Follows(Asked(held'), Out', Known', answered')
  BY <1>1 DEF SpecsInTurn
<1> QED BY <1>2, <1>3, <1>4, <1>5 DEF SpecsInTurn

\* A version is given up on, or answers: then it is asked for from the pass that
\* started it to the record.
LEMMA SpecsHeard ==
  ASSUME YolInv, InTurn, overlaps = 0, TriedOnce, SpecsInTurn, Grows, ~ Fault,
         NEW p \in Pass, NEW c \in Owned, GateAnswers(p, c) \/ GateGivesUp(p, c),
         UNCHANGED <<held, down, sender, Out>>
  PROVE  SpecsInTurn'
<1>0. /\ AgentInv /\ Untried(c) /\ c \in App /\ UnderWay(p)
      /\ \A i \in Nat : (OnWay(i)' <=> OnWay(i)) /\ AskedIn(i)' = AskedIn(i)
  BY CareHears
  DEF YolInv, GateAnswers, GateGivesUp, AllStarted, UnderWay, OnWay, AskedIn
<1>1. WorksOn /\ \A q \in Pass : UnderWay(q) => q = p
  BY <1>0, PassKeepsSpec, Alone
<1>2. ASSUME NEW S, NEW T, c \in S, Follows(S, T, Known, answered)
      PROVE  Follows(S, T, Known', answered')
  BY <1>0, <1>2 DEF Follows, Known, GateAnswers, GateGivesUp
<1>3. c \in Asked(pass[p].spec)
  BY <1>0 DEF GateAnswers, GateGivesUp, Gating, TriedOnce, Careful, UnderWay, Asked,
              AgentInv, BegunHasSpec
<1>4. c \in Asked(held)
  BY <1>0, <1>3 DEF SpecsInTurn, Follows, Untried
<1>5. \A i \in Nat : OnWay(i) => c \in AskedIn(i)
  BY <1>0, <1>4 DEF SpecsInTurn, Follows, Untried
<1>6. \A g \in Goroutine : sender[g].pc = "send" => c \in Asked(sender[g].spec)
  BY <1>0, <1>4 DEF SpecsInTurn, Follows, Untried
<1>7. \A q \in Pass : UnderWay(q)' =>
         Follows(Asked(pass'[q].spec), Asked(held'), Known', answered')
  BY <1>1, <1>2, <1>3 DEF WorksOn, SpecsInTurn
<1>8. ASSUME NEW i \in Nat, OnWay(i)'
      PROVE  /\ Follows(Asked(held'), AskedIn(i)', Known', answered')
             /\ Follows(AskedIn(i)', Out', Known', answered')
             /\ \A j \in Nat : OnWay(j)' /\ i < j =>
                  Follows(AskedIn(i)', AskedIn(j)', Known', answered')
  BY <1>0, <1>2, <1>4, <1>5, <1>8 DEF SpecsInTurn
<1>9. ASSUME NEW g \in Goroutine, sender'[g].pc = "send"
      PROVE  /\ Follows(Asked(held'), Asked(sender'[g].spec), Known', answered')
             /\ Follows(Asked(sender'[g].spec), Out', Known', answered')
             /\ \A i \in Nat : OnWay(i)' =>
                  Follows(AskedIn(i)', Asked(sender'[g].spec), Known', answered')
  BY <1>0, <1>2, <1>4, <1>5, <1>6, <1>9 DEF SpecsInTurn
<1>10. Follows(Asked(held'), Out', Known', answered')
  BY <1>2, <1>4 DEF SpecsInTurn
<1> QED BY <1>7, <1>8, <1>9, <1>10 DEF SpecsInTurn

\* Only a version that was asked for goes live.
LEMMA LiveWasOut ==
  ASSUME YolInv, OneConnection, TriedOnce, HeardOnce, [YolNext]_yolVars, Calm',
         NEW d \in App, status'[d] = "live"
  PROVE  d \in Out
<1>0. /\ ~ Fault /\ DeployTypeOK
      /\ status[d] = "live" => d \in Out
  BY CalmLasts
  DEF YolInv, DeployInv, WireGrounded, TriedOnce, RecordGrounded, Out, Built
<1>1. ASSUME NEW e \in App, \/ Deploy(e) \/ AskBuild(e)
                            \/ \E ok \in BOOLEAN : RecordBuild(e, ok)
      PROVE  d \in Out
  BY <1>0, <1>1
  DEF Deploy, AskBuild, RecordDeploy, RecordNotAsked, RecordBuild, deployVars, DeployTypeOK
<1>2. ASSUME NEW r \in Reader, TakeBuildResult(r) PROVE d \in Out
  <2>1. Head(up).deployment \in App /\ Head(up).succeeded \in BOOLEAN
    BY <1>2, HeadUp DEF TakeBuildResult, YolInv
  <2> QED BY <1>0, <1>1, <1>2, <2>1 DEF TakeBuildResult, NotRecorded
<1>3. ASSUME NEW r \in Reader, NEW e \in App, FinishRollout(r, e) PROVE d \in Out
  <2>1. status[e] = "deploying"
    BY <1>0, <1>3, RecordedHeard
  <2>2. e \in Out
    BY <1>0, <1>3, <2>1
    DEF Out, FinishRollout, YolInv, WireGrounded, SenderGrounded, Goroutine, Built
  <2>3. d = e \/ status[d] = "live"
    BY <1>0, <1>3 DEF FinishRollout, RecordRollout, NotRecorded, DeployTypeOK
  <2> QED BY <1>0, <2>2, <2>3
<1>6. ASSUME NEW previous \in App, NEW e \in App, Rollback(previous, e) PROVE d \in Out
  BY <1>0, <1>6 DEF Rollback, RecordRollback, DeployTypeOK
<1>4. \/ \E e \in App : Deploy(e) \/ AskBuild(e) \/ \E o \in App : Rollback(o, e)
      \/ \E r \in Reader : TakeBuildResult(r) \/ \E e \in App : FinishRollout(r, e)
      \/ UNCHANGED status
  <2>1. ASSUME NEW h \in Named, ChangeHostname(h) PROVE UNCHANGED status
    BY <2>1 DEF ChangeHostname, RecordVerified, RecordRemoved
  <2>2. ASSUME NEW g \in Goroutine, ReadSpec(g) \/ SendSpec(g) PROVE UNCHANGED status
    BY <2>2 DEF ReadSpec, SendSpec, deployVars
  <2>3. ASSUME NEW r \in Reader, \/ TakeSpec(r) \/ StartBuild(r) \/ Refuse(r)
                                 \/ TakeApplied(r) \/ Attach(r) \/ Forget(r)
        PROVE  UNCHANGED status
    BY <2>3 DEF TakeSpec, StartBuild, Refuse, TakeApplied, Attach, Forget, deployVars
  <2>4. ASSUME \/ \E e \in App, ok \in BOOLEAN : FinishBuilding(e, ok)
               \/ \E p \in Pass : ReportPass(p)
               \/ Detach \/ AgentRestart \/ ServerRestart \/ AgentProceeds
               \/ UNCHANGED yolVars
        PROVE  UNCHANGED status
    BY <2>4 DEF FinishBuilding, ReportPass, Detach, AgentRestart, ServerRestart,
                AgentProceeds, yolVars, deployVars
  <2> QED BY <2>1, <2>2, <2>3, <2>4 DEF YolNext
<1>5. CASE UNCHANGED status
  BY <1>0, <1>5
<1> QED BY <1>1, <1>2, <1>3, <1>4, <1>5, <1>6

\* What the record asks for next follows what it asked for.
LEMMA OutFollows ==
  ASSUME YolInv, OneConnection, TriedOnce, BuiltGoesOut, HeardOnce, [YolNext]_yolVars, Calm',
         UNCHANGED Known
  PROVE  Follows(Out, Out', Known, answered)
<1>0. /\ ~ Fault /\ RecordGrounded /\ DeployTypeOK /\ answered \subseteq Built
      /\ answered \subseteq Known
  BY CalmLasts DEF YolInv, DeployInv, TriedOnce, Known
<1>1. ASSUME \A d \in App : d \in Out => d \in Out' \/ d \in Known,
             \A d \in App : d \in Out' => d \in Out \/ d \notin answered
      PROVE  Follows(Out, Out', Known, answered)
  BY <1>1 DEF Follows
<1>2. CASE UNCHANGED deployVars
  BY <1>1, <1>2 DEF Out, deployVars
<1>3. ASSUME NEW d \in App, \/ RecordDeploy(d)
                            \/ status[d] = "building" /\ RecordNotAsked(d)
      PROVE  Follows(Out, Out', Known, answered)
  BY <1>0, <1>1, <1>3 DEF RecordDeploy, RecordNotAsked, Out, DeployTypeOK
<1>4. ASSUME NEW d \in App, NEW ok \in BOOLEAN, status[d] = "building", RecordBuild(d, ok)
      PROVE  Follows(Out, Out', Known, answered)
  <2>1. /\ \A e \in App \ {d} : status'[e] = status[e] /\ image'[e] = image[e]
        /\ d \notin Out /\ d \notin answered
    BY <1>0, <1>4 DEF RecordBuild, RecordGrounded, Out, DeployTypeOK
  <2> QED BY <1>1, <2>1 DEF Out
<1>5. ASSUME NEW d \in Built \cap answered, RecordRollout(d, TRUE), d \in Out
      PROVE  Follows(Out, Out', Known, answered)
  <2>1. /\ \A e \in App : e # d /\ status[e] # "live" => status'[e] = status[e]
        /\ \A e \in App : e # d /\ status[e] = "live" => status'[e] \in {"live", "superseded"}
        /\ UNCHANGED image
    BY <1>5 DEF RecordRollout
  <2>2. \A e \in App : status[e] = "live" => e \in Known
    BY <1>0 DEF RecordGrounded
  <2> QED BY <1>0, <1>1, <1>5, <2>1, <2>2 DEF Out
<1>6. ASSUME NEW d \in Built \cap silent, RecordRollout(d, FALSE)
      PROVE  Follows(Out, Out', Known, answered)
  <2>1. /\ \A e \in App \ {d} : status'[e] = status[e] /\ image'[e] = image[e]
        /\ status'[d] = "failed"
    BY <1>0, <1>6 DEF RecordRollout, DeployTypeOK, Built
  <2>2. d \in Known
    BY <1>6 DEF Known
  <2> QED BY <1>1, <2>1, <2>2 DEF Out
<1>7. ASSUME NEW previous \in App, NEW d \in App, RecordRollback(previous, d)
      PROVE  Follows(Out, Out', Known, answered)
  <2>1. /\ \A e \in App \ {d} : status'[e] = status[e] /\ image'[e] = image[e]
        /\ d \notin Out /\ d \notin answered
    BY <1>0, <1>7 DEF RecordRollback, RecordGrounded, Out, DeployTypeOK
  <2> QED BY <1>1, <2>1 DEF Out
<1>8. ASSUME NEW d \in Built \cap answered, RecordRollout(d, TRUE) PROVE d \in Out
  BY <1>8, LiveWasOut DEF RecordRollout, Built
<1>9. ASSUME NEW h \in Named, RecordVerified(h) \/ RecordRemoved(h)
      PROVE  Follows(Out, Out', Known, answered)
  BY <1>1, <1>9 DEF RecordVerified, RecordRemoved, Out
<1> QED BY <1>2, <1>3, <1>4, <1>5, <1>6, <1>7, <1>8, <1>9, RecordPartOf DEF RecordPart

\* What is on the way after the first message was taken, or another added.
LEMMA OnWayTail ==
  ASSUME DownTyped, down # <<>>, down' = Tail(down), NEW i \in Nat, OnWay(i)'
  PROVE  OnWay(i + 1) /\ AskedIn(i)' = AskedIn(i + 1) /\ 1 < i + 1
<1>1. i \in 1..Len(Tail(down)) /\ Tail(down)[i] = down[i + 1] /\ i + 1 \in 1..Len(down)
  BY DEF DownTyped, OnWay
<1> QED BY <1>1 DEF OnWay, AskedIn

LEMMA OnWayAppend ==
  ASSUME DownTyped, NEW m, down' = Append(down, m), NEW i \in Nat, OnWay(i)'
  PROVE  \/ OnWay(i) /\ AskedIn(i)' = AskedIn(i)
         \/ /\ i = Len(down) + 1 /\ m.type = "applySpec"
            /\ AskedIn(i)' = Asked(m.spec)
<1>1. \/ i \in 1..Len(down) /\ Append(down, m)[i] = down[i]
      \/ i = Len(down) + 1 /\ Append(down, m)[i] = m
  BY DEF DownTyped, OnWay
<1> QED BY <1>1 DEF OnWay, AskedIn

\* A managed server is asked for all the record has out.
LEMMA SpecForAsksOut ==
  ASSUME DeployInv, ServerMode = "managed" PROVE Asked(SpecFor) = Out
<1>1. SpecFor # NoSpec
  BY SpecForIsBuilt, SpecsTyped DEF BuiltSpecs
<1>2. SpecFor.want = (UNION {Placed(s) : s \in Service})
                       \cup (IF Takeover THEN {Router} ELSE {})
  BY DEF SpecFor
<1>3. (UNION {Placed(s) : s \in Service}) = Out
  BY ServicesKnown DEF Placed, Out
<1>4. Out \subseteq App /\ Router \notin App
  BY NamesDistinct DEF Out
<1> QED BY <1>1, <1>2, <1>3, <1>4 DEF Asked

\* A step that tells of no version and sends the agent no specification.
LEMMA SpecsRest ==
  ASSUME YolInv, OneConnection, TriedOnce, BuiltGoesOut, HeardOnce, SpecsInTurn,
         [YolNext]_yolVars, Calm',
         UNCHANGED <<held, answered, silent>>, WorksOn, NothingRead,
         \/ UNCHANGED down
         \/ down # <<>> /\ down' = Tail(down)
         \/ \E d : down' = Append(down, Build(d))
  PROVE  SpecsInTurn'
<1>0. DownTyped /\ UNCHANGED Known /\ Follows(Out, Out', Known, answered)
  <2>1. UNCHANGED Known
    BY DEF Known
  <2> QED BY <2>1, OutFollows DEF YolInv, WireGrounded, DownTyped
<1>1. \A p \in Pass : UnderWay(p)' =>
         Follows(Asked(pass'[p].spec), Asked(held), Known, answered)
  BY DEF SpecsInTurn, WorksOn
<1>2. ASSUME NEW k \in Nat,
             \A i \in Nat : OnWay(i)' => OnWay(i + k) /\ AskedIn(i)' = AskedIn(i + k)
      PROVE  SpecsInTurn'
  BY <1>0, <1>1, <1>2, SpecsStay
<1>3. CASE UNCHANGED down
  <2>1. \A i \in Nat : OnWay(i)' => OnWay(i + 0) /\ AskedIn(i)' = AskedIn(i + 0)
    BY <1>3 DEF OnWay, AskedIn
  <2> QED BY <1>2, <2>1
<1>4. CASE down # <<>> /\ down' = Tail(down)
  <2>1. \A i \in Nat : OnWay(i)' => OnWay(i + 1) /\ AskedIn(i)' = AskedIn(i + 1)
    BY <1>0, <1>4, OnWayTail
  <2> QED BY <1>2, <2>1
<1>5. ASSUME NEW d, down' = Append(down, Build(d)) PROVE SpecsInTurn'
  <2>1. \A i \in Nat : OnWay(i)' => OnWay(i) /\ AskedIn(i)' = AskedIn(i)
    BY <1>0, <1>5, OnWayAppend DEF Build
  <2>2. \A i \in Nat : OnWay(i)' => OnWay(i + 0) /\ AskedIn(i)' = AskedIn(i + 0)
    BY <2>1
  <2> QED BY <1>2, <2>2
<1> QED BY <1>3, <1>4, <1>5

\* A pass begins with what is held.
LEMMA SpecsBegin ==
  ASSUME YolInv, InTurn, OneConnection, TriedOnce, BuiltGoesOut, HeardOnce, SpecsInTurn,
         [YolNext]_yolVars, Calm', NEW p \in Pass, Begin(p), UNCHANGED <<down, sender>>
  PROVE  SpecsInTurn'
<1>0. /\ overlaps = 0 /\ overlaps' = 0 /\ UNCHANGED <<held, answered, silent>>
      /\ UNCHANGED Known
  BY CalmLasts DEF Calm, Begin, memory, Known
<1>1. /\ \A q \in Pass : UnderWay(q)' => q = p
      /\ pass'[p].spec = held
  BY <1>0 DEF Begin, UnderWay, IdlePass, YolInv, AgentInv, AgentTypeOK
<1>2. \A q \in Pass : UnderWay(q)' =>
         Follows(Asked(pass'[q].spec), Asked(held), Known, answered)
  BY <1>1, FollowsItself
<1>3. \A i \in Nat : OnWay(i)' => OnWay(i + 0) /\ AskedIn(i)' = AskedIn(i + 0)
  BY DEF OnWay, AskedIn
<1>4. NothingRead /\ Follows(Out, Out', Known, answered)
  BY <1>0, OutFollows DEF NothingRead
<1> QED BY <1>0, <1>2, <1>3, <1>4, SpecsStay

\* What is taken is what was next.
LEMMA SpecsTaken ==
  ASSUME YolInv, SpecsInTurn, NEW r \in Reader, TakeSpec(r)
  PROVE  SpecsInTurn'
<1>0. /\ DownTyped /\ AgentInv /\ down # <<>> /\ down' = Tail(down)
      /\ OnWay(1) /\ Asked(held') = AskedIn(1)
      /\ UNCHANGED <<answered, sender, Out>> /\ UNCHANGED Known
      /\ r \in Pass
  BY HeadDown
  DEF YolInv, WireGrounded, DownTyped, TakeSpec, Receive, history, deployVars, Out, Known,
      OnWay, AskedIn, Pass
<1>1. WorksOn
  BY <1>0 DEF TakeSpec, Receive, WorksOn, UnderWay, AgentInv, AgentTypeOK, PassState
<1>2. \A i \in Nat : OnWay(i)' =>
         i + 1 \in Nat /\ OnWay(i + 1) /\ AskedIn(i)' = AskedIn(i + 1) /\ 1 < i + 1
  BY <1>0, OnWayTail
<1>3. \A p \in Pass : UnderWay(p)' =>
         Follows(Asked(pass'[p].spec), Asked(held'), Known', answered')
  <2>1. Follows(Asked(held), AskedIn(1), Known, answered)
    BY <1>0 DEF SpecsInTurn
  <2> QED BY <1>0, <1>1, <2>1, FollowsOn DEF WorksOn, SpecsInTurn
<1>4. ASSUME NEW i \in Nat, OnWay(i)'
      PROVE  /\ Follows(Asked(held'), AskedIn(i)', Known', answered')
             /\ Follows(AskedIn(i)', Out', Known', answered')
             /\ \A j \in Nat : OnWay(j)' /\ i < j =>
                  Follows(AskedIn(i)', AskedIn(j)', Known', answered')
  <2>1. i + 1 \in Nat /\ OnWay(i + 1) /\ AskedIn(i)' = AskedIn(i + 1) /\ 1 < i + 1
    BY <1>2, <1>4
  <2>2. \A j \in Nat : OnWay(j)' /\ i < j =>
           j + 1 \in Nat /\ i + 1 < j + 1 /\ OnWay(j + 1) /\ AskedIn(j)' = AskedIn(j + 1)
    BY <1>2
  <2> QED BY <1>0, <2>1, <2>2 DEF SpecsInTurn
<1>5. ASSUME NEW g \in Goroutine, sender'[g].pc = "send"
      PROVE  /\ Follows(Asked(held'), Asked(sender'[g].spec), Known', answered')
             /\ Follows(Asked(sender'[g].spec), Out', Known', answered')
             /\ \A i \in Nat : OnWay(i)' =>
                  Follows(AskedIn(i)', Asked(sender'[g].spec), Known', answered')
  BY <1>0, <1>2, <1>5 DEF SpecsInTurn
<1>6. Follows(Asked(held'), Out', Known', answered')
  BY <1>0 DEF SpecsInTurn
<1> QED BY <1>3, <1>4, <1>5, <1>6 DEF SpecsInTurn

\* What is sent comes after all that is on the way, and is all there was to send.
LEMMA SpecsSent ==
  ASSUME YolInv, OneConnection, SpecsInTurn, order = "kept", NEW g \in Goroutine, SendSpec(g)
  PROVE  SpecsInTurn'
<1>0. /\ DownTyped /\ sender[g].pc = "send"
      /\ down' = Append(down, ApplySpec(sender[g].spec))
      /\ UNCHANGED <<held, answered, pass, Out>> /\ UNCHANGED Known
      /\ sender \in [Goroutine -> SenderGrounded(Built, answered, silent)]
  BY DEF YolInv, WireGrounded, DownTyped, SendSpec, OneConnection, agentVars, deployVars,
         Out, Known
<1>1. \A h \in Goroutine : sender'[h].pc # "send"
  <2> DEFINE st == [sender[g] EXCEPT !.pc = "idle", !.conn = None, !.spec = NoSpec]
  <2>1. sender' = [sender EXCEPT ![g] = st] /\ st.pc = "idle"
    BY <1>0 DEF SendSpec, SenderGrounded
  <2>2. \A h \in Goroutine : sender[h].pc = "send" => h = g
    BY <1>0 DEF YolInv, InOrder
  <2> HIDE DEF st
  <2> QED BY <1>0, <2>1, <2>2
<1>2. \A i \in Nat : OnWay(i)' =>
         \/ OnWay(i) /\ AskedIn(i)' = AskedIn(i)
         \/ i = Len(down) + 1 /\ AskedIn(i)' = Asked(sender[g].spec)
  BY <1>0, OnWayAppend DEF ApplySpec
<1>3. (\A i \in Nat : OnWay(i) => i < Len(down) + 1) /\ Len(down) \in Nat
  BY <1>0 DEF OnWay, DownTyped
<1>4. \A p \in Pass : UnderWay(p)' =>
         Follows(Asked(pass'[p].spec), Asked(held'), Known', answered')
  BY <1>0 DEF SpecsInTurn, UnderWay
<1>5. ASSUME NEW i \in Nat, OnWay(i)'
      PROVE  /\ Follows(Asked(held'), AskedIn(i)', Known', answered')
             /\ Follows(AskedIn(i)', Out', Known', answered')
             /\ \A j \in Nat : OnWay(j)' /\ i < j =>
                  Follows(AskedIn(i)', AskedIn(j)', Known', answered')
  <2>1. CASE OnWay(i) /\ AskedIn(i)' = AskedIn(i)
    <3>1. \A j \in Nat : OnWay(j)' /\ i < j =>
             Follows(AskedIn(i), AskedIn(j)', Known, answered)
      BY <1>0, <1>2, <2>1 DEF SpecsInTurn
    <3> QED BY <1>0, <2>1, <3>1 DEF SpecsInTurn
  <2>2. CASE i = Len(down) + 1 /\ AskedIn(i)' = Asked(sender[g].spec)
    <3>1. \A j \in Nat : ~ (OnWay(j)' /\ i < j)
      BY <1>2, <1>3, <2>2
    <3> QED BY <1>0, <2>2, <3>1 DEF SpecsInTurn
  <2> QED BY <1>2, <1>5, <2>1, <2>2
<1>6. Follows(Asked(held'), Out', Known', answered')
  BY <1>0 DEF SpecsInTurn
<1> QED BY <1>1, <1>4, <1>5, <1>6 DEF SpecsInTurn

\* What is read is what the record asks for.
LEMMA SpecsRead ==
  ASSUME YolInv, SpecsInTurn, ServerMode = "managed", NEW g \in Goroutine, ReadSpec(g)
  PROVE  SpecsInTurn'
<1>0. /\ UNCHANGED <<held, answered, pass, down, Out>> /\ UNCHANGED Known
      /\ sender \in [Goroutine -> SenderGrounded(Built, answered, silent)]
  BY DEF YolInv, WireGrounded, ReadSpec, wire, agentButFaults, memory, history, deployVars,
         Out, Known
<1>1. \A h \in Goroutine : sender'[h].pc = "send" =>
         \/ sender[h].pc = "send" /\ sender'[h].spec = sender[h].spec
         \/ sender'[h].spec = SpecFor
  <2> DEFINE read(c) == [sender[g] EXCEPT !.pc = "send", !.conn = c, !.spec = SpecFor]
             gone    == [sender[g] EXCEPT !.pc = "idle"]
  <2>1. (\A c : read(c).spec = SpecFor) /\ gone.pc = "idle"
    BY <1>0 DEF SenderGrounded
  <2>2. \E c, st : sender' = [sender EXCEPT ![g] = st] /\ st \in {read(c), gone}
    BY <1>0, ReadOrDone DEF SpecRead, YolInv
  <2> HIDE DEF read, gone
  <2> QED BY <1>0, <2>1, <2>2
<1>2. Asked(SpecFor) = Out
  BY SpecForAsksOut DEF YolInv
<1>3. \A i \in Nat : (OnWay(i)' <=> OnWay(i)) /\ AskedIn(i)' = AskedIn(i)
  BY <1>0 DEF OnWay, AskedIn
<1>4. \A p \in Pass : UnderWay(p)' =>
         Follows(Asked(pass'[p].spec), Asked(held'), Known', answered')
  BY <1>0 DEF SpecsInTurn, UnderWay
<1>5. \A i \in Nat : OnWay(i)' =>
         /\ Follows(Asked(held'), AskedIn(i)', Known', answered')
         /\ Follows(AskedIn(i)', Out', Known', answered')
         /\ \A j \in Nat : OnWay(j)' /\ i < j =>
              Follows(AskedIn(i)', AskedIn(j)', Known', answered')
  BY <1>0, <1>3 DEF SpecsInTurn
<1>6. ASSUME NEW h \in Goroutine, sender'[h].pc = "send"
      PROVE  /\ Follows(Asked(held'), Asked(sender'[h].spec), Known', answered')
             /\ Follows(Asked(sender'[h].spec), Out', Known', answered')
             /\ \A i \in Nat : OnWay(i)' =>
                  Follows(AskedIn(i)', Asked(sender'[h].spec), Known', answered')
  <2>1. CASE sender[h].pc = "send" /\ sender'[h].spec = sender[h].spec
    BY <1>0, <1>3, <2>1 DEF SpecsInTurn
  <2>2. CASE sender'[h].spec = SpecFor
    BY <1>0, <1>2, <1>3, <2>2, FollowsItself DEF SpecsInTurn
  <2> QED BY <1>1, <1>6, <2>1, <2>2
<1>7. Follows(Asked(held'), Out', Known', answered')
  BY <1>0 DEF SpecsInTurn
<1> QED BY <1>4, <1>5, <1>6, <1>7 DEF SpecsInTurn

LEMMA SpecsInTurnStays ==
  ASSUME YolInv, InTurn, TriedOnce, OneConnection, BuiltGoesOut, HeardOnce, SpecsInTurn,
         [YolNext]_yolVars, Calm'
  PROVE  SpecsInTurn'
<1>0. /\ ~ Fault /\ order = "kept" /\ overlaps = 0 /\ Grows
      /\ ServerMode = "managed" /\ AgentInv
      /\ sender \in [Goroutine -> SenderGrounded(Built, answered, silent)]
      /\ Reader \subseteq Goroutine /\ App \subseteq Goroutine /\ Named \subseteq Goroutine
  BY CalmLasts, AllGrows DEF Calm, YolInv, WireGrounded, Goroutine
<1>1. UNCHANGED pass => WorksOn
  BY DEF WorksOn, UnderWay
<1>2. UNCHANGED sender => NothingRead
  BY DEF NothingRead
<1>3. ASSUME NEW g \in Goroutine, NEW st, sender' = [sender EXCEPT ![g] = st],
             st.pc = "send" => sender[g].pc = "send" /\ st.spec = sender[g].spec
      PROVE  NothingRead
  BY <1>0, <1>3 DEF NothingRead
<1>4. ASSUME NEW d \in App, Deploy(d) PROVE SpecsInTurn'
  <2> DEFINE st == [sender[d] EXCEPT !.pc = "build"]
  <2>1. sender' = [sender EXCEPT ![d] = st] /\ st.pc # "send"
    BY <1>0, <1>4 DEF Deploy, SenderGrounded
  <2> HIDE DEF st
  <2>2. NothingRead
    BY <1>0, <1>3, <2>1
  <2> QED BY <1>1, <1>4, <2>2, SpecsRest DEF Deploy, agentVars, wire
<1>15. ASSUME NEW g \in Goroutine, sender' = [sender EXCEPT ![g].pc = "reconcile"]
       PROVE  NothingRead
  <2> DEFINE st == [sender[g] EXCEPT !.pc = "reconcile"]
  <2>1. sender' = [sender EXCEPT ![g] = st] /\ st.pc # "send"
    BY <1>0, <1>15 DEF SenderGrounded
  <2> HIDE DEF st
  <2> QED BY <1>3, <2>1
<1>16. ASSUME NEW previous \in App, NEW d \in App, Rollback(previous, d) PROVE SpecsInTurn'
  BY <1>0, <1>1, <1>15, <1>16, SpecsRest DEF Rollback, agentVars, wire
<1>17. ASSUME NEW h \in Named, ChangeHostname(h) PROVE SpecsInTurn'
  BY <1>0, <1>1, <1>15, <1>17, SpecsRest DEF ChangeHostname, agentVars, wire
<1>5. ASSUME NEW d \in App, AskBuild(d) PROVE SpecsInTurn'
  <2>1. NothingRead
    BY <1>0, <1>3, <1>5 DEF AskBuild, Idle
  <2>2. UNCHANGED down \/ \E e : down' = Append(down, Build(e))
    BY <1>5 DEF AskBuild
  <2> QED BY <1>1, <1>5, <2>1, <2>2, SpecsRest DEF AskBuild, agentVars
<1>6. ASSUME NEW r \in Reader, TakeBuildResult(r) PROVE SpecsInTurn'
  <2> DEFINE st == [sender[r] EXCEPT !.pc = IF Head(up).succeeded THEN "reconcile" ELSE "idle"]
  <2>1. sender' = [sender EXCEPT ![r] = st] /\ st.pc # "send"
    BY <1>0, <1>6 DEF TakeBuildResult, NotRecorded, SenderGrounded
  <2> HIDE DEF st
  <2>2. NothingRead
    BY <1>0, <1>3, <2>1
  <2> QED BY <1>1, <1>6, <2>2, SpecsRest
          DEF TakeBuildResult, agentButFaults, memory, history
<1>7. ASSUME NEW r \in Reader, TakeApplied(r) PROVE SpecsInTurn'
  <2> DEFINE st == [sender[r] EXCEPT !.healthy = Head(up).healthy,
                                     !.unproven = Head(up).unproven]
  <2>1. sender' = [sender EXCEPT ![r] = st] /\ st.pc = "idle"
    BY <1>0, <1>7 DEF TakeApplied, Listening, SenderGrounded
  <2> HIDE DEF st
  <2>2. NothingRead
    BY <1>0, <1>3, <2>1
  <2> QED BY <1>1, <1>7, <2>2, SpecsRest DEF TakeApplied, agentVars
<1>8. ASSUME NEW r \in Reader, NEW d \in App, FinishRollout(r, d) PROVE SpecsInTurn'
  <2> DEFINE heard    == [sender[r] EXCEPT !.healthy = @ \ {d}, !.pc = "reconcile"]
             silenced == [sender[r] EXCEPT !.unproven = @ \ {d}]
  <2>1. PICK st \in {heard, silenced} : sender' = [sender EXCEPT ![r] = st]
    BY <1>0, <1>8 DEF FinishRollout, NotRecorded
  <2>2. heard.pc = "reconcile" /\ silenced.pc = "idle"
    BY <1>0, <1>8 DEF FinishRollout, SenderGrounded
  <2> HIDE DEF heard, silenced
  <2>3. NothingRead
    BY <1>0, <1>3, <2>1, <2>2
  <2> QED BY <1>1, <1>8, <2>3, SpecsRest
          DEF FinishRollout, agentButFaults, memory, history, wire
<1>9. ASSUME NEW r \in Reader, Attach(r) PROVE SpecsInTurn'
  <2> DEFINE st == [sender[r] EXCEPT !.pc = "greet"]
  <2>1. sender' = [sender EXCEPT ![r] = st] /\ st.pc = "greet"
    BY <1>0, <1>9 DEF Attach, SenderGrounded
  <2> HIDE DEF st
  <2>2. NothingRead
    BY <1>0, <1>3, <2>1
  <2> QED BY <1>1, <1>9, <2>2, SpecsRest DEF Attach, Connect, history
<1>10. ASSUME NEW r \in Reader, StartBuild(r) \/ Refuse(r) \/ Forget(r) PROVE SpecsInTurn'
  BY <1>1, <1>2, <1>10, SpecsRest DEF StartBuild, Refuse, Forget, agentVars
<1>11. ASSUME NEW d \in App, NEW ok \in BOOLEAN, FinishBuilding(d, ok) PROVE SpecsInTurn'
  BY <1>1, <1>2, <1>11, SpecsRest DEF FinishBuilding, agentVars
<1>12. ASSUME NEW p \in Pass, ReportPass(p) PROVE SpecsInTurn'
  <2>1. WorksOn
    BY <1>0, <1>12, PassKeepsSpec DEF ReportPass
  <2> QED BY <1>2, <1>12, <2>1, SpecsRest DEF ReportPass, Report, memory, history
<1>13. CASE AgentProceeds
  <2>0. UNCHANGED <<down, sender, status, image>>
    BY <1>13 DEF AgentProceeds, wire, deployVars
  <2>1. ASSUME NEW p \in Pass, PassStep(p) PROVE SpecsInTurn'
    <3>1. CASE Begin(p)
      BY <2>0, <3>1, SpecsBegin
    <3>2. ASSUME NEW c \in Owned, GateAnswers(p, c) \/ GateGivesUp(p, c)
          PROVE  SpecsInTurn'
      <4>1. UNCHANGED <<held, Out>>
        BY <2>0, <3>2 DEF GateAnswers, GateGivesUp, memory, Out
      <4> QED BY <1>0, <2>0, <3>2, <4>1, SpecsHeard
    <3>3. ASSUME \/ Plan(p) \/ Sync(p) \/ Drain(p)
                 \/ \E c \in Owned : TakeAway(p, c) \/ Create(p, c) \/ Retire(p, c)
          PROVE  SpecsInTurn'
      <4>1. WorksOn
        BY <1>0, <3>3, PassKeepsSpec
      <4>2. UNCHANGED <<held, answered, silent>>
        BY <3>3 DEF Plan, Sync, Drain, TakeAway, Create, Retire, memory, history
      <4> QED BY <1>2, <2>0, <4>1, <4>2, SpecsRest
    <3> QED BY <1>0, <2>1, <3>1, <3>2, <3>3, PassHandlesOwned DEF PassStep
  <2>2. CASE MachineStep
    <3>1. UNCHANGED <<pass, held, answered, silent>>
      BY <2>2 DEF MachineStep, Stops, ComesBack, Arrives, Finishes, memory, history
    <3> QED BY <1>1, <1>2, <2>0, <3>1, SpecsRest
  <2> QED BY <1>13, <2>1, <2>2 DEF AgentProceeds
<1>14. CASE UNCHANGED yolVars
  BY <1>1, <1>2, <1>14, SpecsRest DEF yolVars, agentVars, wire
<1> QED
  BY <1>0, <1>4, <1>5, <1>6, <1>7, <1>8, <1>9, <1>10, <1>11, <1>12, <1>13, <1>14,
     <1>16, <1>17, SpecsTaken, SpecsSent, SpecsRead
  DEF YolNext, Detach, Disconnect, AgentRestart, Restart, ServerRestart

(****************************************************************************)
(* A service that is live is not dark.                                      *)
(****************************************************************************)

\* All of it, for as long as nothing goes wrong.
CalmInv ==
    /\ InTurn
    /\ Calm => /\ TriedOnce /\ AnsweredRun /\ OneConnection
               /\ BuiltGoesOut /\ HeardOnce /\ SpecsInTurn

LEMMA InitCalmInv == YolInit => CalmInv
<1> SUFFICES ASSUME YolInit PROVE CalmInv
  OBVIOUS
<1>0. /\ pass = [p \in Pass |-> IdlePass] /\ answered = {} /\ silent = {} /\ abandoned = {}
      /\ held = NoSpec /\ overlaps = 0 /\ down = <<>> /\ up = <<>> /\ hub = session
      /\ sender = [g \in Goroutine |-> Idle]
      /\ \A c \in Owned : docker[c] = "absent"
      /\ \A d \in App : image[d] = FALSE
  BY DEF YolInit, AgentInit, DeployInit, Name, Owned
<1>1. InTurn
  BY <1>0 DEF InTurn, UnderWay, IdlePass
<1>2. TriedOnce /\ AnsweredRun
  BY <1>0 DEF TriedOnce, AnsweredRun, Careful, IdlePass
<1>3. OneConnection
  BY <1>0 DEF OneConnection, Idle
<1>4. BuiltGoesOut
  BY <1>0 DEF BuiltGoesOut, Built
<1>5. HeardOnce
  <2>1. \A d \in App : ~ InPass(d) /\ ~ InSender(d) /\ \A i \in Nat : ~ InUp(d, i)
    <3>1. \A d \in App, i \in Nat : ~ InUp(d, i)
      BY <1>0 DEF InUp
    <3>2. \A d \in App : ~ InPass(d)
      BY <1>0 DEF InPass, IdlePass
    <3>3. \A d \in App : ~ InSender(d)
      BY <1>0 DEF InSender, Idle
    <3> QED BY <3>1, <3>2, <3>3
  <2> QED BY <2>1 DEF HeardOnce
<1>6. SpecsInTurn
  <2>1. /\ \A p \in Pass : ~ UnderWay(p)
        /\ \A i \in Nat : ~ OnWay(i)
        /\ \A g \in Goroutine : sender[g].pc # "send"
    BY <1>0 DEF UnderWay, IdlePass, OnWay, Idle
  <2>2. Follows(Asked(held), Out, Known, answered)
    BY <1>0 DEF Follows, Out, Asked
  <2> QED BY <2>1, <2>2 DEF SpecsInTurn
<1> QED BY <1>1, <1>2, <1>3, <1>4, <1>5, <1>6 DEF CalmInv

LEMMA CalmInvStays == ASSUME YolInv, CalmInv, [YolNext]_yolVars PROVE CalmInv'
<1>1. InTurn'
  BY TurnLasts DEF CalmInv
<1>2. ASSUME Calm'
      PROVE  (TriedOnce /\ AnsweredRun /\ OneConnection /\ BuiltGoesOut /\ HeardOnce
                /\ SpecsInTurn)'
  <2>1. /\ InTurn /\ TriedOnce /\ AnsweredRun /\ OneConnection /\ BuiltGoesOut
        /\ HeardOnce /\ SpecsInTurn
    BY <1>2, CalmLasts DEF CalmInv
  <2>2. /\ \A d \in answered : d \in Asked(held') => d \in Asked(held)
        /\ \A p \in Pass, d \in answered :
             UnderWay(p) /\ d \in Asked(held) => d \in Asked(pass[p].spec)
    <3>1. answered \subseteq App
      BY DEF YolInv, AgentInv, AgentTypeOK
    <3>2. \A p \in Pass, d \in answered :
             UnderWay(p) /\ d \in Asked(held) => d \in Asked(pass[p].spec)
      BY <2>1, <3>1 DEF SpecsInTurn, Follows
    <3>3. UNCHANGED held \/ \E r \in Reader : TakeSpec(r)
      <4>1. ASSUME NEW p \in Pass, PassStep(p) PROVE UNCHANGED held
        BY <4>1 DEF PassStep, Begin, Plan, Sync, Drain, TakeAway, Create, GateAnswers,
                    GateGivesUp, Retire, memory
      <4>2. ASSUME MachineStep PROVE UNCHANGED held
        BY <4>2 DEF MachineStep, Stops, ComesBack, Arrives, Finishes, memory
      <4>3. ASSUME \/ \E r \in Reader : \/ TakeBuildResult(r) \/ Attach(r)
                                        \/ \E d \in App : FinishRollout(r, d)
                   \/ \E p \in Pass : ReportPass(p)
                   \/ Detach \/ ServerRestart
            PROVE  UNCHANGED held
        BY <4>3 DEF TakeBuildResult, Attach, Connect, FinishRollout, ReportPass, Report,
                    Detach, Disconnect, ServerRestart, agentButFaults, memory
      <4>4. ~ AgentRestart
        BY <1>2, CalmLasts DEF AgentRestart, Restart
      <4> QED
        BY <4>1, <4>2, <4>3, <4>4
        DEF YolNext, yolVars, agentVars, AgentProceeds, Deploy, AskBuild, Rollback,
            ChangeHostname, ReadSpec, agentButFaults, memory, SendSpec, StartBuild, Refuse,
            TakeApplied, Forget, FinishBuilding
    <3>4. ASSUME NEW r \in Reader, TakeSpec(r)
          PROVE  \A d \in answered : d \in Asked(held') => d \in Asked(held)
      <4>1. OnWay(1) /\ held' = down[1].spec
        BY <3>4, HeadDown DEF TakeSpec, Receive, OnWay, YolInv, WireGrounded
      <4>2. Follows(Asked(held), Asked(held'), Known, answered)
        BY <2>1, <4>1 DEF SpecsInTurn, AskedIn
      <4> QED BY <3>1, <4>2 DEF Follows
    <3> QED BY <3>2, <3>3, <3>4
  <2> QED
    BY <1>2, <2>1, <2>2, TriedOnceStays, AnsweredRunStays, OneConnectionStays,
       BuiltStaysOut, HeardOnceStays, SpecsInTurnStays
    DEF Calm
<1> QED BY <1>1, <1>2 DEF CalmInv

\* A server that is only watched has nothing live.
LEMMA WatchedHasNoLive ==
  ASSUME YolInv, ServerMode = "watch", [YolNext]_yolVars, answered = {}
  PROVE  answered' = {}
<1>1. ASSUME NEW p \in Pass, PassStep(p) PROVE FALSE
  BY <1>1 DEF YolInv, WatchIdle, PassStep, Begin, Plan, Sync, Drain, TakeAway, Create,
              GateAnswers, GateGivesUp, Retire, AllStarted
<1>2. ASSUME MachineStep PROVE UNCHANGED answered
  BY <1>2 DEF MachineStep, Stops, ComesBack, Arrives, Finishes, history
<1> QED
  BY <1>1, <1>2, AgentPartOf
  DEF AgentPart, Elsewhere, Receive, Report, Connect, Disconnect, Restart, history

\* Until something goes wrong, passes overlap or a specification is read while another is
\* being handed over, a service that is live has a version running that has answered,
\* through every deploy, rollback and change of a hostname (reconcile.go apply, "The order
\* is the whole of what makes a deploy free of dropped requests").
THEOREM LitUntilTrouble == YolSpec => []NeverDark
<1> DEFINE Idling == ServerMode = "watch" => answered = {}
<1>1. YolInit => YolInv /\ CalmInv /\ Idling
  BY InitYolInv, InitCalmInv DEF YolInit, AgentInit
<1>2. ASSUME YolInv, CalmInv, Idling, [YolNext]_yolVars
      PROVE  YolInv' /\ CalmInv' /\ Idling'
  BY <1>2, YolNextKeeps, CalmInvStays, WatchedHasNoLive
<1>3. ASSUME YolInv, CalmInv, Idling PROVE NeverDark
  <2> SUFFICES ASSUME faults = 0, overlaps = 0, order = "kept",
                      NEW d \in App, status[d] = "live"
      PROVE  d \in answered /\ docker[d] = "running"
    BY DEF NeverDark
  <2>1. d \in answered /\ d \in Out
    BY <1>3 DEF YolInv, RecordGrounded, AgentGrounded, Out, Built, CalmInv, Calm, TriedOnce,
                ModeKnown
  <2>2. /\ AnsweredRun /\ Follows(Asked(held), Out, Known, answered)
    BY <1>3, <2>1, ModeKnown DEF CalmInv, Calm, SpecsInTurn
  <2>3. d \in Asked(held)
    BY <2>1, <2>2 DEF Follows
  <2> QED BY <2>1, <2>2, <2>3 DEF AnsweredRun
<1> QED BY <1>1, <1>2, <1>3, PTL DEF YolSpec

(****************************************************************************)
(* What the agent gets right under any control plane it gets right under    *)
(* the real one, though the whole has faults that are not the agent's.      *)
(****************************************************************************)

\* A step that is not the agent's leaves it as it was, but that more may have failed.
LEMMA ElsewhereIsNothing ==
  ASSUME YolInv, TrafficInv, Elsewhere, [YolNext]_yolVars PROVE TrafficInv'
<1>1. faults' = 0 => faults = 0
  BY FaultlessLasts
<1>2. UNCHANGED <<pass, docker, routes, overlaps, answered, silent>>
  BY DEF Elsewhere, memory, machine, history
<1>3. InTurn'
  BY TurnLasts DEF TrafficInv
<1>4. Unwanted' /\ RouterForgets' /\ TrafficMoved'
  BY <1>1, <1>2 DEF TrafficInv, Unwanted, RouterForgets, TrafficMoved, RoutesWithin
<1> QED BY <1>3, <1>4 DEF TrafficInv

\* However deploys, reports and restarts on either side cross, the agent takes nothing away
\* before what it started answered and, while nothing fails and passes take turns, before
\* traffic has moved (reconcile.go apply), leaves the customer's containers alone
\* (managedContainers), and while passes take turns does not start again what it remembers
\* giving up on (agent.go abandoned).
THEOREM AgentOfTheWhole ==
  YolSpec => [](RetiringComesLast /\ ForeignUntouched) /\ GivenUpStaysDown
<1>1. YolInit => TrafficInv /\ ForeignUntouched
  BY DEF YolInit, AgentInit, IdlePass, InTurn, UnderWay, ForeignUntouched, Name, TrafficInv,
         Unwanted, RouterForgets, TrafficMoved
<1>2. ASSUME YolInv, YolInv', TrafficInv, ForeignUntouched, [YolNext]_yolVars
      PROVE  TrafficInv' /\ ForeignUntouched'
  <2>1. ASSUME Elsewhere PROVE TrafficInv' /\ ForeignUntouched'
    BY <1>2, <2>1, ElsewhereIsNothing DEF Elsewhere, machine, ForeignUntouched
  <2>2. ASSUME Next PROVE TrafficInv' /\ ForeignUntouched'
    BY <1>2, <2>2, ForeignKept, TrafficKept DEF YolInv
  <2> QED BY <1>2, <2>1, <2>2, AgentStep
<1>3. YolInv /\ TrafficInv => RetiringComesLast
  BY DEF YolInv, AgentInv, HealthyAnswered, RetiringHeardAll, RetiringComesLast, TrafficInv,
         TrafficMoved
<1>4. ASSUME YolInv, TrafficInv, [YolNext]_yolVars
      PROVE  [overlaps = 0 =>
               \A c \in App : (c \in abandoned /\ docker[c] = "absent" /\ c \in abandoned')
                                  => docker'[c] = "absent"]_agentVars
  <2>1. CASE Elsewhere
    BY <2>1 DEF Elsewhere, machine
  <2>2. CASE Next
    BY <1>4, <2>2, TurnLeavesDown DEF YolInv, TrafficInv
  <2> QED BY <1>4, <2>1, <2>2, AgentStep
<1> QED BY <1>1, <1>2, <1>3, <1>4, YolInvariant, PTL DEF YolSpec, GivenUpStaysDown

(****************************************************************************)
(* Whoever waits is waited for.  What follows holds until something goes    *)
(* wrong, however passes overlap and specifications cross.                  *)
(****************************************************************************)

\* Versions a pass started and has yet to hear from, of its state alone.
GatingOf(st) == (st.started \cap App) \ (st.healthy \cup st.unproven)

\* A pass heard only from what it started, starts with nothing, and goes on once it has
\* heard from everything.
Tidy(st) ==
    /\ st.healthy \cup st.unproven \subseteq st.started
    /\ st.pc \in {"idle", "read"} => st.started = {}
    /\ st.pc \in {"drain", "retire", "report"} => GatingOf(st) = {}

\* A pass that goes on, having started s and heard from h and u.
GoesOn(p, s, h, u) ==
    \E st \in PassState :
        /\ pass' = [pass EXCEPT ![p] = st]
        /\ st.started = s /\ st.healthy = h /\ st.unproven = u
        /\ Tidy(pass[p]) => Tidy(st)

\* What a step of a pass is, as far as what it started and heard goes, while nothing fails:
\* it begins anew, goes on, starts a container or hears from a version.
LEMMA PassGoes ==
  ASSUME AgentInv, NEW p \in Pass, PassStep(p), ~ Fault
  PROVE  \/ Begin(p) /\ GoesOn(p, {}, {}, {})
         \/ /\ GoesOn(p, pass[p].started, pass[p].healthy, pass[p].unproven)
            /\ UNCHANGED <<answered, silent>>
            /\ \A d \in Owned : docker'[d] # "absent" => docker'[d] = docker[d]
         \/ \E c \in Owned :
              /\ RunSucceeds(c) /\ UNCHANGED <<answered, silent>>
              /\ GoesOn(p, pass[p].started \cup {c}, pass[p].healthy, pass[p].unproven)
         \/ \E c \in Gating(p) :
              /\ GateAnswers(p, c)
              /\ GoesOn(p, pass[p].started, pass[p].healthy \cup {c}, pass[p].unproven)
         \/ \E c \in Gating(p) :
              /\ GateGivesUp(p, c)
              /\ GoesOn(p, pass[p].started, pass[p].healthy, pass[p].unproven \cup {c})
<1> DEFINE Kept == /\ GoesOn(p, pass[p].started, pass[p].healthy, pass[p].unproven)
                   /\ UNCHANGED <<answered, silent>>
                   /\ \A d \in Owned : docker'[d] # "absent" => docker'[d] = docker[d]
<1>0. /\ pass \in [Pass -> PassState] /\ pass[p] \in PassState /\ Owned \subseteq Name
      /\ docker \in [Name -> ContainerState] /\ IdlePass \in PassState
      /\ pass' \in [Pass -> PassState] /\ pass'[p] \in PassState
  <2>1. AgentInv'
    BY PassStepKeeps
  <2> QED BY <2>1, IdleTyped DEF AgentInv, AgentTypeOK, Name
<1>1. ASSUME NEW st, pass' = [pass EXCEPT ![p] = st] PROVE st \in PassState
  BY <1>0, <1>1
<1>2. CASE Begin(p)
  <2> DEFINE st == [IdlePass EXCEPT !.pc = "plan", !.spec = held]
  <2>1. /\ pass' = [pass EXCEPT ![p] = st]
        /\ st.started = {} /\ st.healthy = {} /\ st.unproven = {} /\ st.pc = "plan"
    BY <1>2 DEF Begin, IdlePass
  <2> HIDE DEF st
  <2> QED BY <1>1, <1>2, <2>1 DEF GoesOn, Tidy
<1>3. CASE Plan(p)
  <2>1. PICK actual \in {Managed, {}} : pass' = [pass EXCEPT ![p] = Planned(p, actual)]
    BY <1>3 DEF Plan
  <2> DEFINE st == Planned(p, actual)
  <2>2. /\ st.started = pass[p].started /\ st.healthy = pass[p].healthy
        /\ st.unproven = pass[p].unproven /\ st.pc = "start"
    BY <1>0 DEF Planned, PassState
  <2>3. st \in PassState
    BY <1>1, <2>1
  <2> HIDE DEF st
  <2>4. GoesOn(p, pass[p].started, pass[p].healthy, pass[p].unproven)
    BY <2>1, <2>2, <2>3 DEF GoesOn, Tidy, st
  <2> QED BY <1>3, <2>4 DEF Plan, history, machine
<1>4. CASE Sync(p)
  <2> DEFINE st == [pass[p] EXCEPT !.pc = AfterSync(p),
                        !.await = {q \in Request : request[q] \in pass[p].remove}]
  <2>0. /\ pass' = [pass EXCEPT ![p] = st] /\ GatingOf(pass[p]) = {}
        /\ AfterSync(p) \in {"drain", "retire", "report"}
    BY <1>0, <1>4 DEF Sync, AfterSync, Gating, GatingOf
  <2>1. /\ st.started = pass[p].started /\ st.healthy = pass[p].healthy
        /\ st.unproven = pass[p].unproven /\ st.pc = AfterSync(p)
    BY <1>0 DEF PassState
  <2>2. st \in PassState
    BY <1>1, <2>0
  <2> HIDE DEF st
  <2>3. GoesOn(p, pass[p].started, pass[p].healthy, pass[p].unproven)
    BY <2>0, <2>1, <2>2 DEF GoesOn, Tidy, GatingOf
  <2> QED BY <1>4, <2>3 DEF Sync, history
<1>5. CASE Drain(p)
  <2> DEFINE st == [pass[p] EXCEPT !.pc = "retire"]
  <2>1. /\ pass' = [pass EXCEPT ![p] = st] /\ pass[p].pc = "drain"
        /\ st.started = pass[p].started /\ st.healthy = pass[p].healthy
        /\ st.unproven = pass[p].unproven /\ st.pc = "retire"
    BY <1>0, <1>5 DEF Drain, PassState
  <2>2. st \in PassState
    BY <1>1, <2>1
  <2> HIDE DEF st
  <2>3. GoesOn(p, pass[p].started, pass[p].healthy, pass[p].unproven)
    BY <2>1, <2>2 DEF GoesOn, Tidy, GatingOf
  <2> QED BY <1>5, <2>3 DEF Drain, history, machine
<1>6. ASSUME NEW c \in Owned, RmSucceeds(c) \/ RmFails(c)
      PROVE  \A d \in Owned : docker'[d] # "absent" => docker'[d] = docker[d]
  BY <1>0, <1>6 DEF RmSucceeds, RmFails
<1>7. ASSUME NEW c \in Owned, TakeAway(p, c) PROVE Kept
  <2> DEFINE st == [pass[p] EXCEPT !.replace = @ \ {c}, !.making = c]
  <2>1. /\ pass' = [pass EXCEPT ![p] = st]
        /\ st.started = pass[p].started /\ st.healthy = pass[p].healthy
        /\ st.unproven = pass[p].unproven /\ st.pc = "start"
    BY <1>0, <1>7 DEF TakeAway, PassState, RmFails
  <2>2. st \in PassState
    BY <1>1, <2>1
  <2> HIDE DEF st
  <2>3. GoesOn(p, pass[p].started, pass[p].healthy, pass[p].unproven)
    BY <2>1, <2>2 DEF GoesOn, Tidy
  <2> QED BY <1>6, <1>7, <2>3 DEF TakeAway, history
<1>8. ASSUME NEW c \in Owned, GateAnswers(p, c)
      PROVE  /\ c \in Gating(p)
             /\ GoesOn(p, pass[p].started, pass[p].healthy \cup {c}, pass[p].unproven)
  <2> DEFINE st == [pass[p] EXCEPT !.healthy = @ \cup {c}]
  <2>1. /\ pass' = [pass EXCEPT ![p] = st] /\ c \in Gating(p)
        /\ st.started = pass[p].started /\ st.healthy = pass[p].healthy \cup {c}
        /\ st.unproven = pass[p].unproven /\ st.pc = "start"
    BY <1>0, <1>8 DEF GateAnswers, AllStarted, PassState
  <2>2. st \in PassState
    BY <1>1, <2>1
  <2> HIDE DEF st
  <2> QED BY <2>1, <2>2 DEF GoesOn, Tidy, Gating
<1>9. ASSUME NEW c \in Owned, GateGivesUp(p, c)
      PROVE  /\ c \in Gating(p)
             /\ GoesOn(p, pass[p].started, pass[p].healthy, pass[p].unproven \cup {c})
  <2> DEFINE st == [pass[p] EXCEPT !.unproven = @ \cup {c}]
  <2>1. /\ pass' = [pass EXCEPT ![p] = st] /\ c \in Gating(p)
        /\ st.started = pass[p].started /\ st.healthy = pass[p].healthy
        /\ st.unproven = pass[p].unproven \cup {c} /\ st.pc = "start"
    BY <1>0, <1>9 DEF GateGivesUp, AllStarted, PassState
  <2>2. st \in PassState
    BY <1>1, <2>1
  <2> HIDE DEF st
  <2> QED BY <2>1, <2>2 DEF GoesOn, Tidy, Gating
<1>10. ASSUME NEW c \in Owned, Retire(p, c) PROVE Kept
  <2> DEFINE next == IF pass[p].remove = {c} THEN "report" ELSE "retire"
             st   == [pass[p] EXCEPT !.remove = @ \ {c}, !.retired = TRUE, !.pc = next]
  <2>1. pass' = [pass EXCEPT ![p] = st] /\ pass[p].pc = "retire"
    BY <1>0, <1>10 DEF Retire
  <2>2. next \in {"report", "retire"}
    OBVIOUS
  <2> HIDE DEF next
  <2>3. /\ st.started = pass[p].started /\ st.healthy = pass[p].healthy
        /\ st.unproven = pass[p].unproven /\ st.pc = next
    BY <1>0 DEF PassState
  <2>4. st \in PassState
    BY <1>1, <2>1
  <2> HIDE DEF st
  <2>5. GoesOn(p, pass[p].started, pass[p].healthy, pass[p].unproven)
    BY <2>1, <2>2, <2>3, <2>4 DEF GoesOn, Tidy, GatingOf
  <2> QED BY <1>6, <1>10, <2>5 DEF Retire, history
<1>11. ASSUME NEW c \in Owned, Create(p, c)
       PROVE  \/ Kept
              \/ /\ RunSucceeds(c) /\ UNCHANGED <<answered, silent>>
                 /\ GoesOn(p, pass[p].started \cup {c}, pass[p].healthy, pass[p].unproven)
  <2> DEFINE made   == [pass[p] EXCEPT !.making = None, !.create = @ \ {c},
                                       !.started = @ \cup {c}]
             unmade == [pass[p] EXCEPT !.making = None, !.create = @ \ {c},
                                       !.failed = @ \cup {c}]
  <2>1. /\ made.started = pass[p].started \cup {c} /\ made.healthy = pass[p].healthy
        /\ made.unproven = pass[p].unproven /\ made.pc = "start"
        /\ unmade.started = pass[p].started /\ unmade.healthy = pass[p].healthy
        /\ unmade.unproven = pass[p].unproven /\ unmade.pc = "start"
    BY <1>0, <1>11 DEF Create, PassState
  <2>2. \/ RunSucceeds(c) /\ pass' = [pass EXCEPT ![p] = made]
        \/ RunFails(c) /\ pass' = [pass EXCEPT ![p] = unmade]
    BY <1>0, <1>11 DEF Create
  <2> HIDE DEF made, unmade
  <2>3. CASE RunSucceeds(c) /\ pass' = [pass EXCEPT ![p] = made]
    <3>1. made \in PassState
      BY <1>1, <2>3
    <3>2. GoesOn(p, pass[p].started \cup {c}, pass[p].healthy, pass[p].unproven)
      BY <2>1, <2>3, <3>1 DEF GoesOn, Tidy
    <3> QED BY <1>11, <2>3, <3>2 DEF Create, history
  <2>4. CASE RunFails(c) /\ pass' = [pass EXCEPT ![p] = unmade]
    <3>1. unmade \in PassState /\ UNCHANGED docker
      BY <1>1, <2>4 DEF RunFails
    <3>2. GoesOn(p, pass[p].started, pass[p].healthy, pass[p].unproven)
      BY <2>1, <2>4, <3>1 DEF GoesOn, Tidy
    <3> QED BY <1>11, <3>1, <3>2 DEF Create, history
  <2> QED BY <2>2, <2>3, <2>4
<1> QED
  BY <1>2, <1>3, <1>4, <1>5, <1>7, <1>8, <1>9, <1>10, <1>11, PassHandlesOwned DEF PassStep

\* The server's connection is the hub's, it decides the mode, and nothing is under way
\* before it is made.  Outcomes are recorded by goroutines that serve connections.
Connected ==
    /\ hub = session
    /\ session # None => mode = "managed"
    /\ session = None => /\ mode = "watch" /\ building = {}
                         /\ \A p \in Pass : pass[p].pc = "idle"
    /\ \A d \in App : sender[d].healthy \cup sender[d].unproven = {}

NoneExited == \A c \in Owned : docker[c] # "exited"

\* A version that runs and is not known of is waited for.
Waiting ==
    \A d \in App : docker[d] = "running" /\ Untried(d) => \E p \in Pass : d \in Gating(p)

\* A version that is being built has its order somewhere.
BuildsPend == \A d \in App : status[d] = "building" => Pending(d)

\* What is known of a version that is going out is on its way to the record.
Heard(d) == InPass(d) \/ InSender(d) \/ \E i \in Nat : InUp(d, i)

OutcomesGo == \A d \in App \cap Known : status[d] = "deploying" => Heard(d)

AllTidy == Known \subseteq Built /\ \A p \in Pass : Tidy(pass[p])

LEMMA TidyMoves ==
  ASSUME AgentInv, AllTidy, Grows, NEW p \in Pass, NEW s, NEW h, NEW u, GoesOn(p, s, h, u),
         Known' \subseteq Known \cup Built
  PROVE  AllTidy'
<1>1. PICK st \in PassState : pass' = [pass EXCEPT ![p] = st] /\ Tidy(st)
  BY DEF GoesOn, AllTidy
<1>2. ASSUME NEW q \in Pass PROVE Tidy(pass'[q])
  BY <1>1 DEF AgentInv, AgentTypeOK, AllTidy
<1> QED BY <1>2 DEF AllTidy, Tidy, GatingOf, Grows

\* What a pass hears of was built.
LEMMA TidyStays ==
  ASSUME YolInv, AllTidy, [YolNext]_yolVars, faults' = 0 PROVE AllTidy'
<1>0. AgentInv /\ AgentGrounded /\ Grows /\ ~ Fault
  BY AllGrows, FaultlessLasts DEF YolInv
<1>1. ASSUME UNCHANGED <<pass, answered, silent>> PROVE AllTidy'
  BY <1>0, <1>1 DEF AllTidy, Known, Tidy, GatingOf, Grows
<1>2. ASSUME NEW r \in Reader, NEW s, Receive(r, s) PROVE AllTidy'
  <2> DEFINE st == [pass[r] EXCEPT !.pc = "read"]
  <2>1. /\ r \in Pass /\ pass' = [pass EXCEPT ![r] = st] /\ st \in PassState
        /\ UNCHANGED <<answered, silent>> /\ pass[r].pc = "idle"
        /\ st.started = pass[r].started /\ st.healthy = pass[r].healthy
        /\ st.unproven = pass[r].unproven /\ st.pc = "read"
    BY <1>0, <1>2 DEF Receive, AgentInv, AgentTypeOK, PassState, PassPC, Pass, history
  <2> HIDE DEF st
  <2>2. GoesOn(r, st.started, st.healthy, st.unproven)
    BY <2>1 DEF GoesOn, Tidy
  <2> QED BY <1>0, <2>1, <2>2, TidyMoves DEF Known
<1>3. ASSUME NEW p \in Pass, PassStep(p) PROVE AllTidy'
  <2>1. \A c \in Gating(p) : c \in Built
    BY <1>0 DEF Gating, AgentGrounded, PassGrounded
  <2>2. Known' \subseteq Known \cup Built
    BY <1>0, <1>3, <2>1, PassGoes DEF Known, Begin, GateAnswers, GateGivesUp
  <2>3. \E s, h, u : GoesOn(p, s, h, u)
    BY <1>0, <1>3, PassGoes
  <2> QED BY <1>0, <2>2, <2>3, TidyMoves
<1>4. ASSUME NEW p \in Pass, Report(p) PROVE AllTidy'
  <2>1. GoesOn(p, {}, {}, {})
    BY <1>4, IdleTyped DEF Report, GoesOn, Tidy, IdlePass, GatingOf
  <2> QED BY <1>0, <1>4, <2>1, TidyMoves DEF Report, history, Known
<1>5. ASSUME (\E r \in Reader : Connect(r)) \/ MachineStep
      PROVE  UNCHANGED <<pass, answered, silent>>
  BY <1>5 DEF Connect, MachineStep, Stops, ComesBack, Arrives, Finishes, history
<1> QED BY <1>1, <1>2, <1>3, <1>4, <1>5, FaultlessPart DEF history

\* What a goroutine waits for is still waited for if the pass that waits goes on, and a
\* container that runs is there.
LEMMA WaitingStays ==
  ASSUME YolInv, AllTidy, NoneExited, Waiting, [YolNext]_yolVars, faults' = 0
  PROVE  NoneExited' /\ Waiting'
<1>0. /\ AgentInv /\ AgentGrounded /\ ~ Fault
      /\ pass \in [Pass -> PassState] /\ docker \in [Name -> ContainerState]
      /\ App \subseteq Owned /\ Owned \subseteq Name
  BY FaultlessLasts DEF YolInv, AgentInv, AgentTypeOK, Name, Owned
<1>1. ASSUME UNCHANGED <<pass, docker, answered, silent>> PROVE NoneExited' /\ Waiting'
  BY <1>1 DEF NoneExited, Waiting, Gating, Untried, Known
<1>2. ASSUME NEW p \in Pass, NEW s, NEW h, NEW u, GoesOn(p, s, h, u),
             \A d \in App : docker'[d] = "running" /\ d \notin Known' =>
               \/ d \in s \ (h \cup u)
               \/ /\ docker[d] = "running" /\ Untried(d)
                  /\ d \in Gating(p) => d \in s \ (h \cup u)
      PROVE  Waiting'
  <2>1. PICK st \in PassState : /\ pass' = [pass EXCEPT ![p] = st]
                                /\ st.started = s /\ st.healthy = h /\ st.unproven = u
    BY <1>2 DEF GoesOn
  <2>2. \A q \in Pass : q # p => pass'[q] = pass[q]
    BY <1>0, <2>1
  <2>3. pass'[p] = st
    BY <1>0, <2>1
  <2>4. ASSUME NEW d \in App, docker'[d] = "running", d \notin Known'
        PROVE  \E q \in Pass :
                 d \in (pass'[q].started \cap App) \ (pass'[q].healthy \cup pass'[q].unproven)
    <3>1. CASE d \in s \ (h \cup u)
      BY <2>1, <2>3, <3>1
    <3>2. CASE docker[d] = "running" /\ Untried(d) /\ d \notin s \ (h \cup u)
      <4>1. PICK q \in Pass : d \in Gating(q) /\ q # p
        BY <1>2, <2>4, <3>2 DEF Waiting
      <4> QED BY <2>2, <4>1 DEF Gating
    <3> QED BY <1>2, <2>4, <3>1, <3>2
  <2> QED BY <2>4 DEF Waiting, Gating, Untried
<1>3. ASSUME NEW r \in Reader, NEW s, Receive(r, s) PROVE NoneExited' /\ Waiting'
  <2>1. /\ r \in Pass /\ UNCHANGED <<docker, answered, silent>>
        /\ \A q \in Pass : Gating(q)' = Gating(q)
    <3>1. \A q \in Pass : /\ pass'[q].started = pass[q].started
                          /\ pass'[q].healthy = pass[q].healthy
                          /\ pass'[q].unproven = pass[q].unproven
      BY <1>0, <1>3 DEF Receive, PassState
    <3> QED BY <1>3, <3>1 DEF Receive, machine, history, Pass, Gating
  <2> QED BY <2>1 DEF NoneExited, Waiting, Untried, Known
<1>4. ASSUME NEW p \in Pass, PassStep(p) PROVE NoneExited' /\ Waiting'
  <2>1. CASE Begin(p) /\ GoesOn(p, {}, {}, {})
    <3>1. /\ UNCHANGED <<docker, answered, silent>> /\ Gating(p) = {}
      BY <2>1 DEF Begin, machine, AllTidy, Tidy, Gating
    <3> QED BY <1>2, <2>1, <3>1 DEF NoneExited, Untried, Known
  <2>2. CASE /\ GoesOn(p, pass[p].started, pass[p].healthy, pass[p].unproven)
             /\ UNCHANGED <<answered, silent>>
             /\ \A d \in Owned : docker'[d] # "absent" => docker'[d] = docker[d]
    <3>1. Waiting'
      BY <1>0, <1>2, <2>2 DEF Gating, Untried, Known
    <3> QED BY <2>2, <3>1 DEF NoneExited
  <2>3. ASSUME NEW c \in Owned, RunSucceeds(c), UNCHANGED <<answered, silent>>,
               GoesOn(p, pass[p].started \cup {c}, pass[p].healthy, pass[p].unproven)
        PROVE  NoneExited' /\ Waiting'
    <3>1. docker' = [docker EXCEPT ![c] = "running"]
      BY <2>3 DEF RunSucceeds
    <3>2. Untried(c) => c \notin pass[p].healthy \cup pass[p].unproven
      BY <1>0 DEF AgentInv, HealthyAnswered, AgentGrounded, PassGrounded, Untried, Known
    <3>3. Waiting'
      BY <1>0, <1>2, <2>3, <3>1, <3>2 DEF Gating, Untried, Known
    <3> QED BY <1>0, <3>1, <3>3 DEF NoneExited
  <2>4. ASSUME NEW c \in Gating(p), GateAnswers(p, c),
               GoesOn(p, pass[p].started, pass[p].healthy \cup {c}, pass[p].unproven)
        PROVE  NoneExited' /\ Waiting'
    <3>1. UNCHANGED <<docker, silent>> /\ answered' = answered \cup {c}
      BY <2>4 DEF GateAnswers, machine
    <3>2. Waiting'
      BY <1>2, <2>4, <3>1 DEF Gating, Untried, Known
    <3> QED BY <3>1, <3>2 DEF NoneExited
  <2>5. ASSUME NEW c \in Gating(p), GateGivesUp(p, c),
               GoesOn(p, pass[p].started, pass[p].healthy, pass[p].unproven \cup {c})
        PROVE  NoneExited' /\ Waiting'
    <3>1. /\ docker' = [docker EXCEPT ![c] = "absent"] /\ UNCHANGED answered
          /\ silent' = silent \cup {c} /\ c \in Name
      BY <1>0, <2>5 DEF GateGivesUp, RmSucceeds, RmFails, Gating
    <3>2. Waiting'
      BY <1>0, <1>2, <2>5, <3>1 DEF Gating, Untried, Known
    <3> QED BY <1>0, <3>1, <3>2 DEF NoneExited
  <2> QED BY <1>0, <1>4, <2>1, <2>2, <2>3, <2>4, <2>5, PassGoes
<1>5. ASSUME NEW p \in Pass, Report(p) PROVE NoneExited' /\ Waiting'
  <2>1. GoesOn(p, {}, {}, {})
    BY <1>5, IdleTyped DEF Report, GoesOn, Tidy, IdlePass, GatingOf
  <2>2. UNCHANGED <<docker, answered, silent>> /\ Gating(p) = {}
    BY <1>5 DEF Report, machine, history, AllTidy, Tidy, Gating, GatingOf
  <2> QED BY <1>2, <2>1, <2>2 DEF NoneExited, Untried, Known
<1>6. ASSUME MachineStep, \A c \in Owned : ~ Stops(c)
      PROVE  UNCHANGED <<pass, docker, answered, silent>>
  BY <1>6 DEF MachineStep, ComesBack, Arrives, Finishes, NoneExited, history
<1>7. ASSUME NEW r \in Reader, Connect(r)
      PROVE  UNCHANGED <<pass, docker, answered, silent>>
  BY <1>7 DEF Connect, machine, history
<1> QED
  BY <1>1, <1>3, <1>4, <1>5, <1>6, <1>7, FaultlessPart DEF machine, history

\* The first message of a sequence is taken, or one is added: the others are still there.
LEMMA TailHas ==
  ASSUME NEW T, NEW s \in Seq(T), s # <<>>, NEW i \in 1..Len(s), i # 1
  PROVE  i - 1 \in Nat /\ i - 1 \in 1..Len(Tail(s)) /\ Tail(s)[i - 1] = s[i]
  OBVIOUS

LEMMA AppendHas ==
  ASSUME NEW T, NEW s \in Seq(T), NEW m
  PROVE  /\ \A i \in 1..Len(s) : i \in 1..Len(Append(s, m)) /\ Append(s, m)[i] = s[i]
         /\ Len(s) + 1 \in Nat /\ Len(s) + 1 \in 1..Len(Append(s, m))
         /\ Append(s, m)[Len(s) + 1] = m
  OBVIOUS

\* While nothing fails, a connection that was made is never lost.
LEMMA ConnectedStays ==
  ASSUME YolInv, Connected, [YolNext]_yolVars, faults' = 0, ServerMode = "managed"
  PROVE  Connected'
<1>0. /\ ~ Fault /\ Reader \cap App = {} /\ None \notin Reader
      /\ pass \in [Pass -> PassState] /\ Reader \subseteq Pass /\ App \subseteq Goroutine
      /\ sender \in [Goroutine -> SenderGrounded(Built, answered, silent)]
      /\ mode \in {"managed", "watch"} /\ session \in Reader \cup {None}
      /\ WireGrounded /\ Named \subseteq Goroutine /\ Named \cap App = {}
  BY FaultlessLasts, GoroutinesDistinct
  DEF YolInv, AgentInv, AgentTypeOK, WireGrounded, Pass, Goroutine
<1> DEFINE Quiet == \A d \in App : sender'[d].healthy \cup sender'[d].unproven = {}
<1>1. UNCHANGED sender => Quiet
  BY DEF Connected
<1>2. ASSUME NEW d \in App, NEW st, sender' = [sender EXCEPT ![d] = st],
             st.healthy = {}, st.unproven = {}
      PROVE  Quiet
  BY <1>2 DEF Connected
<1>3. ASSUME NEW r \in Reader, NEW st, sender' = [sender EXCEPT ![r] = st] PROVE Quiet
  BY <1>0, <1>3 DEF Connected
<1>4. ASSUME UNCHANGED <<hub, session, mode>>, building' \subseteq building,
             session # None \/ UNCHANGED pass, Quiet
      PROVE  Connected'
  BY <1>4 DEF Connected
<1> HIDE DEF Quiet
<1>5. ASSUME NEW d \in App, Deploy(d) \/ \E previous \in App : Rollback(previous, d)
      PROVE  Connected'
  <2> DEFINE st(pc) == [sender[d] EXCEPT !.pc = pc]
  <2>1. \A pc : st(pc).healthy = {} /\ st(pc).unproven = {}
    <3>1. sender[d].healthy = {} /\ sender[d].unproven = {}
      BY DEF Connected
    <3> QED BY <1>0, <3>1 DEF SenderGrounded
  <2>2. \E pc : sender' = [sender EXCEPT ![d] = st(pc)]
    BY <1>0, <1>5 DEF Deploy, Rollback
  <2> HIDE DEF st
  <2> QED BY <1>2, <1>4, <1>5, <2>1, <2>2 DEF Deploy, Rollback, agentVars, wire
<1>6. ASSUME NEW d \in App, AskBuild(d) PROVE Connected'
  <2>1. /\ sender' = [sender EXCEPT ![d] = Idle] /\ UNCHANGED <<hub, session, mode, building, pass>>
        /\ Idle.healthy = {} /\ Idle.unproven = {}
    BY <1>6 DEF AskBuild, Idle, agentVars
  <2>2. Quiet
    BY <1>2, <2>1
  <2> QED BY <1>4, <2>1, <2>2
<1>7. ASSUME NEW g \in Goroutine, ReadSpec(g) \/ SendSpec(g) PROVE Connected'
  <2> DEFINE read(c) == [sender[g] EXCEPT !.pc = "send", !.conn = c, !.spec = SpecFor]
             gone    == [sender[g] EXCEPT !.pc = "idle"]
             sent    == [sender[g] EXCEPT !.pc = "idle", !.conn = None, !.spec = NoSpec]
  <2>1. /\ \A c : read(c).healthy = sender[g].healthy /\ read(c).unproven = sender[g].unproven
        /\ gone.healthy = sender[g].healthy /\ gone.unproven = sender[g].unproven
        /\ sent.healthy = sender[g].healthy /\ sent.unproven = sender[g].unproven
    BY <1>0 DEF SenderGrounded
  <2>2. PICK st \in {read(c) : c \in Reader} \cup {gone, sent} : sender' = [sender EXCEPT ![g] = st]
    <3>1. CASE ReadSpec(g)
      <4>1. CASE \E c \in Reader : SpecRead(g, c)
        BY <4>1 DEF SpecRead
      <4>2. CASE sender' = [sender EXCEPT ![g].pc = "idle"]
        BY <1>0, <4>2
      <4> QED BY <1>0, <3>1, <4>1, <4>2, ReadOrDone
    <3>2. CASE SendSpec(g)
      BY <1>0, <3>2 DEF SendSpec
    <3> QED BY <1>7, <3>1, <3>2
  <2> HIDE DEF read, gone, sent
  <2>3. Quiet
    BY <1>0, <2>1, <2>2 DEF Connected, Quiet
  <2> QED BY <1>4, <1>7, <2>3
          DEF ReadSpec, SendSpec, agentVars, agentButFaults, memory, wire
<1>14. ASSUME NEW h \in Named, ChangeHostname(h) PROVE Connected'
  <2>1. Quiet
    BY <1>0, <1>14 DEF ChangeHostname, Connected, Quiet
  <2> QED BY <1>4, <1>14, <2>1 DEF ChangeHostname, agentVars, wire
<1>8. ASSUME NEW r \in Reader, TakeSpec(r) \/ StartBuild(r) \/ Refuse(r) \/ Forget(r)
      PROVE  Connected'
  <2>1. CASE TakeSpec(r)
    BY <1>0, <1>1, <1>4, <2>1 DEF TakeSpec, Receive
  <2>2. CASE StartBuild(r)
    BY <1>0, <1>1, <2>2 DEF StartBuild, Connected, agentVars, Quiet
  <2>3. CASE Refuse(r) \/ Forget(r)
    BY <1>0, <2>3 DEF Refuse, Forget, Connected
  <2> QED BY <1>8, <2>1, <2>2, <2>3
<1>9. ASSUME NEW r \in Reader, \/ TakeBuildResult(r) \/ TakeApplied(r)
                               \/ \E d \in App : FinishRollout(r, d)
      PROVE  Connected'
  <2>1. \/ \E st : sender' = [sender EXCEPT ![r] = st]
        \/ UNCHANGED sender
    BY <1>9 DEF TakeBuildResult, TakeApplied, FinishRollout
  <2>2. Quiet
    BY <1>1, <1>3, <2>1
  <2> QED BY <1>4, <1>9, <2>2
          DEF TakeBuildResult, TakeApplied, FinishRollout, agentVars, agentButFaults, memory,
              wire
<1>10. ASSUME NEW r \in Reader, Attach(r) PROVE Connected'
  <2>1. Quiet
    BY <1>3, <1>10 DEF Attach
  <2> QED BY <1>0, <1>10, <2>1 DEF Attach, Connect, Connected, Quiet
<1>11. ASSUME \/ \E d \in App, ok \in BOOLEAN : FinishBuilding(d, ok)
              \/ \E p \in Pass : ReportPass(p)
       PROVE  Connected'
  <2>1. ASSUME NEW p \in Pass, ReportPass(p) PROVE session # None
    BY <2>1 DEF ReportPass, Report, Connected
  <2> QED BY <1>1, <1>4, <1>11, <2>1 DEF FinishBuilding, ReportPass, Report, agentVars, memory
<1>12. CASE AgentProceeds
  <2>1. ASSUME NEW p \in Pass, PassStep(p)
        PROVE  UNCHANGED <<session, mode>> /\ session # None
    <3>1. mode = "managed" \/ pass[p].pc # "idle"
      BY <2>1 DEF PassStep, Begin, Plan, Sync, Drain, TakeAway, Create, GateAnswers,
                  GateGivesUp, Retire, AllStarted
    <3>2. UNCHANGED <<session, mode>>
      BY <2>1 DEF PassStep, Begin, Plan, Sync, Drain, TakeAway, Create, GateAnswers,
                  GateGivesUp, Retire, memory
    <3> QED BY <3>1, <3>2 DEF Connected
  <2>2. ASSUME MachineStep PROVE UNCHANGED <<session, mode, pass>>
    BY <2>2 DEF MachineStep, Stops, ComesBack, Arrives, Finishes, memory
  <2> QED BY <1>1, <1>4, <1>12, <2>1, <2>2 DEF AgentProceeds, wire
<1>13. CASE UNCHANGED yolVars
  BY <1>1, <1>4, <1>13 DEF yolVars, agentVars, wire
<1> QED
  BY <1>0, <1>5, <1>6, <1>7, <1>8, <1>9, <1>10, <1>11, <1>12, <1>13, <1>14
  DEF YolNext, Detach, Disconnect, AgentRestart, Restart, ServerRestart

\* An order stays somewhere, unless it is the message that is taken.
LEMMA PendingKept ==
  ASSUME DownTyped, UpTyped, NEW d \in App,
         d \in building => d \in building',
         sender[d].pc = "build" => sender'[d].pc = "build",
         \/ UNCHANGED down
         \/ \E m : down' = Append(down, m)
         \/ down # <<>> /\ down' = Tail(down) /\ ~ Ordered(d, 1),
         \/ UNCHANGED up
         \/ \E m : up' = Append(up, m)
         \/ up # <<>> /\ up' = Tail(up) /\ ~ Told(d, 1)
  PROVE  Pending(d) => Pending(d)'
<1>1. ASSUME NEW i \in Nat, Ordered(d, i) PROVE \E k \in Nat : Ordered(d, k)'
  <2>1. CASE UNCHANGED down
    BY <1>1, <2>1 DEF Ordered
  <2>2. ASSUME NEW m, down' = Append(down, m) PROVE \E k \in Nat : Ordered(d, k)'
    BY <1>1, <2>2, AppendHas DEF Ordered, DownTyped
  <2>3. CASE down # <<>> /\ down' = Tail(down) /\ ~ Ordered(d, 1)
    <3>1. i # 1 /\ i \in 1..Len(down) /\ Len(down) \in Nat
      BY <1>1, <2>3 DEF Ordered, DownTyped
    <3>2. i - 1 \in Nat /\ i - 1 \in 1..Len(down') /\ down'[i - 1] = down[i]
      BY <2>3, <3>1, TailHas DEF DownTyped
    <3> QED BY <1>1, <3>2 DEF Ordered
  <2> QED BY <2>1, <2>2, <2>3
<1>2. ASSUME NEW i \in Nat, Told(d, i) PROVE \E k \in Nat : Told(d, k)'
  <2>1. CASE UNCHANGED up
    BY <1>2, <2>1 DEF Told
  <2>2. ASSUME NEW m, up' = Append(up, m) PROVE \E k \in Nat : Told(d, k)'
    BY <1>2, <2>2, AppendHas DEF Told, UpTyped
  <2>3. CASE up # <<>> /\ up' = Tail(up) /\ ~ Told(d, 1)
    <3>1. i # 1 /\ i \in 1..Len(up) /\ Len(up) \in Nat
      BY <1>2, <2>3 DEF Told, UpTyped
    <3>2. i - 1 \in Nat /\ i - 1 \in 1..Len(up') /\ up'[i - 1] = up[i]
      BY <2>3, <3>1, TailHas DEF UpTyped
    <3> QED BY <1>2, <3>2 DEF Told
  <2> QED BY <2>1, <2>2, <2>3
<1> QED BY <1>1, <1>2 DEF Pending

\* A version that is being built is waited for: whatever takes the message about it does
\* what it says, or settles the version.
LEMMA BuildsPendStay ==
  ASSUME YolInv, Connected, BuildsPend, [YolNext]_yolVars, faults' = 0
  PROVE  BuildsPend'
<1>0. /\ ~ Fault /\ Reader \cap App = {} /\ None \notin Reader /\ App \subseteq Goroutine
      /\ sender \in [Goroutine -> SenderGrounded(Built, answered, silent)]
      /\ DownTyped /\ UpTyped /\ DeployTypeOK /\ OrderedOnce /\ RecordGrounded
      /\ Reader \subseteq Goroutine /\ Named \cap App = {} /\ WireGrounded
  BY FaultlessLasts, GoroutinesDistinct
  DEF YolInv, DeployInv, WireGrounded, Pass, Goroutine, DownTyped, UpTyped
<1> DEFINE DownGoes(d) == \/ UNCHANGED down
                          \/ \E m : down' = Append(down, m)
                          \/ down # <<>> /\ down' = Tail(down) /\ ~ Ordered(d, 1)
           UpGoes(d)   == \/ UNCHANGED up
                          \/ \E m : up' = Append(up, m)
                          \/ up # <<>> /\ up' = Tail(up) /\ ~ Told(d, 1)
           Keeps(d)    == status'[d] = "building" => Pending(d)'
<1>1. ASSUME NEW d \in App, status'[d] = "building" => status[d] = "building",
             d \in building => d \in building',
             sender[d].pc = "build" => sender'[d].pc = "build",
             DownGoes(d), UpGoes(d)
      PROVE  Keeps(d)
  BY <1>0, <1>1, PendingKept DEF BuildsPend
<1>2. (\A d \in App : Keeps(d)) => BuildsPend'
  BY DEF BuildsPend
<1> HIDE DEF Keeps
<1>3. ASSUME NEW d \in App, Deploy(d) PROVE BuildsPend'
  <2>1. \A e \in App \ {d} : status'[e] = status[e] /\ sender'[e] = sender[e]
    BY <1>0, <1>3 DEF Deploy, RecordDeploy, DeployTypeOK
  <2>2. \A e \in App \ {d} : Keeps(e)
    BY <1>1, <1>3, <2>1 DEF Deploy, wire
  <2>3. sender'[d].pc = "build"
    BY <1>0, <1>3 DEF Deploy, SenderGrounded
  <2> QED BY <1>2, <2>2, <2>3 DEF Keeps, Pending
<1>4. ASSUME NEW d \in App, AskBuild(d) PROVE BuildsPend'
  <2>1. \A e \in App \ {d} : status'[e] = status[e] /\ sender'[e] = sender[e]
    BY <1>0, <1>4 DEF AskBuild, RecordNotAsked, deployVars, DeployTypeOK
  <2>2. UNCHANGED <<up, building>> /\ (UNCHANGED down \/ \E m : down' = Append(down, m))
    BY <1>4 DEF AskBuild
  <2>3. \A e \in App \ {d} : Keeps(e)
    BY <1>1, <2>1, <2>2
  <2>4. CASE down' = Append(down, Build(d))
    <3>1. PICK k \in Nat : k \in 1..Len(down') /\ down'[k] = Build(d)
      BY <1>0, <2>4, AppendHas DEF DownTyped
    <3>2. Ordered(d, k)'
      BY <3>1 DEF Ordered, Build
    <3> QED BY <1>2, <2>3, <3>1, <3>2 DEF Keeps, Pending
  <2>5. CASE RecordNotAsked(d)
    BY <1>0, <1>2, <2>3, <2>5 DEF RecordNotAsked, DeployTypeOK, Keeps
  <2> QED BY <1>4, <2>4, <2>5 DEF AskBuild, Connected
<1>5. ASSUME NEW previous \in App, NEW d \in App, Rollback(previous, d) PROVE BuildsPend'
  <2>1. /\ \A e \in App \ {d} : status'[e] = status[e] /\ sender'[e] = sender[e]
        /\ status'[d] = "deploying"
    BY <1>0, <1>5 DEF Rollback, RecordRollback, DeployTypeOK
  <2>2. \A e \in App \ {d} : Keeps(e)
    BY <1>1, <1>5, <2>1 DEF Rollback, wire
  <2> QED BY <1>2, <2>1, <2>2 DEF Keeps
<1>6. ASSUME NEW g \in Goroutine, ReadSpec(g) \/ SendSpec(g) PROVE BuildsPend'
  <2>1. \A d \in App : sender[d].pc = "build" => sender'[d] = sender[d]
    BY <1>0, <1>6 DEF ReadSpec, Reads, SendSpec
  <2> QED BY <1>1, <1>2, <1>6, <2>1 DEF ReadSpec, SendSpec, wire, deployVars
<1>7. ASSUME NEW r \in Reader, TakeSpec(r) PROVE BuildsPend'
  <2>1. \A d \in App : ~ Ordered(d, 1)
    BY <1>0, <1>7 DEF TakeSpec, Ordered, DownTyped
  <2> QED BY <1>1, <1>2, <1>7, <2>1 DEF TakeSpec, deployVars
<1>8. ASSUME NEW r \in Reader, StartBuild(r) PROVE BuildsPend'
  <2> DEFINE d == Head(down).deployment
  <2>1. d \in building' /\ Head(down) = down[1] /\ building \subseteq building'
    BY <1>0, <1>8 DEF StartBuild, DownTyped
  <2>2. \A e \in App \ {d} : ~ Ordered(e, 1)
    BY <2>1 DEF Ordered
  <2> HIDE DEF d
  <2>3. \A e \in App \ {d} : Keeps(e)
    BY <1>1, <1>8, <2>1, <2>2 DEF StartBuild, deployVars
  <2> QED BY <1>2, <2>1, <2>3 DEF Keeps, Pending
<1>9. ASSUME NEW r \in Reader, Refuse(r) PROVE FALSE
  BY <1>0, <1>9 DEF Refuse, Connected
<1>10. ASSUME NEW r \in Reader, TakeBuildResult(r) PROVE BuildsPend'
  <2> DEFINE d == Head(up).deployment
  <2>1. /\ Head(up) = up[1] /\ d \in App /\ Head(up).succeeded \in BOOLEAN
    BY <1>10, HeadUp DEF TakeBuildResult, YolInv
  <2>2. \A e \in App \ {d} : ~ Told(e, 1)
    BY <2>1 DEF Told
  <2> HIDE DEF d
  <2>3. /\ \A e \in App \ {d} : status'[e] = status[e]
        /\ status'[d] # "building"
    BY <1>0, <1>10, <2>1 DEF TakeBuildResult, RecordBuild, NotRecorded, DeployTypeOK, d
  <2>4. \A e \in App : sender'[e] = sender[e]
    BY <1>0, <1>10 DEF TakeBuildResult, NotRecorded
  <2>5. \A e \in App \ {d} : Keeps(e)
    BY <1>1, <1>10, <2>2, <2>3, <2>4 DEF TakeBuildResult
  <2> QED BY <1>2, <2>3, <2>5 DEF Keeps
<1>11. ASSUME NEW r \in Reader, TakeApplied(r) PROVE BuildsPend'
  <2>1. \A e \in App : sender'[e] = sender[e]
    BY <1>0, <1>11 DEF TakeApplied
  <2>2. \A e \in App : ~ Told(e, 1)
    BY <1>11, HeadUp DEF TakeApplied, Told, YolInv
  <2> QED BY <1>1, <1>2, <1>11, <2>1, <2>2 DEF TakeApplied, deployVars
<1>12. ASSUME NEW r \in Reader, Attach(r) \/ Forget(r) PROVE BuildsPend'
  <2>1. \A e \in App : sender'[e] = sender[e]
    BY <1>0, <1>12 DEF Attach, Forget
  <2> QED BY <1>1, <1>2, <1>12, <2>1 DEF Attach, Forget, deployVars
<1>13. ASSUME NEW r \in Reader, NEW d \in App, FinishRollout(r, d) PROVE BuildsPend'
  <2>1. \A e \in App : sender'[e] = sender[e]
    BY <1>0, <1>13 DEF FinishRollout, NotRecorded
  <2>2. \A e \in App : status'[e] = "building" => status[e] = "building"
    BY <1>0, <1>13 DEF FinishRollout, RecordRollout, NotRecorded, DeployTypeOK
  <2> QED BY <1>1, <1>2, <1>13, <2>1, <2>2 DEF FinishRollout, wire
<1>14. ASSUME NEW d \in App, NEW ok \in BOOLEAN, FinishBuilding(d, ok) PROVE BuildsPend'
  <2>1. up' = Append(up, BuildResult(d, ok)) /\ building' = building \ {d}
    BY <1>14 DEF FinishBuilding, Say, Connected
  <2>2. PICK k \in Nat : k \in 1..Len(up') /\ up'[k] = BuildResult(d, ok)
    BY <1>0, <2>1, AppendHas DEF UpTyped
  <2>3. Told(d, k)'
    BY <2>2 DEF Told, BuildResult
  <2>4. \A e \in App \ {d} : Keeps(e)
    BY <1>1, <1>14, <2>1 DEF FinishBuilding, deployVars
  <2> QED BY <1>2, <2>2, <2>3, <2>4 DEF Keeps, Pending
<1>15. ASSUME NEW p \in Pass, ReportPass(p) PROVE BuildsPend'
  BY <1>1, <1>2, <1>15 DEF ReportPass, Say, deployVars
<1>16. CASE AgentProceeds \/ UNCHANGED yolVars
  BY <1>1, <1>2, <1>16 DEF AgentProceeds, yolVars, wire, deployVars
<1>17. ASSUME NEW h \in Named, ChangeHostname(h) PROVE BuildsPend'
  <2>1. UNCHANGED <<down, up, building, status>> /\ \A d \in App : sender'[d] = sender[d]
    BY <1>0, <1>17 DEF ChangeHostname, RecordVerified, RecordRemoved, wire
  <2> QED BY <1>1, <1>2, <2>1
<1> QED
  BY <1>0, <1>3, <1>4, <1>5, <1>6, <1>7, <1>8, <1>9, <1>10, <1>11, <1>12, <1>13, <1>14,
     <1>15, <1>16, <1>17
  DEF YolNext, Detach, Disconnect, AgentRestart, Restart, ServerRestart

\* What is told of a version stays told, unless it is the message that is taken.
LEMMA HeardKept ==
  ASSUME UpTyped, NEW d \in App, InPass(d) => Heard(d)', InSender(d) => InSender(d)',
         \/ UNCHANGED up
         \/ \E m : up' = Append(up, m)
         \/ up # <<>> /\ up' = Tail(up) /\ ~ InUp(d, 1)
  PROVE  Heard(d) => Heard(d)'
<1>1. ASSUME NEW i \in Nat, InUp(d, i) PROVE \E k \in Nat : InUp(d, k)'
  <2>1. CASE UNCHANGED up
    BY <1>1, <2>1 DEF InUp
  <2>2. ASSUME NEW m, up' = Append(up, m) PROVE \E k \in Nat : InUp(d, k)'
    BY <1>1, <2>2, AppendHas DEF InUp, UpTyped
  <2>3. CASE up # <<>> /\ up' = Tail(up) /\ ~ InUp(d, 1)
    <3>1. i # 1 /\ i \in 1..Len(up) /\ Len(up) \in Nat
      BY <1>1, <2>3 DEF InUp, UpTyped
    <3>2. i - 1 \in Nat /\ i - 1 \in 1..Len(up') /\ up'[i - 1] = up[i]
      BY <2>3, <3>1, TailHas DEF UpTyped
    <3> QED BY <1>1, <3>2 DEF InUp
  <2> QED BY <2>1, <2>2, <2>3
<1> QED BY <1>1 DEF Heard

\* What is known of a version that is going out is on its way: a pass that heard of it says
\* so, on the connection there is, and the goroutine that reads it records it.
LEMMA OutcomesStay ==
  ASSUME YolInv, Connected, AllTidy, OutcomesGo, [YolNext]_yolVars, faults' = 0
  PROVE  OutcomesGo'
<1>0. /\ ~ Fault /\ Reader \cap App = {} /\ None \notin Reader /\ App \subseteq Goroutine
      /\ sender \in [Goroutine -> SenderGrounded(Built, answered, silent)]
      /\ UpTyped /\ DeployTypeOK /\ OrderedOnce /\ RecordGrounded
      /\ Reader \subseteq Goroutine /\ Reader \subseteq Pass /\ Known \subseteq Built
      /\ AgentInv /\ pass \in [Pass -> PassState]
      /\ WireGrounded /\ Named \subseteq Goroutine
  BY FaultlessLasts
  DEF YolInv, AgentInv, AgentTypeOK, DeployInv, WireGrounded, Pass, Goroutine, UpTyped, AllTidy
<1> DEFINE UpGoes(d) == \/ UNCHANGED up
                        \/ \E m : up' = Append(up, m)
                        \/ up # <<>> /\ up' = Tail(up) /\ ~ InUp(d, 1)
           Keeps(d)  == d \in Known' /\ status'[d] = "deploying" => Heard(d)'
<1>1. ASSUME NEW d \in App, status'[d] = "deploying" => status[d] = "deploying",
             d \in Known' => d \in Known,
             InPass(d) => Heard(d)', InSender(d) => InSender(d)', UpGoes(d)
      PROVE  Keeps(d)
  BY <1>0, <1>1, HeardKept DEF OutcomesGo
<1>2. (\A d \in App : Keeps(d)) => OutcomesGo'
  BY DEF OutcomesGo
<1> HIDE DEF Keeps
<1>3. UNCHANGED pass => \A d : InPass(d) => Heard(d)'
  BY DEF InPass, Heard
<1>4. UNCHANGED sender => \A d : InSender(d) => InSender(d)'
  BY DEF InSender
<1>5. UNCHANGED history => UNCHANGED Known
  BY DEF history, Known
<1>6. ASSUME NEW g \in Goroutine, NEW st, NEW d, sender' = [sender EXCEPT ![g] = st],
             d \in sender[g].healthy \cup sender[g].unproven => d \in st.healthy \cup st.unproven
      PROVE  InSender(d) => InSender(d)'
  <2>1. ASSUME NEW h \in Goroutine, d \in sender[h].healthy \cup sender[h].unproven
        PROVE  d \in sender'[h].healthy \cup sender'[h].unproven
    BY <1>0, <1>6, <2>1
  <2> QED BY <2>1 DEF InSender
<1>7. ASSUME NEW d \in App, \/ Deploy(d) \/ \E previous \in App : Rollback(previous, d)
      PROVE  OutcomesGo'
  <2> DEFINE st(pc) == [sender[d] EXCEPT !.pc = pc]
  <2>1. PICK pc : sender' = [sender EXCEPT ![d] = st(pc)]
    BY <1>0, <1>7 DEF Deploy, Rollback
  <2>2. st(pc).healthy = sender[d].healthy /\ st(pc).unproven = sender[d].unproven
    BY <1>0 DEF SenderGrounded
  <2> HIDE DEF st
  <2>3. \A e \in App : InSender(e) => InSender(e)'
    BY <1>0, <1>6, <2>1, <2>2
  <2>4. /\ \A e \in App \ {d} : status'[e] = status[e]
        /\ d \notin Known /\ UNCHANGED <<pass, history, up>>
    BY <1>0, <1>7
    DEF Deploy, Rollback, RecordDeploy, RecordRollback, DeployTypeOK, RecordGrounded, agentVars,
        wire, history
  <2> QED BY <1>1, <1>2, <1>3, <1>5, <2>3, <2>4 DEF Keeps
<1>8. ASSUME NEW d \in App, AskBuild(d) PROVE OutcomesGo'
  <2>1. \A e \in App : InSender(e) => InSender(e)'
    BY <1>0, <1>6, <1>8 DEF AskBuild, Connected
  <2>2. /\ \A e \in App : status'[e] = "deploying" => status[e] = "deploying"
        /\ UNCHANGED <<pass, history, up>>
    BY <1>0, <1>8 DEF AskBuild, RecordNotAsked, DeployTypeOK, deployVars, agentVars, history
  <2> QED BY <1>1, <1>2, <1>3, <1>5, <2>1, <2>2
<1>9. ASSUME NEW g \in Goroutine, ReadSpec(g) \/ SendSpec(g) PROVE OutcomesGo'
  <2> DEFINE read(c) == [sender[g] EXCEPT !.pc = "send", !.conn = c, !.spec = SpecFor]
             gone    == [sender[g] EXCEPT !.pc = "idle"]
             sent    == [sender[g] EXCEPT !.pc = "idle", !.conn = None, !.spec = NoSpec]
  <2>1. /\ \A c : read(c).healthy = sender[g].healthy /\ read(c).unproven = sender[g].unproven
        /\ gone.healthy = sender[g].healthy /\ gone.unproven = sender[g].unproven
        /\ sent.healthy = sender[g].healthy /\ sent.unproven = sender[g].unproven
    BY <1>0 DEF SenderGrounded
  <2>2. PICK st \in {read(c) : c \in Reader} \cup {gone, sent} : sender' = [sender EXCEPT ![g] = st]
    <3>1. CASE ReadSpec(g)
      <4>1. CASE \E c \in Reader : SpecRead(g, c)
        BY <4>1 DEF SpecRead
      <4>2. CASE sender' = [sender EXCEPT ![g].pc = "idle"]
        BY <1>0, <4>2
      <4> QED BY <1>0, <3>1, <4>1, <4>2, ReadOrDone
    <3>2. CASE SendSpec(g)
      BY <1>0, <3>2 DEF SendSpec
    <3> QED BY <1>9, <3>1, <3>2
  <2> HIDE DEF read, gone, sent
  <2>3. \A d \in App : InSender(d) => InSender(d)'
    BY <1>6, <2>1, <2>2
  <2>4. UNCHANGED <<pass, history, status, up>>
    BY <1>9 DEF ReadSpec, SendSpec, agentVars, agentButFaults, deployVars, wire, history
  <2> QED BY <1>1, <1>2, <1>3, <1>5, <2>3, <2>4
<1>19. ASSUME NEW h \in Named, ChangeHostname(h) PROVE OutcomesGo'
  <2> DEFINE st == [sender[h] EXCEPT !.pc = "reconcile"]
  <2>1. /\ sender' = [sender EXCEPT ![h] = st]
        /\ st.healthy = sender[h].healthy /\ st.unproven = sender[h].unproven
    BY <1>0, <1>19 DEF ChangeHostname, SenderGrounded
  <2> HIDE DEF st
  <2>2. \A d \in App : InSender(d) => InSender(d)'
    BY <1>0, <1>6, <2>1
  <2>3. UNCHANGED <<pass, history, status, up>>
    BY <1>19 DEF ChangeHostname, RecordVerified, RecordRemoved, agentVars, wire, history
  <2> QED BY <1>1, <1>2, <1>3, <1>5, <2>2, <2>3
<1>10. ASSUME NEW r \in Reader, TakeSpec(r) PROVE OutcomesGo'
  <2>1. \A q \in Pass : /\ pass'[q].healthy = pass[q].healthy
                        /\ pass'[q].unproven = pass[q].unproven
    BY <1>0, <1>10 DEF TakeSpec, Receive, PassState
  <2>2. \A d \in App : InPass(d) => Heard(d)'
    BY <2>1 DEF InPass, Heard
  <2> QED BY <1>1, <1>2, <1>4, <1>5, <1>10, <2>2 DEF TakeSpec, Receive, deployVars
<1>11. ASSUME NEW r \in Reader, TakeBuildResult(r) PROVE OutcomesGo'
  <2> DEFINE d == Head(up).deployment
  <2>1. /\ Head(up) = up[1] /\ d \in App /\ Head(up).succeeded \in BOOLEAN
        /\ up[1].type = "buildResult" /\ UNCHANGED <<pass, history>>
    BY <1>11, HeadUp DEF TakeBuildResult, YolInv, agentButFaults
  <2>2. d \notin Known
    <3>1. Told(d, 1)
      BY <1>0, <1>11, <2>1 DEF TakeBuildResult, Told, UpTyped
    <3> QED BY <1>0, <2>1, <3>1 DEF OrderedOnce, RecordGrounded
  <2>3. \A e \in App : ~ InUp(e, 1)
    BY <2>1 DEF InUp
  <2> HIDE DEF d
  <2>4. \A e \in App \ {d} : status'[e] = status[e]
    BY <1>0, <1>11, <2>1 DEF TakeBuildResult, RecordBuild, NotRecorded, DeployTypeOK, d
  <2> DEFINE st == [sender[r] EXCEPT !.pc = IF Head(up).succeeded THEN "reconcile" ELSE "idle"]
  <2>5. /\ sender' = [sender EXCEPT ![r] = st]
        /\ st.healthy = sender[r].healthy /\ st.unproven = sender[r].unproven
    BY <1>0, <1>11 DEF TakeBuildResult, NotRecorded, SenderGrounded
  <2> HIDE DEF st
  <2>6. \A e \in App : InSender(e) => InSender(e)'
    BY <1>0, <1>6, <2>5
  <2>7. up # <<>> /\ up' = Tail(up)
    BY <1>11 DEF TakeBuildResult
  <2> QED BY <1>1, <1>2, <1>3, <1>5, <2>1, <2>2, <2>3, <2>4, <2>6, <2>7 DEF Keeps
<1>12. ASSUME NEW r \in Reader, TakeApplied(r) PROVE OutcomesGo'
  <2> DEFINE st == [sender[r] EXCEPT !.healthy = Head(up).healthy,
                                     !.unproven = Head(up).unproven]
  <2>1. /\ sender' = [sender EXCEPT ![r] = st] /\ Head(up) = up[1]
        /\ st.healthy = Head(up).healthy /\ st.unproven = Head(up).unproven
        /\ sender[r].healthy \cup sender[r].unproven = {}
        /\ up # <<>> /\ up' = Tail(up) /\ UNCHANGED <<pass, history, status>>
    <3>1. /\ up # <<>> /\ up' = Tail(up) /\ UNCHANGED <<pass, history, status>>
          /\ sender[r].healthy \cup sender[r].unproven = {}
      BY <1>12 DEF TakeApplied, Listening, agentVars, deployVars, history
    <3>2. Head(up) = up[1]
      BY <3>1, HeadUp DEF YolInv
    <3>3. sender' = [sender EXCEPT ![r] = st]
      BY <1>0, <1>12 DEF TakeApplied
    <3>4. st.healthy = Head(up).healthy /\ st.unproven = Head(up).unproven
      BY <1>0 DEF SenderGrounded
    <3> QED BY <3>1, <3>2, <3>3, <3>4
  <2> HIDE DEF st
  <2>2. \A d \in App : InSender(d) => InSender(d)'
    BY <1>0, <1>6, <2>1
  <2>3. ASSUME NEW d \in App, InUp(d, 1) PROVE InSender(d)'
    BY <1>0, <2>1, <2>3 DEF InUp, InSender
  <2>4. ASSUME NEW d \in App PROVE Keeps(d)
    <3>1. CASE InUp(d, 1)
      BY <2>3, <3>1 DEF Keeps, Heard
    <3>2. CASE ~ InUp(d, 1)
      BY <1>1, <1>3, <1>5, <2>1, <2>2, <3>2
    <3> QED BY <3>1, <3>2
  <2> QED BY <1>2, <2>4
<1>13. ASSUME NEW r \in Reader, Attach(r) PROVE OutcomesGo'
  <2>1. \A d \in App : InSender(d) => InSender(d)'
    BY <1>0, <1>6, <1>13 DEF Attach, Idle
  <2> QED BY <1>1, <1>2, <1>3, <1>5, <1>13, <2>1 DEF Attach, Connect, deployVars
<1>14. ASSUME NEW r \in Reader, NEW d \in App, FinishRollout(r, d) PROVE OutcomesGo'
  <2> DEFINE heard    == [sender[r] EXCEPT !.healthy = @ \ {d}, !.pc = "reconcile"]
             silenced == [sender[r] EXCEPT !.unproven = @ \ {d}]
  <2>1. PICK st \in {heard, silenced} : sender' = [sender EXCEPT ![r] = st]
    BY <1>0, <1>14 DEF FinishRollout, NotRecorded
  <2>2. /\ heard.healthy = sender[r].healthy \ {d} /\ heard.unproven = sender[r].unproven
        /\ silenced.healthy = sender[r].healthy /\ silenced.unproven = sender[r].unproven \ {d}
    BY <1>0 DEF SenderGrounded
  <2> HIDE DEF heard, silenced
  <2>3. \A e \in App \ {d} : InSender(e) => InSender(e)'
    BY <1>0, <1>6, <2>1, <2>2
  <2>4. /\ \A e \in App : status'[e] = "deploying" => status[e] = "deploying"
        /\ status'[d] # "deploying" /\ UNCHANGED <<pass, history, up>>
    BY <1>0, <1>14
    DEF FinishRollout, RecordRollout, NotRecorded, DeployTypeOK, agentButFaults, wire, history
  <2> QED BY <1>1, <1>2, <1>3, <1>5, <2>3, <2>4 DEF Keeps
<1>15. ASSUME NEW p \in Pass, ReportPass(p) PROVE OutcomesGo'
  <2>0. /\ UNCHANGED <<sender, history, status>> /\ pass' = [pass EXCEPT ![p] = IdlePass]
        /\ session # None /\ pass[p].healthy \cup pass[p].unproven \subseteq pass[p].started
    BY <1>15 DEF ReportPass, Report, deployVars, Connected, AllTidy, Tidy
  <2>1. ASSUME NEW d \in App, InPass(d), d \notin pass[p].healthy \cup pass[p].unproven
        PROVE  Heard(d)'
    <3>1. PICK q \in Pass : q # p /\ d \in pass[q].healthy \cup pass[q].unproven
      BY <2>1 DEF InPass
    <3>2. pass'[q] = pass[q]
      BY <1>0, <2>0, <3>1
    <3> QED BY <3>1, <3>2 DEF InPass, Heard
  <2>2. ASSUME NEW d \in App, d \in pass[p].healthy \cup pass[p].unproven PROVE Heard(d)'
    <3>1. up' = Append(up, Applied(pass[p].healthy, pass[p].unproven))
      BY <1>15, <2>0, <2>2 DEF ReportPass, Reported, Say
    <3>2. PICK k \in Nat :
             k \in 1..Len(up') /\ up'[k] = Applied(pass[p].healthy, pass[p].unproven)
      BY <1>0, <3>1, AppendHas DEF UpTyped
    <3>3. InUp(d, k)'
      BY <2>2, <3>2 DEF InUp, Applied
    <3> QED BY <3>2, <3>3 DEF Heard
  <2>3. UNCHANGED up \/ \E m : up' = Append(up, m)
    BY <1>15 DEF ReportPass, Say
  <2> QED BY <1>1, <1>2, <1>4, <1>5, <2>0, <2>1, <2>2, <2>3
<1>16. ASSUME NEW p \in Pass, PassStep(p), UNCHANGED <<sender, up, status>> PROVE OutcomesGo'
  <2>1. PICK s, h, u :
           /\ GoesOn(p, s, h, u)
           /\ pass[p].healthy \subseteq h /\ pass[p].unproven \subseteq u
           /\ Known' \subseteq Known \cup h \cup u
    <3>1. CASE Begin(p) /\ GoesOn(p, {}, {}, {})
      <4>1. pass[p].healthy = {} /\ pass[p].unproven = {} /\ UNCHANGED Known
        BY <3>1 DEF Begin, AllTidy, Tidy, Known
      <4> QED BY <3>1, <4>1
    <3>2. ASSUME NEW s, GoesOn(p, s, pass[p].healthy, pass[p].unproven),
                 UNCHANGED <<answered, silent>>
          PROVE  \E t, h, u :
                   /\ GoesOn(p, t, h, u)
                   /\ pass[p].healthy \subseteq h /\ pass[p].unproven \subseteq u
                   /\ Known' \subseteq Known \cup h \cup u
      BY <3>2 DEF Known
    <3>3. ASSUME NEW c \in Gating(p), GateAnswers(p, c),
                 GoesOn(p, pass[p].started, pass[p].healthy \cup {c}, pass[p].unproven)
          PROVE  \E t, h, u :
                   /\ GoesOn(p, t, h, u)
                   /\ pass[p].healthy \subseteq h /\ pass[p].unproven \subseteq u
                   /\ Known' \subseteq Known \cup h \cup u
      BY <3>3 DEF GateAnswers, Known
    <3>4. ASSUME NEW c \in Gating(p), GateGivesUp(p, c),
                 GoesOn(p, pass[p].started, pass[p].healthy, pass[p].unproven \cup {c})
          PROVE  \E t, h, u :
                   /\ GoesOn(p, t, h, u)
                   /\ pass[p].healthy \subseteq h /\ pass[p].unproven \subseteq u
                   /\ Known' \subseteq Known \cup h \cup u
      BY <3>4 DEF GateGivesUp, Known
    <3> QED BY <1>0, <1>16, <3>1, <3>2, <3>3, <3>4, PassGoes
  <2>2. PICK st : /\ pass' = [pass EXCEPT ![p] = st] /\ st.healthy = h /\ st.unproven = u
    BY <2>1 DEF GoesOn
  <2>3. ASSUME NEW d, InPass(d) PROVE InPass(d)'
    <3>1. PICK q \in Pass : d \in pass[q].healthy \cup pass[q].unproven
      BY <2>3 DEF InPass
    <3>2. d \in pass'[q].healthy \cup pass'[q].unproven
      BY <1>0, <2>1, <2>2, <3>1
    <3> QED BY <3>2 DEF InPass
  <2>4. ASSUME NEW d \in h \cup u PROVE InPass(d)'
    BY <1>0, <2>2 DEF InPass
  <2>5. ASSUME NEW d \in App PROVE Keeps(d)
    <3>1. CASE d \in h \cup u
      BY <2>4, <3>1 DEF Keeps, Heard
    <3>2. CASE d \notin h \cup u
      BY <1>1, <1>4, <1>16, <2>1, <2>3, <3>2 DEF Heard
    <3> QED BY <3>1, <3>2
  <2> QED BY <1>2, <2>5
<1>17. CASE AgentProceeds
  <2>1. ASSUME MachineStep PROVE UNCHANGED <<pass, history>>
    BY <2>1 DEF MachineStep, Stops, ComesBack, Arrives, Finishes
  <2>2. UNCHANGED <<sender, up, status>>
    BY <1>17 DEF AgentProceeds, wire, deployVars
  <2> QED BY <1>1, <1>2, <1>3, <1>4, <1>5, <1>16, <1>17, <2>1, <2>2 DEF AgentProceeds
<1>18. CASE \/ UNCHANGED yolVars
            \/ \E r \in Reader : StartBuild(r) \/ Refuse(r) \/ Forget(r)
            \/ \E d \in App, ok \in BOOLEAN : FinishBuilding(d, ok)
  <2>1. UNCHANGED <<pass, sender, history, status>>
    BY <1>18 DEF yolVars, StartBuild, Refuse, Forget, FinishBuilding, agentVars, deployVars,
                 history
  <2>2. UNCHANGED up \/ \E m : up' = Append(up, m)
    BY <1>18 DEF yolVars, StartBuild, Refuse, Forget, FinishBuilding, Say, wire
  <2> QED BY <1>1, <1>2, <1>3, <1>4, <1>5, <2>1, <2>2
<1> QED
  BY <1>0, <1>7, <1>8, <1>9, <1>10, <1>11, <1>12, <1>13, <1>14, <1>15, <1>17, <1>18, <1>19
  DEF YolNext, Detach, Disconnect, AgentRestart, Restart, ServerRestart

\* All of it, for as long as nothing goes wrong.
FlowInv ==
    faults = 0 /\ ServerMode = "managed" =>
        Connected /\ AllTidy /\ NoneExited /\ Waiting /\ BuildsPend /\ OutcomesGo

LEMMA InitFlowInv == YolInit => FlowInv
<1> SUFFICES ASSUME YolInit PROVE FlowInv
  OBVIOUS
<1>0. /\ pass = [p \in Pass |-> IdlePass] /\ answered = {} /\ silent = {}
      /\ hub = None /\ session = None /\ mode = "watch" /\ building = {}
      /\ sender = [g \in Goroutine |-> Idle] /\ App \subseteq Goroutine
      /\ \A c \in Owned : docker[c] = "absent"
      /\ \A d \in App : status[d] = "none"
  BY DEF YolInit, AgentInit, DeployInit, Name, Owned, Goroutine
<1>1. Connected
  BY <1>0 DEF Connected, IdlePass, Idle
<1>2. AllTidy
  BY <1>0 DEF AllTidy, Tidy, IdlePass, GatingOf, Known
<1>3. NoneExited /\ Waiting
  BY <1>0 DEF NoneExited, Waiting, Owned
<1>4. BuildsPend /\ OutcomesGo
  BY <1>0 DEF BuildsPend, OutcomesGo
<1> QED BY <1>1, <1>2, <1>3, <1>4 DEF FlowInv

LEMMA FlowInvStays == ASSUME YolInv, FlowInv, [YolNext]_yolVars PROVE FlowInv'
<1>1. ASSUME faults' = 0, ServerMode = "managed"
      PROVE  (Connected /\ AllTidy /\ NoneExited /\ Waiting /\ BuildsPend /\ OutcomesGo)'
  <2>1. Connected /\ AllTidy /\ NoneExited /\ Waiting /\ BuildsPend /\ OutcomesGo
    BY <1>1, FaultlessLasts DEF FlowInv
  <2> QED
    BY <1>1, <2>1, ConnectedStays, TidyStays, WaitingStays, BuildsPendStay, OutcomesStay
<1> QED BY <1>1 DEF FlowInv

\* Nothing goes unheard on a managed server, however passes overlap, connections come late
\* and deploys, rollbacks and changes of hostnames cross, until something fails: a build
\* that was asked for is ordered, under way or reported (agent/build.go startBuild), what
\* runs and is not known of is listened to (agent/reconcile.go gate), and what is known of
\* a version that is going out is on its way to the record (agent/reconcile.go
\* reconcileOnce, deploy/builds.go FinishRollout).
THEOREM NobodyWaitsInVain == YolSpec => []NothingGoesUnheard
<1>1. YolInit => YolInv /\ FlowInv
  BY InitYolInv, InitFlowInv
<1>2. YolInv /\ FlowInv /\ [YolNext]_yolVars => YolInv' /\ FlowInv'
  BY YolNextKeeps, FlowInvStays
<1>3. ASSUME YolInv, FlowInv, faults = 0, ServerMode = "managed", NEW d \in App
      PROVE  /\ status[d] = "building" =>
                  \/ sender[d].pc = "build" \/ d \in building
                  \/ \E i \in 1..Len(down) : down[i] = Build(d)
                  \/ \E i \in 1..Len(up) : up[i].type = "buildResult" /\ up[i].deployment = d
             /\ docker[d] = "running" /\ d \notin answered \cup silent =>
                  \E p \in Pass : d \in Gating(p)
             /\ status[d] = "deploying" /\ d \in answered \cup silent =>
                  \/ \E p \in Pass : d \in pass[p].healthy \cup pass[p].unproven
                  \/ \E i \in 1..Len(up) : /\ up[i].type = "applied"
                                           /\ d \in up[i].healthy \cup up[i].unproven
                  \/ \E g \in Goroutine : d \in sender[g].healthy \cup sender[g].unproven
  <2>1. ASSUME NEW i \in Nat, Ordered(d, i) PROVE i \in 1..Len(down) /\ down[i] = Build(d)
    <3>1. down[i] \in DownGrounded(Built)
      BY <1>3, <2>1 DEF YolInv, WireGrounded, Ordered
    <3> QED BY <2>1, <3>1 DEF DownGrounded, ApplySpec, Build, Ordered
  <2>2. status[d] = "building" => Pending(d)
    BY <1>3 DEF FlowInv, BuildsPend
  <2>3. docker[d] = "running" /\ d \notin answered \cup silent => \E p \in Pass : d \in Gating(p)
    BY <1>3 DEF FlowInv, Waiting, Untried, Known
  <2>4. status[d] = "deploying" /\ d \in answered \cup silent => Heard(d)
    BY <1>3 DEF FlowInv, OutcomesGo, Known
  <2> QED BY <2>1, <2>2, <2>3, <2>4 DEF Pending, Told, Heard, InPass, InUp, InSender
<1>4. YolInv /\ FlowInv => NothingGoesUnheard
  BY <1>3 DEF NothingGoesUnheard
<1> QED BY <1>1, <1>2, <1>4, PTL DEF YolSpec

(****************************************************************************)
(* What is to go out is asked for.                                          *)
(****************************************************************************)

\* What goes out was built.
OutIsBuilt == \A d \in App : status[d] = "deploying" => d \in Built

LEMMA OutIsBuiltStays ==
  ASSUME DeployInv, OutIsBuilt, RecordPart PROVE OutIsBuilt'
<1>0. DeployTypeOK
  BY DEF DeployInv
<1>1. CASE UNCHANGED deployVars
  BY <1>1 DEF OutIsBuilt, deployVars, Built
<1>2. ASSUME NEW d \in App, RecordDeploy(d) \/ RecordNotAsked(d)
      PROVE  OutIsBuilt'
  BY <1>0, <1>2 DEF RecordDeploy, RecordNotAsked, OutIsBuilt, Built, DeployTypeOK
<1>3. ASSUME NEW d \in App, NEW ok \in BOOLEAN, RecordBuild(d, ok) PROVE OutIsBuilt'
  BY <1>0, <1>3 DEF RecordBuild, OutIsBuilt, Built, DeployTypeOK
<1>4. ASSUME NEW d \in App, NEW ok \in BOOLEAN, RecordRollout(d, ok) PROVE OutIsBuilt'
  BY <1>0, <1>4 DEF RecordRollout, OutIsBuilt, Built, DeployTypeOK
<1>5. ASSUME NEW previous \in App, NEW d \in App, RecordRollback(previous, d) PROVE OutIsBuilt'
  BY <1>0, <1>5 DEF RecordRollback, OutIsBuilt, Built, DeployTypeOK
<1>6. ASSUME NEW h \in Named, RecordVerified(h) \/ RecordRemoved(h) PROVE OutIsBuilt'
  BY <1>6 DEF RecordVerified, RecordRemoved, OutIsBuilt, Built
<1> QED BY <1>1, <1>2, <1>3, <1>4, <1>5, <1>6 DEF RecordPart, Built

\* Nothing is built before there is a connection to build over.
NoneBuiltAlone == session = None => Built = {}

LEMMA NoneBuiltAloneStays ==
  ASSUME YolInv, Connected, NoneBuiltAlone, [YolNext]_yolVars, faults' = 0,
         ServerMode = "managed"
  PROVE  NoneBuiltAlone'
<1>0. /\ ~ Fault /\ DeployTypeOK /\ None \notin Reader
      /\ session = None => \A p \in Pass : pass[p].pc = "idle"
  BY FaultlessLasts, ProcessesDistinct DEF YolInv, DeployInv, Connected, Pass
<1>1. CASE session # None \/ UNCHANGED image
  <2>1. session' = None => session = None
    <3>1. ASSUME NEW p \in Pass, PassStep(p) \/ Report(p) PROVE UNCHANGED session
      BY <3>1 DEF PassStep, Begin, Plan, Sync, Drain, TakeAway, Create, GateAnswers,
                  GateGivesUp, Retire, Report
    <3>2. ASSUME MachineStep PROVE UNCHANGED session
      BY <3>2 DEF MachineStep, Stops, ComesBack, Arrives, Finishes
    <3>3. CASE AgentProceeds \/ \E p \in Pass : ReportPass(p)
      BY <3>1, <3>2, <3>3 DEF AgentProceeds, ReportPass
    <3>4. CASE \E r \in Reader : TakeSpec(r) \/ Attach(r)
      BY <1>0, <3>4 DEF TakeSpec, Receive, Attach, Connect
    <3>5. CASE \/ \E d \in App : Deploy(d) \/ AskBuild(d)
               \/ \E previous, d \in App : Rollback(previous, d)
               \/ \E h \in Named : ChangeHostname(h)
               \/ \E g \in Goroutine : ReadSpec(g) \/ SendSpec(g)
               \/ UNCHANGED yolVars
      BY <3>5 DEF yolVars, agentVars, agentButFaults, Deploy, AskBuild, Rollback,
                  ChangeHostname, ReadSpec, SendSpec
    <3>6. CASE \/ \E r \in Reader : \/ StartBuild(r) \/ Refuse(r) \/ Forget(r)
                                    \/ TakeBuildResult(r) \/ TakeApplied(r)
               \/ \E r \in Reader, d \in App : FinishRollout(r, d)
               \/ \E d \in App, ok \in BOOLEAN : FinishBuilding(d, ok)
      BY <3>6 DEF agentVars, agentButFaults, StartBuild, Refuse, Forget, TakeBuildResult,
                  TakeApplied, FinishRollout, FinishBuilding
    <3> QED
      BY <1>0, <3>3, <3>4, <3>5, <3>6
      DEF YolNext, Detach, Disconnect, AgentRestart, Restart, ServerRestart
  <2> QED BY <1>1, <2>1 DEF NoneBuiltAlone, Built
<1>2. CASE session = None /\ image' # image
  <2>1. ASSUME NEW previous \in App, NEW d \in App, Rollback(previous, d) PROVE FALSE
    BY <1>2, <2>1 DEF Rollback, RecordRollback, NoneBuiltAlone, Built
  <2> QED BY <1>0, <1>2, <2>1
          DEF YolNext, yolVars, deployVars, agentVars, wire, Deploy, RecordDeploy, AskBuild,
              RecordNotAsked, ChangeHostname, RecordVerified, RecordRemoved, ReadSpec,
              SendSpec, TakeSpec, StartBuild, Refuse, TakeBuildResult, TakeApplied, Attach,
              Forget, FinishRollout, RecordRollout, NotRecorded, FinishBuilding, ReportPass,
              Detach, AgentRestart, ServerRestart, AgentProceeds
<1> QED BY <1>1, <1>2

\* Whoever asks for a deploy or a rollback does nothing for it before it is recorded.
NoneBefore == \A d \in App : status[d] = "none" => sender[d].pc = "idle"

LEMMA NoneBeforeStays ==
  ASSUME YolInv, NoneBefore, [YolNext]_yolVars PROVE NoneBefore'
<1>0. /\ DeployTypeOK /\ App \subseteq Goroutine /\ Reader \cap App = {}
      /\ Named \cap App = {} /\ WireGrounded
      /\ sender \in [Goroutine -> SenderGrounded(Built, answered, silent)]
  BY GoroutinesDistinct DEF YolInv, DeployInv, WireGrounded, Goroutine
<1>1. \A d \in App : status'[d] = "none" => status[d] = "none"
  <2>1. RecordPart
    BY RecordPartOf DEF YolInv
  <2> QED BY <1>0, <2>1
          DEF RecordPart, RecordDeploy, RecordNotAsked, RecordBuild, RecordRollout,
              RecordRollback, RecordVerified, RecordRemoved, deployVars, DeployTypeOK, Built
<1>2. ASSUME \A d \in App : sender'[d] = sender[d] \/ sender'[d].pc = "idle"
      PROVE  NoneBefore'
  BY <1>1, <1>2 DEF NoneBefore
<1>3. ASSUME NEW d \in App, Deploy(d) \/ \E previous \in App : Rollback(previous, d)
      PROVE  NoneBefore'
  <2>1. status'[d] # "none" /\ \A e \in App \ {d} : sender'[e] = sender[e]
    BY <1>0, <1>3 DEF Deploy, Rollback, RecordDeploy, RecordRollback, DeployTypeOK
  <2> QED BY <1>1, <2>1 DEF NoneBefore
<1>4. ASSUME NEW g \in Goroutine, ReadSpec(g) PROVE NoneBefore'
  <2>1. /\ sender[g].pc # "idle"
        /\ \A h \in Goroutine \ {g} : sender'[h] = sender[h]
    BY <1>0, <1>4 DEF ReadSpec, Reads
  <2>2. \A d \in App : d = g => status'[d] # "none"
    BY <1>1, <2>1 DEF NoneBefore
  <2> QED BY <1>0, <1>1, <2>1, <2>2 DEF NoneBefore
<1>5. ASSUME NEW g \in Goroutine, SendSpec(g) PROVE NoneBefore'
  BY <1>0, <1>2, <1>5 DEF SendSpec, SenderGrounded
<1>6. ASSUME NEW r \in Reader, \/ TakeBuildResult(r) \/ TakeApplied(r) \/ Attach(r)
                               \/ \E d \in App : FinishRollout(r, d)
      PROVE  NoneBefore'
  <2>1. \A d \in App : sender'[d] = sender[d]
    BY <1>0, <1>6 DEF TakeBuildResult, TakeApplied, Attach, FinishRollout, NotRecorded
  <2> QED BY <1>2, <2>1
<1>7. ASSUME NEW h \in Named, ChangeHostname(h) PROVE NoneBefore'
  BY <1>0, <1>2, <1>7 DEF ChangeHostname
<1>8. ASSUME NEW d \in App, AskBuild(d) PROVE NoneBefore'
  BY <1>0, <1>2, <1>8 DEF AskBuild, Idle
<1>9. CASE ServerRestart
  BY <1>0, <1>2, <1>9 DEF ServerRestart, Idle
<1>10. CASE UNCHANGED sender
  BY <1>2, <1>10
<1> QED
  BY <1>3, <1>4, <1>5, <1>6, <1>7, <1>8, <1>9, <1>10
  DEF YolNext, yolVars, TakeSpec, StartBuild, Refuse, Forget, FinishBuilding, ReportPass,
      Detach, AgentRestart, AgentProceeds

\* Another specification is about to be read.
ToBeRead == \E g \in Goroutine : sender[g].pc \in {"greet", "reconcile"}

\* No goroutine has another specification to send than it had.
SendsAsBefore ==
    \A g \in Goroutine :
        /\ sender'[g].pc = "send" <=> sender[g].pc = "send"
        /\ sender[g].pc = "send" => sender'[g].spec = sender[g].spec

\* What is asked for last stays so while what is on the way does.
LEMMA AskedKept ==
  ASSUME NEW d \in App, SendsAsBefore, UNCHANGED held, NEW k \in Nat,
         \A i \in Nat : OnWay(i)' <=> i # 0 /\ OnWay(i + k),
         \A i \in Nat : OnWay(i)' => down'[i].spec = down[i + k].spec,
         \A i \in Nat : OnWay(i) => i > k
  PROVE  AskedLast(d) => AskedLast(d)'
<1>1. /\ Sending' = Sending
      /\ \A g \in Sending : sender'[g].spec = sender[g].spec
  BY DEF Sending, SendsAsBefore
<1>2. \A i : i \in Arriving <=> i \in Nat /\ OnWay(i)
  BY DEF Arriving, OnWay
<1>3. \A i : i \in Arriving' <=> i \in Nat /\ OnWay(i)'
  BY DEF Arriving, OnWay
<1>4. CASE \E g \in Sending : d \in sender[g].spec.want
  BY <1>1, <1>4 DEF AskedLast
<1>5. ASSUME Sending = {}, NEW i \in Arriving, d \in down[i].spec.want,
             \A j \in Arriving : j <= i
      PROVE  AskedLast(d)'
  <2>1. i \in Nat /\ i - k \in Nat /\ i - k # 0 /\ (i - k) + k = i
    BY <1>2, <1>5
  <2>2. PICK m \in Nat : m = i - k
    BY <2>1
  <2>3. m \in Arriving' /\ d \in down'[m].spec.want
    BY <1>2, <1>3, <1>5, <2>1, <2>2
  <2>4. \A j \in Arriving' : j <= m
    BY <1>2, <1>3, <1>5, <2>1, <2>2
  <2> QED BY <1>1, <1>5, <2>3, <2>4 DEF AskedLast
<1>6. CASE Sending = {} /\ Arriving = {} /\ held # NoSpec /\ d \in held.want
  <2>1. Arriving' = {}
    BY <1>2, <1>3, <1>6
  <2> QED BY <1>1, <1>6, <2>1 DEF AskedLast
<1> QED BY <1>4, <1>5, <1>6 DEF AskedLast

\* So it does when an order to build is sent or taken, or nothing is.
LEMMA AskedRests ==
  ASSUME DownTyped, NEW d \in App, SendsAsBefore, UNCHANGED held,
         \/ UNCHANGED down
         \/ \E e : down' = Append(down, Build(e))
         \/ down # <<>> /\ down' = Tail(down) /\ Head(down).type = "build"
  PROVE  AskedLast(d) => AskedLast(d)'
<1>1. CASE UNCHANGED down
  <2>1. \A i \in Nat : i + 0 = i
    OBVIOUS
  <2>2. \A i \in Nat : OnWay(i)' <=> i # 0 /\ OnWay(i + 0)
    BY <1>1, <2>1 DEF OnWay
  <2>3. /\ \A i \in Nat : OnWay(i)' => down'[i].spec = down[i + 0].spec
        /\ \A i \in Nat : OnWay(i) => i > 0
    BY <1>1, <2>1 DEF OnWay
  <2> QED BY <2>2, <2>3, AskedKept
<1>2. ASSUME NEW e, down' = Append(down, Build(e)) PROVE AskedLast(d) => AskedLast(d)'
  <2>0. /\ Len(down) \in Nat /\ Len(down') = Len(down) + 1 /\ down'[Len(down) + 1] = Build(e)
        /\ \A i \in 1..Len(down) : down'[i] = down[i]
    BY <1>2 DEF DownTyped
  <2>1. \A i \in Nat : i + 0 = i
    OBVIOUS
  <2>2. \A i \in Nat : OnWay(i)' <=> i # 0 /\ OnWay(i + 0)
    BY <2>0, <2>1 DEF OnWay, Build
  <2>3. /\ \A i \in Nat : OnWay(i)' => down'[i].spec = down[i + 0].spec
        /\ \A i \in Nat : OnWay(i) => i > 0
    BY <2>0, <2>1, <2>2 DEF OnWay
  <2> QED BY <2>2, <2>3, AskedKept
<1>3. CASE down # <<>> /\ down' = Tail(down) /\ Head(down).type = "build"
  <2>0. /\ Len(down) \in Nat /\ Len(down') = Len(down) - 1 /\ Head(down) = down[1]
        /\ \A i \in 1..Len(down') : down'[i] = down[i + 1]
    BY <1>3 DEF DownTyped
  <2>2. \A i \in Nat : OnWay(i)' <=> i # 0 /\ OnWay(i + 1)
    BY <2>0 DEF OnWay
  <2>3. \A i \in Nat : OnWay(i)' => down'[i].spec = down[i + 1].spec
    BY <2>0 DEF OnWay
  <2>4. ~ OnWay(1)
    BY <1>3, <2>0 DEF OnWay
  <2>5. \A i \in Nat : OnWay(i) => i > 1
    <3>1. ASSUME NEW i \in Nat, OnWay(i) PROVE i \in 1..Len(down) /\ i # 1
      BY <2>4, <3>1 DEF OnWay
    <3> QED BY <2>0, <3>1
  <2> QED BY <2>2, <2>3, <2>5, AskedKept
<1> QED BY <1>1, <1>2, <1>3

\* Each version that is going out and not known of is asked for last, or about to be.
AllAsked ==
    \A d \in App : status[d] = "deploying" /\ Untried(d) => ToBeRead \/ AskedLast(d)

\* A step that sends the agent no specification and puts no version on its way out.
LEMMA AllAskedRests ==
  ASSUME DownTyped, AllAsked, ToBeRead => ToBeRead', SendsAsBefore, UNCHANGED held,
         \/ UNCHANGED down
         \/ \E e : down' = Append(down, Build(e))
         \/ down # <<>> /\ down' = Tail(down) /\ Head(down).type = "build",
         \A d \in App : status'[d] = "deploying" /\ Untried(d)' =>
                          status[d] = "deploying" /\ Untried(d)
  PROVE  AllAsked'
  BY AskedRests DEF AllAsked

\* What is read asks for all that is going out.
LEMMA AllAskedRead ==
  ASSUME YolInv, OutIsBuilt, ServerMode = "managed",
         NEW g \in Goroutine, NEW c, SpecRead(g, c), UNCHANGED status
  PROVE  AllAsked'
<1>0. sender \in [Goroutine -> SenderGrounded(Built, answered, silent)]
  BY DEF YolInv, WireGrounded
<1> DEFINE st == [sender[g] EXCEPT !.pc = "send", !.conn = c, !.spec = SpecFor]
<1>1. sender' = [sender EXCEPT ![g] = st]
  BY DEF SpecRead
<1>2. st.pc = "send" /\ st.spec = SpecFor
  BY <1>0 DEF SenderGrounded
<1> HIDE DEF st
<1>3. g \in Sending' /\ sender'[g].spec = SpecFor
  BY <1>0, <1>1, <1>2 DEF Sending
<1>4. ASSUME NEW d \in App, status[d] = "deploying" PROVE d \in SpecFor.want
  <2>1. d \in Out
    BY <1>4 DEF OutIsBuilt, Built, Out
  <2> QED BY <2>1, SpecForAsksOut DEF YolInv, Asked
<1>5. ASSUME NEW d \in App, status[d] = "deploying" PROVE AskedLast(d)'
  <2>1. d \in sender'[g].spec.want
    BY <1>3, <1>4, <1>5
  <2> QED BY <1>3, <2>1 DEF AskedLast
<1> QED BY <1>0, <1>5 DEF AllAsked

\* What is sent is then the last that is on its way.
LEMMA AllAskedSent ==
  ASSUME YolInv, OneConnection, AllAsked, order # "crossed", NEW g \in Goroutine, SendSpec(g)
  PROVE  AllAsked'
<1>0. /\ sender \in [Goroutine -> SenderGrounded(Built, answered, silent)]
      /\ DownTyped /\ sender[g].pc = "send" /\ g \in Sending
      /\ down' = Append(down, ApplySpec(sender[g].spec))
      /\ UNCHANGED <<status, answered, silent>>
      /\ \A h \in Goroutine : sender[h].pc = "send" => h = g
  BY DEF YolInv, WireGrounded, DownTyped, SendSpec, OneConnection, agentVars, deployVars,
         history, Sending, InOrder
<1>1. Sending' = {}
  <2> DEFINE st == [sender[g] EXCEPT !.pc = "idle", !.conn = None, !.spec = NoSpec]
  <2>1. sender' = [sender EXCEPT ![g] = st] /\ st.pc = "idle"
    BY <1>0 DEF SendSpec, SenderGrounded
  <2> HIDE DEF st
  <2> QED BY <1>0, <2>1 DEF Sending
<1>2. ToBeRead => ToBeRead'
  BY <1>0 DEF ToBeRead, SendSpec
<1>3. PICK n \in Nat : n = Len(down) + 1
  BY <1>0 DEF DownTyped
<1>4. /\ n \in Arriving' /\ down'[n].spec = sender[g].spec
      /\ \A j \in Arriving' : j <= n
  BY <1>0, <1>3 DEF DownTyped, Arriving, ApplySpec
<1>5. ASSUME NEW d \in App, status[d] = "deploying", Untried(d), ~ ToBeRead
      PROVE  AskedLast(d)'
  <2>1. PICK h \in Sending : d \in sender[h].spec.want
    BY <1>0, <1>5 DEF AllAsked, AskedLast
  <2>2. h = g
    BY <1>0, <2>1 DEF Sending
  <2> QED BY <1>1, <1>4, <2>1, <2>2 DEF AskedLast
<1> QED BY <1>0, <1>2, <1>5 DEF AllAsked, Untried, Known

\* What is taken is held, and is the last there is if nothing is on its way behind it.
LEMMA AllAskedTaken ==
  ASSUME YolInv, AllAsked, NEW r \in Reader, TakeSpec(r)
  PROVE  AllAsked'
<1>0. /\ DownTyped /\ down # <<>> /\ down' = Tail(down) /\ Head(down) = down[1]
      /\ held' = down[1].spec /\ held' # NoSpec /\ down[1].type = "applySpec"
      /\ UNCHANGED <<sender, status, answered, silent>>
  BY HeadDown, SpecsTyped
  DEF YolInv, WireGrounded, DownTyped, TakeSpec, Receive, history, deployVars, BuiltSpecs
<1>1. /\ Len(down) \in Nat /\ Len(down') = Len(down) - 1 /\ Len(down) >= 1
      /\ \A i \in 1..Len(down') : down'[i] = down[i + 1]
  BY <1>0 DEF DownTyped
<1>2. \A i \in Nat : i \in Arriving' => i + 1 \in Arriving /\ i >= 1
  BY <1>0, <1>1 DEF Arriving
<1>3. Arriving \subseteq Nat /\ Arriving' \subseteq Nat /\ 1 \in Arriving
  BY <1>0, <1>1 DEF Arriving
<1>4. (ToBeRead <=> ToBeRead') /\ Sending' = Sending
  BY <1>0 DEF ToBeRead, Sending
<1>5. ASSUME NEW d \in App, AskedLast(d) PROVE AskedLast(d)'
  <2>1. CASE \E g \in Sending : d \in sender[g].spec.want
    BY <1>0, <1>4, <2>1 DEF AskedLast
  <2>2. ASSUME Sending = {}, NEW i \in Arriving, d \in down[i].spec.want,
               \A j \in Arriving : j <= i
        PROVE  AskedLast(d)'
    <3>1. CASE i = 1
      <4>1. ASSUME NEW j \in Arriving' PROVE FALSE
        <5>1. j \in Nat /\ j + 1 \in Arriving /\ j >= 1
          BY <1>2, <1>3
        <5> QED BY <2>2, <3>1, <5>1
      <4>2. d \in held'.want
        BY <1>0, <2>2, <3>1
      <4> QED BY <1>0, <1>4, <2>2, <4>1, <4>2 DEF AskedLast
    <3>2. CASE i # 1
      <4>1. PICK k \in Nat : k = i - 1 /\ k \in 1..Len(down')
        BY <1>1, <1>3, <2>2, <3>2 DEF Arriving
      <4>2. k \in Arriving' /\ d \in down'[k].spec.want
        <5>1. k + 1 = i /\ down'[k] = down[i]
          BY <1>1, <1>3, <4>1
        <5> QED BY <2>2, <4>1, <5>1 DEF Arriving
      <4>3. ASSUME NEW j \in Arriving' PROVE j <= k
        <5>1. j \in Nat /\ j + 1 \in Arriving
          BY <1>2, <1>3
        <5> QED BY <1>3, <2>2, <4>1, <5>1
      <4> QED BY <1>4, <2>2, <4>2, <4>3 DEF AskedLast
    <3> QED BY <3>1, <3>2
  <2> QED BY <1>3, <1>5, <2>1, <2>2 DEF AskedLast
<1> QED BY <1>0, <1>4, <1>5 DEF AllAsked, Untried, Known

LEMMA AllAskedStays ==
  ASSUME YolInv, Connected, OneConnection, OutIsBuilt, NoneBuiltAlone, NoneBefore,
         order # "crossed" => AllAsked, [YolNext]_yolVars,
         faults' = 0, order' # "crossed", ServerMode = "managed"
  PROVE  AllAsked'
<1>0. /\ ~ Fault /\ WireGrounded /\ DownTyped /\ DeployTypeOK
      /\ sender \in [Goroutine -> SenderGrounded(Built, answered, silent)]
      /\ Reader \subseteq Goroutine /\ App \subseteq Goroutine
      /\ Reader \cap App = {} /\ Named \subseteq Goroutine /\ None \notin App /\ Grows
      /\ session \in Reader \cup {None}
  BY FaultlessLasts, AllGrows
  DEF YolInv, WireGrounded, DownTyped, Goroutine, Name, Owned, DeployInv, AgentInv, AgentTypeOK
<1>a. ASSUME NEW g \in Goroutine, ReadSpec(g) PROVE AllAsked'
  <2>0. UNCHANGED <<status, image, session, hub>>
    BY <1>a DEF ReadSpec, deployVars, agentButFaults, wire
  <2>1. ASSUME NEW c \in Reader, SpecRead(g, c) PROVE AllAsked'
    BY <2>0, <2>1, AllAskedRead
  <2>2. CASE hub = None
    <3>1. \A d \in App : status'[d] # "deploying"
      BY <2>0, <2>2 DEF OneConnection, NoneBuiltAlone, OutIsBuilt
    <3> QED BY <3>1 DEF AllAsked
  <2> QED BY <1>0, <1>a, <2>1, <2>2, ReadOrDone
<1>b. CASE order = "crossed"
  <2>1. PICK g \in Goroutine : ReadSpec(g)
    BY <1>b
    DEF YolNext, yolVars, Deploy, AskBuild, Rollback, ChangeHostname, SendSpec, TakeSpec,
        StartBuild, Refuse, TakeBuildResult, TakeApplied, Attach, Forget, FinishRollout,
        FinishBuilding, ReportPass, Detach, AgentRestart, ServerRestart, AgentProceeds
  <2> QED BY <1>a, <2>1
<1>c. SUFFICES ASSUME AllAsked, order # "crossed" PROVE AllAsked'
  BY <1>b
<1> DEFINE Meanwhile ==
             \A d \in App : status'[d] = "deploying" => status[d] = "deploying"
<1>1. Meanwhile => \A d \in App : status'[d] = "deploying" /\ Untried(d)' =>
                                    status[d] = "deploying" /\ Untried(d)
  BY <1>0 DEF Grows, Untried, Known
<1> HIDE DEF Meanwhile
<1>2. UNCHANGED status => Meanwhile
  BY DEF Meanwhile
<1>3. UNCHANGED sender => SendsAsBefore /\ (ToBeRead => ToBeRead')
  BY DEF SendsAsBefore, ToBeRead
<1>4. ASSUME NEW g \in Goroutine, NEW st, sender' = [sender EXCEPT ![g] = st],
             st.pc # "send", sender[g].pc \in {"idle", "build"}
      PROVE  SendsAsBefore /\ (ToBeRead => ToBeRead')
  BY <1>0, <1>4 DEF SendsAsBefore, ToBeRead
<1>5. ASSUME NEW g \in Goroutine, sender'[g].pc \in {"greet", "reconcile"} PROVE AllAsked'
  BY <1>5 DEF AllAsked, ToBeRead
<1>6. ASSUME NEW d \in App, Deploy(d) PROVE AllAsked'
  <2> DEFINE st == [sender[d] EXCEPT !.pc = "build"]
  <2>1. sender' = [sender EXCEPT ![d] = st] /\ st.pc = "build"
    BY <1>0, <1>6 DEF Deploy, SenderGrounded
  <2>2. sender[d].pc \in {"idle", "build"}
    BY <1>6 DEF Deploy, RecordDeploy, NoneBefore
  <2> HIDE DEF st
  <2>3. Meanwhile
    BY <1>0, <1>6 DEF Deploy, RecordDeploy, DeployTypeOK, Meanwhile
  <2> QED BY <1>0, <1>1, <1>4, <1>6, <2>1, <2>2, <2>3, AllAskedRests
          DEF Deploy, agentVars, memory, wire
<1>7. ASSUME NEW d \in App, AskBuild(d) PROVE AllAsked'
  <2>1. SendsAsBefore /\ (ToBeRead => ToBeRead')
    <3>1. /\ sender' = [sender EXCEPT ![d] = Idle] /\ sender[d].pc \in {"idle", "build"}
          /\ Idle.pc # "send" /\ d \in Goroutine
      BY <1>0, <1>7 DEF AskBuild, Idle
    <3> QED BY <1>4, <3>1
  <2>2. Meanwhile
    BY <1>0, <1>7 DEF AskBuild, RecordNotAsked, DeployTypeOK, Meanwhile, deployVars
  <2> QED BY <1>0, <1>1, <1>7, <2>1, <2>2, AllAskedRests DEF AskBuild, agentVars, memory
<1>8. ASSUME NEW r \in Reader, TakeBuildResult(r) PROVE AllAsked'
  <2> DEFINE d  == Head(up).deployment
             st == [sender[r] EXCEPT !.pc = IF Head(up).succeeded THEN "reconcile" ELSE "idle"]
  <2>1. /\ RecordBuild(d, Head(up).succeeded) /\ sender' = [sender EXCEPT ![r] = st]
        /\ sender[r].pc = "idle" /\ UNCHANGED <<held, down>>
        /\ d \in App /\ Head(up).succeeded \in BOOLEAN
    BY <1>0, <1>8, HeadUp
    DEF TakeBuildResult, NotRecorded, Listening, agentButFaults, memory, YolInv
  <2>2. st.pc = IF Head(up).succeeded THEN "reconcile" ELSE "idle"
    BY <1>0 DEF SenderGrounded
  <2> HIDE DEF st, d
  <2>3. CASE Head(up).succeeded
    BY <1>0, <1>5, <2>1, <2>2, <2>3
  <2>4. CASE ~ Head(up).succeeded
    <3>1. Meanwhile
      BY <1>0, <2>1, <2>4 DEF RecordBuild, DeployTypeOK, Meanwhile
    <3> QED BY <1>0, <1>1, <1>4, <2>1, <2>2, <2>4, <3>1, <1>c, AllAskedRests
  <2> QED BY <2>3, <2>4
<1>9. ASSUME NEW r \in Reader, TakeApplied(r) PROVE AllAsked'
  <2> DEFINE st == [sender[r] EXCEPT !.healthy = Head(up).healthy,
                                     !.unproven = Head(up).unproven]
  <2>1. sender' = [sender EXCEPT ![r] = st] /\ st.pc = "idle" /\ sender[r].pc = "idle"
    BY <1>0, <1>9 DEF TakeApplied, Listening, SenderGrounded
  <2> HIDE DEF st
  <2> QED BY <1>0, <1>1, <1>2, <1>4, <1>9, <2>1, AllAskedRests
          DEF TakeApplied, agentVars, memory, deployVars
<1>10. ASSUME NEW r \in Reader, NEW d \in App, FinishRollout(r, d) PROVE AllAsked'
  <2> DEFINE heard    == [sender[r] EXCEPT !.healthy = @ \ {d}, !.pc = "reconcile"]
             silenced == [sender[r] EXCEPT !.unproven = @ \ {d}]
  <2>1. /\ \/ sender' = [sender EXCEPT ![r] = heard]
           \/ sender' = [sender EXCEPT ![r] = silenced] /\ RecordRollout(d, FALSE)
        /\ sender[r].pc = "idle" /\ UNCHANGED <<held, down>>
    BY <1>0, <1>10 DEF FinishRollout, NotRecorded, agentButFaults, memory, wire
  <2>2. heard.pc = "reconcile" /\ silenced.pc = "idle"
    BY <1>0, <2>1 DEF SenderGrounded
  <2> HIDE DEF heard, silenced
  <2>3. CASE sender' = [sender EXCEPT ![r] = heard]
    BY <1>0, <1>5, <2>2, <2>3
  <2>4. CASE sender' = [sender EXCEPT ![r] = silenced] /\ RecordRollout(d, FALSE)
    <3>1. Meanwhile
      BY <1>0, <2>4 DEF RecordRollout, DeployTypeOK, Meanwhile
    <3> QED BY <1>0, <1>1, <1>4, <2>1, <2>2, <2>4, <3>1, <1>c, AllAskedRests
  <2> QED BY <2>1, <2>3, <2>4
<1>11. ASSUME NEW r \in Reader, Attach(r) PROVE AllAsked'
  <2>1. sender'[r].pc = "greet"
    BY <1>0, <1>11 DEF Attach, SenderGrounded
  <2> QED BY <1>0, <1>5, <2>1
<1>12. ASSUME NEW r \in Reader, StartBuild(r) \/ Forget(r) PROVE AllAsked'
  BY <1>0, <1>1, <1>2, <1>3, <1>12, AllAskedRests
  DEF StartBuild, Forget, agentVars, memory, deployVars
<1>13. ASSUME NEW r \in Reader, Refuse(r) PROVE FALSE
  BY <1>0, <1>13 DEF Refuse, Connected, YolInv, AgentInv, Pass, Name, Owned
<1>14. ASSUME \/ \E d \in App, ok \in BOOLEAN : FinishBuilding(d, ok)
              \/ \E p \in Pass : ReportPass(p)
       PROVE  AllAsked'
  <2>1. UNCHANGED <<held, down, sender, status>>
    BY <1>14 DEF FinishBuilding, ReportPass, Report, agentVars, memory, deployVars
  <2> QED BY <1>0, <1>1, <1>2, <1>3, <2>1, <1>c, AllAskedRests
<1>15. CASE AgentProceeds
  <2>1. ASSUME NEW p \in Pass, PassStep(p) PROVE UNCHANGED held
    BY <2>1 DEF PassStep, Begin, Plan, Sync, Drain, TakeAway, Create, GateAnswers,
                GateGivesUp, Retire, memory
  <2>2. ASSUME MachineStep PROVE UNCHANGED held
    BY <2>2 DEF MachineStep, Stops, ComesBack, Arrives, Finishes, memory
  <2>3. UNCHANGED <<held, down, sender, status>>
    BY <1>15, <2>1, <2>2 DEF AgentProceeds, wire, deployVars
  <2> QED BY <1>0, <1>1, <1>2, <1>3, <2>3, <1>c, AllAskedRests
<1>16. CASE UNCHANGED yolVars
  BY <1>0, <1>1, <1>2, <1>3, <1>16, <1>c, AllAskedRests
  DEF yolVars, agentVars, memory, wire, deployVars
<1>17. ASSUME NEW g \in Goroutine, sender' = [sender EXCEPT ![g].pc = "reconcile"]
       PROVE  AllAsked'
  <2>1. sender'[g].pc = "reconcile"
    BY <1>0, <1>17 DEF SenderGrounded
  <2> QED BY <1>5, <2>1
<1>18. ASSUME NEW previous \in App, NEW d \in App, Rollback(previous, d) PROVE AllAsked'
  BY <1>0, <1>17, <1>18 DEF Rollback
<1>19. ASSUME NEW h \in Named, ChangeHostname(h) PROVE AllAsked'
  BY <1>0, <1>17, <1>19 DEF ChangeHostname
<1> QED
  BY <1>0, <1>6, <1>7, <1>8, <1>9, <1>10, <1>11, <1>12, <1>13, <1>14, <1>15, <1>16, <1>18,
     <1>19, <1>a, <1>c, AllAskedSent, AllAskedTaken
  DEF YolNext, Detach, Disconnect, AgentRestart, Restart, ServerRestart

\* All of it, for as long as nothing goes wrong and the last specification that was read is
\* the last that is written.
AskInv ==
    /\ OutIsBuilt /\ NoneBefore
    /\ faults = 0 /\ ServerMode = "managed" =>
         /\ OneConnection /\ NoneBuiltAlone
         /\ order # "crossed" => AllAsked

LEMMA InitAskInv == YolInit => AskInv
<1> SUFFICES ASSUME YolInit PROVE AskInv
  OBVIOUS
<1>1. /\ sender = [g \in Goroutine |-> Idle] /\ hub = None /\ session = None
      /\ \A d \in App : status[d] = "none" /\ image[d] = FALSE
      /\ App \subseteq Goroutine
  BY DEF YolInit, AgentInit, DeployInit, Goroutine
<1> QED BY <1>1 DEF AskInv, OutIsBuilt, NoneBefore, NoneBuiltAlone, Built, OneConnection,
                    AllAsked, Idle

LEMMA AskInvStays == ASSUME YolInv, FlowInv, AskInv, [YolNext]_yolVars PROVE AskInv'
<1>1. OutIsBuilt' /\ NoneBefore'
  BY OutIsBuiltStays, RecordPartOf, NoneBeforeStays DEF AskInv, YolInv
<1>2. ASSUME faults' = 0, ServerMode = "managed"
      PROVE  OneConnection' /\ NoneBuiltAlone' /\ (order' # "crossed" => AllAsked')
  <2>1. /\ OneConnection /\ NoneBuiltAlone /\ (order # "crossed" => AllAsked)
        /\ OutIsBuilt /\ NoneBefore /\ Connected
    BY <1>2, FaultlessLasts DEF AskInv, FlowInv
  <2> QED BY <1>2, <2>1, OneConnectionStays, NoneBuiltAloneStays, AllAskedStays
<1> QED BY <1>1, <1>2 DEF AskInv

\* A version that was built and is not known of is never forgotten on a managed server on
\* which nothing fails: the last specification on its way, or the one that is held when
\* none is, asks for it, unless another is about to be read (deploy/builds.go FinishBuild
\* and FinishRollout, deploy/domains.go, server/spec.go SendSpec), or two goroutines read
\* and wrote out of turn and no specification was read since both were written.
THEOREM TheLastSpecAsks == YolSpec => []VersionsAreAsked
<1>1. YolInit => YolInv /\ FlowInv /\ AskInv
  BY InitYolInv, InitFlowInv, InitAskInv
<1>2. YolInv /\ FlowInv /\ AskInv /\ [YolNext]_yolVars => YolInv' /\ FlowInv' /\ AskInv'
  BY YolNextKeeps, FlowInvStays, AskInvStays
<1>3. AskInv => VersionsAreAsked
  BY DEF AskInv, AllAsked, VersionsAreAsked, ToBeRead, Untried, Known
<1> QED BY <1>1, <1>2, <1>3, PTL DEF YolSpec
==============================================================================
