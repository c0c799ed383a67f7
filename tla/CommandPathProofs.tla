------------------------- MODULE CommandPathProofs -------------------------
(***************************************************************************)
(* Proofs about CommandPath, for any set of commands, any actions and any  *)
(* bound on the downlink. The path is the hub and the agent with a network *)
(* in between, so what HubCommandsProofs and AgentExecutorProofs show of   *)
(* the two carries over; what relates them is proved here.                 *)
(***************************************************************************)
EXTENDS CommandPath, HubCommandsProofs, AgentExecutorProofs

(***************************************************************************)
(* The path is a hub and an agent.                                         *)
(***************************************************************************)
LEMMA HeadAck == ASSUME NEW s \in Seq(Acks), s # <<>> PROVE Head(s) \in Acks
  BY HeadTailProperties

\* Every step of the path is a step of the hub or leaves the hub alone.
LEMMA PathStepsHub == ASSUME NetTypeOK, [Next]_vars PROVE [HubNext]_hubVars
<1>1. CASE HubHandlesAck
  <2>1. Head(downlink) \in Acks
    BY <1>1, HeadAck DEF HubHandlesAck, NetTypeOK
  <2> QED
    BY <1>1, <2>1 DEF HubHandlesAck, HubNext
<1>2. CASE \E c \in Commands : HubIssues(c) \/ HubLearnsAccepted(c) \/ HubTells(c)
  BY <1>2 DEF HubIssues, HubLearnsAccepted, HubTells, HubNext
<1>3. CASE HubSession \/ HubHandlesStatus \/ HubSessionEnds \/ HubProcessRestarts
  BY <1>3 DEF HubSession, HubHandlesStatus, HubSessionEnds, HubProcessRestarts, HubNext
<1>4. CASE UNCHANGED hubVars
  BY <1>4
<1> QED
  BY <1>1, <1>2, <1>3, <1>4
  DEF Next, vars, BrokerAcceptsCommand, AgentReceives, AgentThread, BrokerTakesAck,
      BrokerTakesAckUnconfirmed, AgentLinkUp, AgentLinkDown, MachineChanges

\* Every step of the path is a step of the agent or leaves the agent alone.
LEMMA PathStepsAgent == ASSUME [Next]_vars PROVE [AgentNext]_agentVars
<1>1. CASE \E c \in Commands : AgentReceives(c) \/ AgentThread(c)
  BY <1>1 DEF AgentReceives, AgentThread, AgentNext
<1>2. CASE BrokerTakesAck \/ BrokerTakesAckUnconfirmed
  BY <1>2 DEF BrokerTakesAck, BrokerTakesAckUnconfirmed, AgentNext
<1>3. CASE AgentLinkUp \/ AgentLinkDown \/ MachineChanges
  BY <1>3 DEF AgentLinkUp, AgentLinkDown, MachineChanges, AgentNext
<1>4. CASE UNCHANGED agentVars
  BY <1>4
<1> QED
  BY <1>1, <1>2, <1>3, <1>4
  DEF Next, vars, HubIssues, HubLearnsAccepted, HubTells, BrokerAcceptsCommand,
      HubSession, HubHandlesStatus, HubHandlesAck, HubSessionEnds, HubProcessRestarts,
      ConnectionLost

(***************************************************************************)
(* Types.                                                                  *)
(***************************************************************************)
\* Only the broker's two steps on acknowledgements add to the downlink.
LEMMA NetTypeStep ==
  ASSUME AgentTypeOK, NetTypeOK, [Next]_vars
  PROVE  NetTypeOK'
<1>1. ASSUME NEW c \in Commands,
             HubIssues(c) \/ HubLearnsAccepted(c) \/ HubTells(c)
      PROVE  NetTypeOK'
  BY <1>1 DEF HubIssues, HubLearnsAccepted, HubTells, NetTypeOK
<1>2. ASSUME NEW c \in Commands, BrokerAcceptsCommand(c) PROVE NetTypeOK'
  BY <1>2 DEF BrokerAcceptsCommand, NetTypeOK
<1>3. ASSUME NEW c \in Commands, AgentReceives(c) PROVE NetTypeOK'
  BY <1>3 DEF AgentReceives, NetTypeOK
<1>4. CASE HubHandlesAck
  <2>1. downlink' \in Seq(Acks)
    BY <1>4, HeadTailProperties DEF HubHandlesAck, NetTypeOK
  <2> QED
    BY <1>4, <2>1 DEF HubHandlesAck, NetTypeOK
<1>5. CASE HubSessionEnds \/ HubProcessRestarts
  <2>1. ConnectionLost
    BY <1>5 DEF HubSessionEnds, HubProcessRestarts
  <2>2. uplink' \subseteq Commands /\ accepted' \subseteq Commands /\ inbox' \subseteq Commands
    BY <2>1 DEF ConnectionLost, NetTypeOK
  <2>3. downlink' \in Seq(Acks)
    BY <2>1, EmptySeq DEF ConnectionLost
  <2> QED
    BY <2>2, <2>3 DEF NetTypeOK
<1>6. CASE BrokerTakesAck \/ BrokerTakesAckUnconfirmed
  <2>1. Head(outbox) \in Acks
    BY <1>6, HeadAck DEF BrokerTakesAck, BrokerTakesAckUnconfirmed, AckConfirmed, AgentTypeOK
  <2>2. downlink' \in Seq(Acks)
    BY <1>6, <2>1 DEF BrokerTakesAck, BrokerTakesAckUnconfirmed, Forward, NetTypeOK
  <2> QED
    BY <1>6, <2>2 DEF BrokerTakesAck, BrokerTakesAckUnconfirmed, NetTypeOK
<1>7. CASE AgentLinkDown
  BY <1>7 DEF AgentLinkDown, NetTypeOK
<1>8. CASE UNCHANGED netVars
  BY <1>8 DEF netVars, NetTypeOK
<1> QED
  BY <1>1, <1>2, <1>3, <1>4, <1>5, <1>6, <1>7, <1>8
  DEF Next, vars, HubSession, HubHandlesStatus, AgentThread, AgentLinkUp, MachineChanges

\* The hub's and the agent's own invariants, with the types of the network.
BaseInv == HubInv /\ AgentInv /\ NetTypeOK

LEMMA BaseStep == ASSUME BaseInv, [Next]_vars PROVE BaseInv'
<1>1. HubInv'
  BY PathStepsHub, HubTypeStep, WaiterStep, CurrentUntoldStep DEF BaseInv, HubInv
<1>2. AgentInv'
  BY PathStepsAgent, AgentTypeStep, OneActionStep DEF BaseInv, AgentInv
<1>3. NetTypeOK'
  BY NetTypeStep DEF BaseInv, AgentInv
<1> QED
  BY <1>1, <1>2, <1>3 DEF BaseInv

LEMMA BaseInit == ASSUME Init PROVE BaseInv
<1>1. HubInv
  BY NoCommandAssumption
  DEF Init, HubInit, HubInv, HubTypeOK, WaiterFollowsHandler, CurrentUntold, Session,
      Handler, Outcome, Answer
<1>2. AgentInv
  BY NoCommandAssumption
  DEF Init, AgentInit, AgentInv, AgentTypeOK, OneActionAtATime, Critical, Machine, Thread
<1> QED
  BY <1>1, <1>2 DEF Init, BaseInv, NetTypeOK

(***************************************************************************)
(* What a step can do to the record of what was said and performed.        *)
(***************************************************************************)
\* Acknowledgements of different commands and outcomes are different.
LEMMA AckInjective ==
  \A c, d \in Commands, ok, no \in BOOLEAN : Ack(c, ok) = Ack(d, no) => c = d /\ ok = no
  BY DEF Ack

\* The two ways in which a step changes the record of one command: it says
\* something about a command that has not been performed, or it performs one that
\* nothing was refused of, after a yes, with its yes, with a mistaken no, or silently.
Says(c, ok) ==
    /\ performed[c] = 0
    /\ published' = published \cup {Ack(c, ok)}
    /\ ok => TakesHostDown(ActionOf[c]) /\ Ack(c, FALSE) \notin published
    /\ UNCHANGED performed

Performs(c) ==
    /\ performed[c] = 0
    /\ Ack(c, FALSE) \notin published
    /\ TakesHostDown(ActionOf[c]) => Ack(c, TRUE) \in published
    /\ performed' = [performed EXCEPT ![c] = 1]
    /\ \/ published' = published
       \/ published' = published \cup {Ack(c, FALSE)}
       \/ ~TakesHostDown(ActionOf[c]) /\ published' = published \cup {Ack(c, TRUE)}

\* What perform does to the record.
LEMMA EffectRecord ==
  ASSUME AgentTypeOK, NEW c \in Commands, NEW took \in BOOLEAN, TakeEffect(c, took),
         performed[c] = 0
  PROVE  performed' = IF took THEN [performed EXCEPT ![c] = 1] ELSE performed
<1>1. /\ performed \in [Commands -> Nat]
      /\ performed' = [performed EXCEPT ![c] = IF took THEN 0 + 1 ELSE 0]
  BY DEF TakeEffect, AgentTypeOK
<1>2. CASE took
  BY <1>1, <1>2
<1>3. CASE ~took
  BY <1>1, <1>3
<1> QED
  BY <1>2, <1>3

LEMMA RecordStep ==
  ASSUME AgentTypeOK, \A c \in Commands : InItsStage(c), [AgentNext]_agentVars
  PROVE  \/ UNCHANGED <<published, performed>>
         \/ \E c \in Commands :
               /\ thread[c] \in Critical
               /\ Performs(c) \/ \E ok \in BOOLEAN : Says(c, ok)
<1> DEFINE Recorded == \/ UNCHANGED <<published, performed>>
                       \/ \E c \in Commands :
                             /\ thread[c] \in Critical
                             /\ Performs(c) \/ \E ok \in BOOLEAN : Says(c, ok)
<1>1. ASSUME NEW c \in Commands, NEW o \in PerformOutcomes(Platform, ActionOf[c]),
             PerformThenAck(c, o)
      PROVE  Recorded
  <2> DEFINE ok == o.ended = "returned"
  <2>1. thread[c] = "performing" /\ published' = published \cup {Ack(c, ok)}
    BY <1>1 DEF PerformThenAck, PublishAck
  <2>2. performed[c] = 0 /\ Ack(c, FALSE) \notin published /\ ~TakesHostDown(ActionOf[c])
    BY <2>1 DEF InItsStage
  <2>3. performed' = IF o.took THEN [performed EXCEPT ![c] = 1] ELSE performed
    BY <1>1, <2>2, EffectRecord, OutcomeType DEF PerformThenAck
  <2>4. CASE o.took
    BY <2>1, <2>2, <2>3, <2>4 DEF Performs, Critical
  <2>5. CASE ~o.took
    <3>1. ok = FALSE
      BY <2>5, OutcomeType
    <3> QED
      BY <2>1, <2>2, <2>3, <2>5, <3>1 DEF Says, Critical
  <2> QED
    BY <2>4, <2>5
<1>2. ASSUME NEW c \in Commands, NEW ok \in BOOLEAN, Preflight(c, ok)
      PROVE  Recorded
  BY <1>2 DEF Preflight, PublishAck, Says, InItsStage, Critical
<1>3. ASSUME NEW c \in Commands, NEW o \in PerformOutcomes(Platform, ActionOf[c]),
             PerformAfterAck(c, o) \/ PerformFailsAfterAck(c, o) \/ PerformRaises(c, o)
      PROVE  Recorded
  <2>1. /\ thread[c] \in {"performing", "flushing"} /\ TakeEffect(c, o.took)
        /\ \/ published' = published /\ (o.took \/ o.ended # "returned")
           \/ published' = published \cup {Ack(c, FALSE)}
    BY <1>3, OutcomeType DEF PerformAfterAck, PerformFailsAfterAck, PerformRaises, PublishAck
  <2>2. /\ performed[c] = 0 /\ Ack(c, FALSE) \notin published
        /\ TakesHostDown(ActionOf[c]) => Ack(c, TRUE) \in published
    BY <2>1 DEF InItsStage
  <2>3. performed' = IF o.took THEN [performed EXCEPT ![c] = 1] ELSE performed
    BY <2>1, <2>2, EffectRecord, OutcomeType
  <2>4. CASE o.took
    BY <2>1, <2>2, <2>3, <2>4 DEF Performs, Critical
  <2>5. CASE ~o.took
    BY <2>1, <2>2, <2>3, <2>5 DEF Says, Critical
  <2> QED
    BY <2>4, <2>5
<1>4. CASE UNCHANGED <<published, performed>>
  BY <1>4
<1> QED
  BY <1>1, <1>2, <1>3, <1>4, PreflightType
  DEF AgentNext, ThreadStep, agentVars, AgentConnects, AgentDisconnects, AckConfirmed,
      OnMessage, AcquireLock, ThreadEnds, MachineStep, FallsAsleep, Resumes,
      PowerChangeVetoed, Boots, GoesDown, AgentGone

(***************************************************************************)
(* One way, one stage at a time.                                           *)
(***************************************************************************)
\* What _publish_ack adds to the record concerns the command it is about.
LEMMA PublishAckRecord ==
  ASSUME NEW c \in Commands, NEW ok \in BOOLEAN, NEW next, PublishAck(c, ok, next)
  PROVE  /\ Ack(c, ok) \in published'
         /\ \A d \in Commands, no \in BOOLEAN :
               d # c \/ no # ok => (Ack(d, no) \in published' <=> Ack(d, no) \in published)
  BY AckInjective DEF PublishAck

\* The agent's steps when no command is delivered twice.
AgentOnce ==
    \/ \E c \in Commands : OnMessage(c) /\ thread[c] = "none"
    \/ \E c \in Commands : ThreadStep(c)
    \/ AgentConnects \/ AgentDisconnects \/ AckConfirmed \/ MachineStep \/ GoesDown
    \/ UNCHANGED agentVars

LEMMA DeliveredOnce == ASSUME OneWay, [Next]_vars PROVE AgentOnce
<1>1. ASSUME NEW c \in Commands, AgentReceives(c) \/ AgentThread(c) PROVE AgentOnce
  BY <1>1 DEF AgentReceives, AgentThread, AgentOnce, OneWay, InOnePlace
<1>2. CASE BrokerTakesAck \/ BrokerTakesAckUnconfirmed
  BY <1>2 DEF BrokerTakesAck, BrokerTakesAckUnconfirmed, AgentOnce
<1>3. CASE AgentLinkUp \/ AgentLinkDown \/ MachineChanges
  BY <1>3 DEF AgentLinkUp, AgentLinkDown, MachineChanges, AgentOnce
<1>4. CASE UNCHANGED agentVars
  BY <1>4 DEF AgentOnce
<1> QED
  BY <1>1, <1>2, <1>3, <1>4
  DEF Next, vars, HubIssues, HubLearnsAccepted, HubTells, BrokerAcceptsCommand,
      HubSession, HubHandlesStatus, HubHandlesAck, HubSessionEnds, HubProcessRestarts,
      ConnectionLost

LEMMA StageStep ==
  ASSUME AgentTypeOK, \A c \in Commands : InItsStage(c), AgentOnce
  PROVE  \A c \in Commands : InItsStage(c)'
<1> SUFFICES ASSUME NEW d \in Commands PROVE InItsStage(d)'
  OBVIOUS
<1>0. InItsStage(d)
  OBVIOUS
<1>1. CASE UNCHANGED <<thread, published, performed>>
  BY <1>0, <1>1 DEF InItsStage
<1>2. ASSUME NEW c \in Commands, OnMessage(c), thread[c] = "none" PROVE InItsStage(d)'
  BY <1>0, <1>2 DEF OnMessage, AgentTypeOK, InItsStage
<1>3. ASSUME NEW c \in Commands, AcquireLock(c) PROVE InItsStage(d)'
  BY <1>0, <1>3 DEF AcquireLock, AgentTypeOK, InItsStage
<1>4. ASSUME NEW c \in Commands, NEW o,
             PerformThenAck(c, o) \/ PerformFailsAfterAck(c, o)
      PROVE  InItsStage(d)'
  <2>1. PICK ok \in BOOLEAN : PublishAck(c, ok, "reporting")
    BY <1>4 DEF PerformThenAck, PerformFailsAfterAck
  <2>2. thread'[c] \in {"reporting", "raised"} /\ (d # c => thread'[d] = thread[d])
    BY <2>1 DEF PublishAck, AgentTypeOK
  <2>3. d # c => performed'[d] = performed[d]
    BY <1>4 DEF PerformThenAck, PerformFailsAfterAck, TakeEffect, AgentTypeOK
  <2> QED
    BY <1>0, <2>1, <2>2, <2>3, PublishAckRecord DEF InItsStage
<1>5. ASSUME NEW c \in Commands, NEW ok \in BOOLEAN, Preflight(c, ok)
      PROVE  InItsStage(d)'
  <2> DEFINE next == IF ok THEN "flushing" ELSE "reporting"
  <2>1. PublishAck(c, ok, next) /\ thread[c] = "preflighting" /\ performed' = performed
    BY <1>5 DEF Preflight
  <2>2. /\ thread'[c] \in {next, "raised"}
        /\ d # c => thread'[d] = thread[d]
    BY <2>1 DEF PublishAck, AgentTypeOK
  <2>3. InItsStage(c)
    OBVIOUS
  <2>4. CASE ok
    BY <1>0, <2>1, <2>2, <2>3, <2>4, PublishAckRecord DEF InItsStage
  <2>5. CASE ~ok
    BY <1>0, <2>1, <2>2, <2>5, PublishAckRecord DEF InItsStage
  <2> QED
    BY <2>4, <2>5
<1>6. ASSUME NEW c \in Commands, NEW o, PerformAfterAck(c, o) \/ PerformRaises(c, o)
      PROVE  InItsStage(d)'
  <2>1. /\ thread'[c] \in {"done", "suspended", "broken"}
        /\ d # c => thread'[d] = thread[d]
        /\ published' = published
    BY <1>6 DEF PerformAfterAck, PerformRaises, AgentTypeOK
  <2>2. d # c => performed'[d] = performed[d]
    BY <1>6 DEF PerformAfterAck, PerformRaises, TakeEffect, AgentTypeOK
  <2> QED
    BY <1>0, <2>1, <2>2 DEF InItsStage
<1>7. ASSUME NEW c \in Commands, ThreadEnds(c) PROVE InItsStage(d)'
  BY <1>0, <1>7 DEF ThreadEnds, AgentTypeOK, InItsStage
<1>8. CASE GoesDown
  BY <1>0, <1>8 DEF GoesDown, AgentGone, AgentTypeOK, InItsStage, Ended
<1> QED
  BY <1>1, <1>2, <1>3, <1>4, <1>5, <1>6, <1>7, <1>8, PreflightType
  DEF AgentOnce, ThreadStep, agentVars, AgentConnects, AgentDisconnects, AckConfirmed,
      MachineStep, FallsAsleep, Resumes, PowerChangeVetoed, Boots

\* A thread step is about a command that has left every other place; the thread
\* of no other command moves.
LEMMA ThreadMoves ==
  ASSUME AgentTypeOK, NEW c \in Commands, ThreadStep(c)
  PROVE  thread[c] # "none" /\ thread'[c] # "none" /\ \A d \in Commands \ {c} : thread'[d] = thread[d]
<1>1. CASE AcquireLock(c)
  BY <1>1 DEF AcquireLock, AgentTypeOK
<1>2. ASSUME NEW ok, Preflight(c, ok)
      PROVE  thread[c] # "none" /\ thread'[c] # "none" /\ \A d \in Commands \ {c} : thread'[d] = thread[d]
  BY <1>2 DEF Preflight, PublishAck, AgentTypeOK
<1>3. ASSUME NEW o, PerformThenAck(c, o) \/ PerformFailsAfterAck(c, o)
      PROVE  thread[c] # "none" /\ thread'[c] # "none" /\ \A d \in Commands \ {c} : thread'[d] = thread[d]
  BY <1>3 DEF PerformThenAck, PerformFailsAfterAck, PublishAck, AgentTypeOK
<1>4. ASSUME NEW o, PerformAfterAck(c, o) \/ PerformRaises(c, o)
      PROVE  thread[c] # "none" /\ thread'[c] # "none" /\ \A d \in Commands \ {c} : thread'[d] = thread[d]
  BY <1>4 DEF PerformAfterAck, PerformRaises, AgentTypeOK
<1>5. CASE ThreadEnds(c)
  BY <1>5 DEF ThreadEnds, AgentTypeOK
<1> QED
  BY <1>1, <1>2, <1>3, <1>4, <1>5 DEF ThreadStep

LEMMA PlaceStep ==
  ASSUME BaseInv, OneWay, [Next]_vars
  PROVE  \A c \in Commands : InOnePlace(c)'
<1> SUFFICES ASSUME NEW d \in Commands PROVE InOnePlace(d)'
  OBVIOUS
<1>0. InOnePlace(d) /\ BaseInv
  BY DEF OneWay
<1> USE NoCommandAssumption DEF InOnePlace, Unsent
<1>1. ASSUME NEW c \in Commands, HubIssues(c) PROVE InOnePlace(d)'
  <2>1. current = NoCommand /\ told[c] = "none"
    BY <1>1, <1>0 DEF HubIssues, Issue, Fresh, BaseInv, HubInv, WaiterFollowsHandler
  <2> QED
    BY <1>0, <1>1, <2>1 DEF HubIssues, Issue, agentVars
<1>2. ASSUME NEW c \in Commands, HubLearnsAccepted(c) PROVE InOnePlace(d)'
  BY <1>0, <1>2 DEF HubLearnsAccepted, PublishConfirmed, agentVars
<1>3. ASSUME NEW c \in Commands, HubTells(c) PROVE InOnePlace(d)'
  <2>1. current' = NoCommand /\ (d # c => told'[d] = told[d])
    BY <1>3, <1>0
    DEF HubTells, RefuseUnavailable, IssueWithoutSession, PublishFails, AnswerArrives,
        AnswerTimesOut, Tell, BaseInv, HubInv, HubTypeOK
  <2>2. current = c \/ current = NoCommand
    BY <1>3, <1>0
    DEF HubTells, RefuseUnavailable, IssueWithoutSession, PublishFails, AnswerArrives,
        AnswerTimesOut, Fresh, BaseInv, HubInv, WaiterFollowsHandler
  <2>3. told'[c] \in {"none", "unavailable"} => current = NoCommand /\ told[c] = "none"
    BY <1>3, <1>0
    DEF HubTells, RefuseUnavailable, IssueWithoutSession, PublishFails, AnswerArrives,
        AnswerTimesOut, Fresh, Tell, BaseInv, HubInv, HubTypeOK, WaiterFollowsHandler
  <2>4. UNCHANGED <<uplink, inbox, thread>>
    BY <1>3 DEF HubTells, agentVars
  <2> QED
    BY <1>0, <2>1, <2>2, <2>3, <2>4
<1>4. ASSUME NEW c \in Commands, BrokerAcceptsCommand(c) PROVE InOnePlace(d)'
  BY <1>0, <1>4 DEF BrokerAcceptsCommand, hubVars, agentVars
<1>5. ASSUME NEW c \in Commands, AgentReceives(c) PROVE InOnePlace(d)'
  <2>1. InOnePlace(c)
    BY DEF OneWay
  <2> QED
    BY <1>0, <1>5, <2>1 DEF AgentReceives, OnMessage, hubVars, BaseInv, AgentInv, AgentTypeOK
<1>6. ASSUME NEW c \in Commands, AgentThread(c) PROVE InOnePlace(d)'
  BY <1>0, <1>6, ThreadMoves DEF AgentThread, hubVars, netVars, BaseInv, AgentInv
<1>7. CASE HubSession \/ HubHandlesStatus \/ HubHandlesAck
  BY <1>0, <1>7
  DEF HubSession, SessionConnects, Subscribes, HubHandlesStatus, HandleStatus,
      HubHandlesAck, HandleAck, agentVars, netVars
<1>8. CASE HubSessionEnds
  BY <1>0, <1>8 DEF HubSessionEnds, SessionEnds, ConnectionLost, agentVars
<1>9. CASE HubProcessRestarts
  <2>1. UNCHANGED <<thread, inbox>> /\ uplink' \subseteq uplink
    BY <1>9 DEF HubProcessRestarts, ConnectionLost, agentVars
  <2>2. Unsent(d)' => Unsent(d)
    BY <1>9, <1>0 DEF HubProcessRestarts, HubRestarts, BaseInv, HubInv, HubTypeOK
  <2> QED
    BY <1>0, <2>1, <2>2
<1>10. CASE BrokerTakesAck \/ BrokerTakesAckUnconfirmed
  BY <1>0, <1>10
  DEF BrokerTakesAck, BrokerTakesAckUnconfirmed, AckConfirmed, AgentDisconnects, hubVars
<1>11. CASE AgentLinkDown
  BY <1>0, <1>11
  DEF AgentLinkDown, AgentDisconnects, GoesDown, AgentGone, Ended, hubVars
<1>12. CASE AgentLinkUp \/ MachineChanges
  BY <1>0, <1>12
  DEF AgentLinkUp, AgentConnects, MachineChanges, MachineStep, FallsAsleep, Resumes,
      PowerChangeVetoed, Boots, hubVars, netVars
<1>13. CASE UNCHANGED vars
  BY <1>0, <1>13 DEF vars, hubVars, agentVars, netVars
<1> QED
  BY <1>1, <1>2, <1>3, <1>4, <1>5, <1>6, <1>7, <1>8, <1>9, <1>10, <1>11, <1>12, <1>13
  DEF Next

LEMMA OneWayStep == ASSUME BaseInv, OneWay, [Next]_vars PROVE OneWay'
<1>1. \A c \in Commands : InItsStage(c)'
  BY DeliveredOnce, StageStep DEF OneWay, BaseInv, AgentInv
<1> QED
  BY <1>1, PlaceStep DEF OneWay

(***************************************************************************)
(* What was said, shown and performed.                                     *)
(***************************************************************************)
\* The record of a step of the path.
LEMMA PathRecord ==
  ASSUME BaseInv, OneWay, [Next]_vars
  PROVE  \/ UNCHANGED <<published, performed>>
         \/ \E c \in Commands :
               /\ thread[c] \in Critical
               /\ Performs(c) \/ \E ok \in BOOLEAN : Says(c, ok)
  BY PathStepsAgent, RecordStep DEF BaseInv, AgentInv, OneWay

LEMMA RecordGrows ==
  ASSUME BaseInv, OneWay, [Next]_vars
  PROVE  published \subseteq published'
  BY PathRecord DEF Performs, Says

\* The agent's side of the promise.
Record(c) ==
    /\ performed[c] <= 1
    /\ performed[c] > 0 /\ TakesHostDown(ActionOf[c]) => Ack(c, TRUE) \in published
    /\ Ack(c, TRUE) \in published /\ ~TakesHostDown(ActionOf[c]) => performed[c] = 1

LEMMA RecordKept ==
  ASSUME BaseInv, OneWay, [Next]_vars, \A c \in Commands : Record(c)
  PROVE  \A c \in Commands : Record(c)'
<1> SUFFICES ASSUME NEW d \in Commands PROVE Record(d)'
  OBVIOUS
<1>0. Record(d) /\ performed \in [Commands -> Nat]
  BY DEF BaseInv, AgentInv, AgentTypeOK
<1>1. CASE UNCHANGED <<published, performed>>
  BY <1>0, <1>1 DEF Record
<1>2. ASSUME NEW c \in Commands, Performs(c) PROVE Record(d)'
  <2>1. CASE d = c
    <3>1. performed'[d] = 1
      BY <1>0, <1>2, <2>1 DEF Performs
    <3>2. TakesHostDown(ActionOf[d]) => Ack(d, TRUE) \in published'
      BY <1>2, <2>1 DEF Performs
    <3>3. performed'[d] <= 1 /\ performed'[d] > 0
      BY <3>1
    <3> QED
      BY <3>1, <3>2, <3>3, Zenon DEF Record
  <2>2. CASE d # c
    <3>1. performed'[d] = performed[d]
      BY <1>0, <1>2, <2>2 DEF Performs
    <3>2. \A ok \in BOOLEAN : Ack(d, ok) \in published' <=> Ack(d, ok) \in published
      <4>1. \/ published' = published
            \/ \E no \in BOOLEAN : published' = published \cup {Ack(c, no)}
        BY <1>2 DEF Performs
      <4> QED
        BY <2>2, <4>1, AckInjective
    <3> QED
      BY <1>0, <3>1, <3>2 DEF Record
  <2> QED
    BY <2>1, <2>2
<1>3. ASSUME NEW c \in Commands, NEW ok \in BOOLEAN, Says(c, ok) PROVE Record(d)'
  <2>1. CASE d = c
    BY <1>0, <1>3, <2>1, AckInjective DEF Says, Record
  <2>2. CASE d # c
    BY <1>0, <1>3, <2>2, AckInjective DEF Says, Record
  <2> QED
    BY <2>1, <2>2
<1> QED
  BY <1>1, <1>2, <1>3, PathRecord

(***************************************************************************)
(* Nothing on its way to the hub was invented.                             *)
(***************************************************************************)
LEMMA AppendWithin ==
  ASSUME NEW S, NEW T, NEW s \in Seq(S), \A i \in DOMAIN s : s[i] \in T,
         NEW x \in S, x \in T
  PROVE  \A i \in DOMAIN Append(s, x) : Append(s, x)[i] \in T
  BY AppendProperties

LEMMA TailWithin ==
  ASSUME NEW S, NEW T, NEW s \in Seq(S), s # <<>>, \A i \in DOMAIN s : s[i] \in T
  PROVE  /\ Head(s) \in T
         /\ \A i \in DOMAIN Tail(s) : Tail(s)[i] \in T
  BY HeadTailProperties

OutboxSaid == \A i \in DOMAIN outbox : outbox[i] \in published
DownlinkSaid == \A i \in DOMAIN downlink : downlink[i] \in published
AnswerSaid ==
    \A c \in Commands :
        /\ answer[c] = "ok" => Ack(c, TRUE) \in published
        /\ answer[c] = "refused" => Ack(c, FALSE) \in published

LEMMA OutboxStep ==
  ASSUME AgentTypeOK, OutboxSaid, [AgentNext]_agentVars, published \subseteq published'
  PROVE  OutboxSaid'
<1>1. CASE AckConfirmed
  BY <1>1, TailWithin DEF AckConfirmed, AgentTypeOK, OutboxSaid
<1>2. ASSUME NEW c \in Commands, NEW ok \in BOOLEAN, NEW next, PublishAck(c, ok, next)
      PROVE  OutboxSaid'
  <2>1. Ack(c, ok) \in Acks /\ Ack(c, ok) \in published'
    BY <1>2, AckIsAck DEF PublishAck
  <2>2. \A i \in DOMAIN outbox : outbox[i] \in published'
    BY DEF OutboxSaid
  <2>3. outbox' = Append(outbox, Ack(c, ok)) /\ outbox \in Seq(Acks)
    BY <1>2 DEF PublishAck, AgentTypeOK
  <2> QED
    BY <2>1, <2>2, <2>3, AppendWithin DEF OutboxSaid
<1>3. ASSUME NEW c \in Commands,
             \/ \E ok \in BOOLEAN : Preflight(c, ok)
             \/ \E o : PerformThenAck(c, o) \/ PerformFailsAfterAck(c, o)
      PROVE  OutboxSaid'
  <2>1. \E no \in BOOLEAN : \E next : PublishAck(c, no, next)
    BY <1>3 DEF PerformThenAck, Preflight, PerformFailsAfterAck
  <2> QED
    BY <1>2, <2>1
<1>4. CASE GoesDown
  BY <1>4 DEF GoesDown, AgentGone, OutboxSaid
<1>5. CASE UNCHANGED outbox
  BY <1>5 DEF OutboxSaid
<1> QED
  BY <1>1, <1>3, <1>4, <1>5, PreflightType
  DEF AgentNext, ThreadStep, agentVars, AgentConnects, AgentDisconnects, OnMessage,
      AcquireLock, PerformAfterAck, PerformRaises, ThreadEnds, MachineStep, FallsAsleep, Resumes,
      PowerChangeVetoed, Boots

LEMMA DownlinkStep ==
  ASSUME BaseInv, OutboxSaid, DownlinkSaid, [Next]_vars, published \subseteq published'
  PROVE  DownlinkSaid'
<1>0. downlink \in Seq(Acks) /\ outbox \in Seq(Acks)
  BY DEF BaseInv, NetTypeOK, AgentInv, AgentTypeOK
<1>1. CASE HubHandlesAck
  BY <1>0, <1>1, TailWithin DEF HubHandlesAck, DownlinkSaid
<1>2. CASE BrokerTakesAck \/ BrokerTakesAckUnconfirmed
  <2>1. outbox # <<>> /\ Forward(Head(outbox))
    BY <1>2 DEF BrokerTakesAck, BrokerTakesAckUnconfirmed, AckConfirmed
  <2>2. Head(outbox) \in Acks /\ Head(outbox) \in published'
    BY <1>0, <2>1, TailWithin, HeadAck DEF OutboxSaid
  <2>3. \A i \in DOMAIN downlink : downlink[i] \in published'
    BY DEF DownlinkSaid
  <2>4. \A i \in DOMAIN Append(downlink, Head(outbox)) :
           Append(downlink, Head(outbox))[i] \in published'
    BY <1>0, <2>2, <2>3, AppendWithin
  <2>5. downlink' = downlink \/ downlink' = Append(downlink, Head(outbox))
    BY <2>1 DEF Forward
  <2> QED
    BY <2>3, <2>4, <2>5 DEF DownlinkSaid
<1>3. CASE HubSessionEnds \/ HubProcessRestarts
  BY <1>3 DEF HubSessionEnds, HubProcessRestarts, ConnectionLost, DownlinkSaid
<1>4. CASE UNCHANGED downlink
  BY <1>4 DEF DownlinkSaid
<1> QED
  BY <1>1, <1>2, <1>3, <1>4
  DEF Next, vars, netVars, HubIssues, HubLearnsAccepted, HubTells, BrokerAcceptsCommand,
      AgentReceives, AgentThread, HubSession, HubHandlesStatus, AgentLinkUp,
      AgentLinkDown, MachineChanges

LEMMA AnswerStep ==
  ASSUME BaseInv, DownlinkSaid, AnswerSaid, [Next]_vars, published \subseteq published'
  PROVE  AnswerSaid'
<1>0. answer \in [Commands -> Answer]
  BY DEF BaseInv, HubInv, HubTypeOK
<1>1. CASE HubHandlesAck
  <2>1. Head(downlink) \in Acks /\ Head(downlink) \in published
    BY <1>1, TailWithin, HeadAck DEF HubHandlesAck, BaseInv, NetTypeOK, DownlinkSaid
  <2>2. PICK c \in Commands, ok \in BOOLEAN : Head(downlink) = Ack(c, ok)
    BY <2>1 DEF Acks
  <2>3. /\ Head(downlink).id = c /\ Head(downlink).ok = ok
        /\ \A d \in Commands : d # c => answer'[d] = answer[d]
        /\ answer'[c] = answer[c] \/ answer'[c] = IF ok THEN "ok" ELSE "refused"
    BY <1>0, <1>1, <2>2 DEF HubHandlesAck, HandleAck, Ack
  <2>4. CASE ok
    BY <2>1, <2>2, <2>3, <2>4 DEF AnswerSaid
  <2>5. CASE ~ok
    BY <2>1, <2>2, <2>3, <2>5 DEF AnswerSaid
  <2> QED
    BY <2>4, <2>5
<1>2. ASSUME NEW c \in Commands, HubTells(c) PROVE AnswerSaid'
  BY <1>0, <1>2
  DEF HubTells, RefuseUnavailable, IssueWithoutSession, PublishFails, AnswerArrives,
      AnswerTimesOut, Tell, AnswerSaid
<1>3. CASE HubProcessRestarts
  BY <1>3 DEF HubProcessRestarts, HubRestarts, AnswerSaid
<1>4. CASE UNCHANGED answer
  BY <1>4 DEF AnswerSaid
<1> QED
  BY <1>1, <1>2, <1>3, <1>4
  DEF Next, vars, hubVars, HubIssues, Issue, HubLearnsAccepted, PublishConfirmed,
      BrokerAcceptsCommand, AgentReceives, AgentThread, HubSession, SessionConnects,
      Subscribes, HubHandlesStatus, HandleStatus, HubSessionEnds, SessionEnds,
      BrokerTakesAck, BrokerTakesAckUnconfirmed, AgentLinkUp, AgentLinkDown,
      MachineChanges

(***************************************************************************)
(* What the user is shown.                                                 *)
(***************************************************************************)
Shown(c) ==
    /\ told[c] = "acked" => Ack(c, TRUE) \in published
    /\ told[c] = "refused" => Ack(c, FALSE) \in published

LEMMA ShownStep ==
  ASSUME BaseInv, OneWay, AnswerSaid, [Next]_vars, \A c \in Commands : Shown(c)
  PROVE  \A c \in Commands : Shown(c)'
<1> SUFFICES ASSUME NEW d \in Commands PROVE Shown(d)'
  OBVIOUS
<1>0. /\ Shown(d) /\ told \in [Commands -> Outcome]
      /\ published \subseteq published'
  BY RecordGrows DEF BaseInv, HubInv, HubTypeOK
<1>1. CASE told'[d] = told[d]
  BY <1>0, <1>1 DEF Shown
<1>2. ASSUME NEW c \in Commands, HubTells(c) PROVE Shown(d)'
  <2>1. CASE d # c
    <3>1. told'[d] = told[d]
      BY <1>0, <1>2, <2>1
      DEF HubTells, RefuseUnavailable, IssueWithoutSession, PublishFails, AnswerArrives,
          AnswerTimesOut, Tell
    <3> QED
      BY <1>1, <3>1
  <2>2. CASE d = c
    <3>1. UNCHANGED <<published, performed>>
      BY <1>2 DEF HubTells, agentVars
    <3>2. CASE RefuseUnavailable(c) \/ IssueWithoutSession(c) \/ PublishFails(c) \/ AnswerTimesOut(c)
      <4>1. told'[c] \in {"unavailable", "not_sent", "timeout", "silent"}
        BY <1>0, <3>2
        DEF RefuseUnavailable, IssueWithoutSession, PublishFails, AnswerTimesOut, Tell
      <4> QED
        BY <2>2, <4>1 DEF Shown
    <3>3. CASE AnswerArrives(c)
      <4>1. answer[c] \in {"ok", "refused"}
        BY <3>3 DEF AnswerArrives, BaseInv, HubInv, HubTypeOK, Answer
      <4>2. told'[c] \in {IF answer[c] = "ok" THEN "acked" ELSE "refused", "silent"}
        BY <1>0, <3>3 DEF AnswerArrives, Tell
      <4> QED
        BY <2>2, <3>1, <4>1, <4>2 DEF Shown, AnswerSaid
    <3> QED
      BY <1>2, <3>2, <3>3 DEF HubTells
  <2> QED
    BY <2>1, <2>2
<1>3. CASE HubProcessRestarts
  <2>1. told'[d] = told[d] \/ told'[d] = "silent"
    BY <1>0, <1>3 DEF HubProcessRestarts, HubRestarts
  <2>2. CASE told'[d] = "silent"
    BY <2>2 DEF Shown
  <2> QED
    BY <1>1, <2>1, <2>2
<1>4. CASE UNCHANGED told
  BY <1>1, <1>4
<1> QED
  BY <1>2, <1>3, <1>4
  DEF Next, vars, hubVars, HubIssues, Issue, HubLearnsAccepted, PublishConfirmed,
      BrokerAcceptsCommand, AgentReceives, AgentThread, HubSession, SessionConnects,
      Subscribes, HubHandlesStatus, HandleStatus, HubHandlesAck, HandleAck,
      HubSessionEnds, SessionEnds, BrokerTakesAck, BrokerTakesAckUnconfirmed,
      AgentLinkUp, AgentLinkDown, MachineChanges

(***************************************************************************)
(* The inductive invariant, and what follows from it.                      *)
(***************************************************************************)
Inductive ==
    /\ BaseInv
    /\ OneWay
    /\ OutboxSaid /\ DownlinkSaid /\ AnswerSaid
    /\ \A c \in Commands : Record(c) /\ Shown(c)

LEMMA InductiveInit == ASSUME Init PROVE Inductive
<1>1. BaseInv
  BY BaseInit
<1>2. OneWay
  BY DEF Init, HubInit, AgentInit, OneWay, InOnePlace, InItsStage
<1>3. OutboxSaid /\ DownlinkSaid /\ AnswerSaid
  BY DEF Init, HubInit, AgentInit, OutboxSaid, DownlinkSaid, AnswerSaid
<1>4. \A c \in Commands : Record(c) /\ Shown(c)
  BY DEF Init, HubInit, AgentInit, Record, Shown
<1> QED
  BY <1>1, <1>2, <1>3, <1>4 DEF Inductive

LEMMA InductiveStep == ASSUME Inductive, [Next]_vars PROVE Inductive'
<1>1. BaseInv'
  BY BaseStep DEF Inductive
<1>2. OneWay'
  BY OneWayStep DEF Inductive
<1>3. published \subseteq published'
  BY RecordGrows DEF Inductive
<1>4. OutboxSaid'
  BY <1>3, PathStepsAgent, OutboxStep DEF Inductive, BaseInv, AgentInv
<1>5. DownlinkSaid'
  BY <1>3, DownlinkStep DEF Inductive
<1>6. AnswerSaid'
  BY <1>3, AnswerStep DEF Inductive
<1>7. \A c \in Commands : Record(c)'
  BY RecordKept DEF Inductive
<1>8. \A c \in Commands : Shown(c)'
  BY ShownStep DEF Inductive
<1> QED
  BY <1>1, <1>2, <1>4, <1>5, <1>6, <1>7, <1>8 DEF Inductive

LEMMA InductiveImplies == ASSUME Inductive PROVE PathInv
<1>1. TypeOK /\ WaiterFollowsHandler /\ OneActionAtATime /\ OneWay
  BY DEF Inductive, BaseInv, HubInv, AgentInv, TypeOK
<1>2. NothingInvented
  BY DEF Inductive, OutboxSaid, DownlinkSaid, AnswerSaid, Record, NothingInvented
<1>3. VerdictIsTrue
  BY DEF Inductive, Record, Shown, VerdictIsTrue
<1>4. AtMostOnce /\ AckBeforeDown
  BY DEF Inductive, Record, AtMostOnce, AckBeforeDown
<1> QED
  BY <1>1, <1>2, <1>3, <1>4 DEF PathInv

LEMMA AlwaysInductive == Spec => []Inductive
<1>1. Init => Inductive
  BY InductiveInit
<1>2. Inductive /\ [Next]_vars => Inductive'
  BY InductiveStep
<1> QED
  BY <1>1, <1>2, PTL DEF Spec

\* The invariant that the rest follows from.
THEOREM PathInvariant == Spec => []PathInv
<1>1. Inductive => PathInv
  BY InductiveImplies
<1> QED
  BY <1>1, AlwaysInductive, PTL

\* Every variable keeps its type.
THEOREM TypeCorrect == Spec => []TypeOK
<1>1. PathInv => TypeOK
  BY DEF PathInv
<1> QED
  BY <1>1, PathInvariant, PTL

\* A command is in one place at a time and its thread in one stage, on the way from
\* the chat to the PC: no step takes it back.
THEOREM CommandsGoOneWay == Spec => []OneWay
<1>1. PathInv => OneWay
  BY DEF PathInv
<1> QED
  BY <1>1, PathInvariant, PTL

\* No command is ever executed twice, through reconnections, duplicates and
\* restarts of hub, agent and machine.
THEOREM ExecutedAtMostOnce == Spec => []AtMostOnce
<1>1. PathInv => AtMostOnce
  BY DEF PathInv
<1> QED
  BY <1>1, PathInvariant, PTL

\* What was refused, by the gate or by the agent, is not performed any more: the
\* thread that performs is past its queue, so its command has left the hub, and
\* in its stage, where no refusal has been published.
THEOREM RefusalIsFinal == Spec => RefusedNeverPerformed
<1> DEFINE Final(c) == performed'[c] # performed[c] =>
                          Ack(c, FALSE) \notin published /\ told[c] # "unavailable"
<1>1. ASSUME Inductive, [Next]_vars, NEW d \in Commands PROVE Final(d)
  <2>1. CASE UNCHANGED <<published, performed>>
    BY <2>1
  <2>2. ASSUME NEW c \in Commands, thread[c] \in Critical, Performs(c) PROVE Final(d)
    <3>1. d # c => performed'[d] = performed[d]
      BY <1>1, <2>2 DEF Performs, Inductive, BaseInv, AgentInv, AgentTypeOK
    <3>2. InOnePlace(c) /\ (c = current => told[c] = "none")
      BY <1>1 DEF Inductive, OneWay, BaseInv, HubInv, CurrentUntold
    <3>3. told[c] # "unavailable"
      BY <2>2, <3>2 DEF InOnePlace, Unsent, Critical
    <3> QED
      BY <2>2, <3>1, <3>3 DEF Performs
  <2>3. ASSUME NEW c \in Commands, NEW ok \in BOOLEAN, Says(c, ok) PROVE Final(d)
    BY <2>3 DEF Says
  <2> QED
    BY <1>1, <2>1, <2>2, <2>3, PathRecord DEF Inductive
<1>2. Inductive /\ [Next]_vars => [\A c \in Commands : Final(c)]_vars
  BY <1>1
<1> QED
  BY <1>2, AlwaysInductive, PTL DEF Spec, RefusedNeverPerformed

\* The verdict the user is shown is one the agent has given.
THEOREM VerdictCorrect == Spec => []VerdictIsTrue
<1>1. PathInv => VerdictIsTrue
  BY DEF PathInv
<1> QED
  BY <1>1, PathInvariant, PTL

\* The host is never taken down before the acknowledgement was handed over.
THEOREM AckPrecedesDown == Spec => []AckBeforeDown
<1>1. PathInv => AckBeforeDown
  BY DEF PathInv
<1> QED
  BY <1>1, PathInvariant, PTL

\* An outcome that was shown stays: the hub's own lemma, along the path.
THEOREM OutcomeIsFinal == Spec => ToldOnce
<1>1. Inductive /\ [Next]_vars => [\A c \in Commands : told[c] # "none" => told'[c] = told[c]]_vars
  BY PathStepsHub, CurrentUntoldStep DEF Inductive, BaseInv, HubInv
<1> QED
  BY <1>1, AlwaysInductive, PTL DEF Spec, ToldOnce

(***************************************************************************)
(* What a yes and a no are worth.                                          *)
(***************************************************************************)
\* A yes that was not followed by silence, and a no that was not mistaken.
YesHonest(c) ==
    /\ Ack(c, TRUE) \in published
    /\ thread[c] \in {"reporting", "suspended", "done"}
    => performed[c] = 1 \/ Ack(c, FALSE) \in published
NoHonest(c) == Native(c) /\ Ack(c, FALSE) \in published => performed[c] = 0

\* A system call that fails has done nothing.
LEMMA NativeOutcome ==
  ASSUME NEW c \in Commands, Native(c), NEW o \in PerformOutcomes(Platform, ActionOf[c]),
         o.ended # "returned"
  PROVE  ~o.took
<1>1. PICK installed : o \in Perform(Platform, installed, ActionOf[c])
  BY DEF PerformOutcomes
<1>2. Perform(Platform, installed, ActionOf[c]) = CallSystem
  BY DEF Native, Perform
<1> QED
  BY <1>1, <1>2 DEF CallSystem, Succeeded, Failed

LEMMA HonestStep ==
  ASSUME AgentTypeOK, \A c \in Commands : InItsStage(c) /\ YesHonest(c) /\ NoHonest(c), AgentOnce
  PROVE  \A c \in Commands : YesHonest(c)' /\ NoHonest(c)'
<1> SUFFICES ASSUME NEW d \in Commands PROVE YesHonest(d)' /\ NoHonest(d)'
  OBVIOUS
<1>0. /\ InItsStage(d) /\ YesHonest(d) /\ NoHonest(d)
      /\ thread \in [Commands -> Thread] /\ performed \in [Commands -> Nat]
  BY DEF AgentTypeOK
<1> USE DEF YesHonest, NoHonest, Native
<1>1. CASE UNCHANGED <<thread, published, performed>>
  BY <1>0, <1>1
<1>2. ASSUME NEW c \in Commands, OnMessage(c) \/ AcquireLock(c) \/ ThreadEnds(c)
      PROVE  YesHonest(d)' /\ NoHonest(d)'
  BY <1>0, <1>2 DEF OnMessage, AcquireLock, ThreadEnds
\* A step that does not concern d.
<1>3. ASSUME thread'[d] = thread[d], performed'[d] = performed[d],
             \A no \in BOOLEAN : Ack(d, no) \in published' <=> Ack(d, no) \in published
      PROVE  YesHonest(d)' /\ NoHonest(d)'
  BY <1>0, <1>3
<1>4. ASSUME NEW o \in PerformOutcomes(Platform, ActionOf[d]), PerformThenAck(d, o)
      PROVE  YesHonest(d)' /\ NoHonest(d)'
  <2>1. /\ PublishAck(d, o.ended = "returned", "reporting") /\ thread[d] = "performing"
        /\ performed[d] = 0 /\ Ack(d, TRUE) \notin published /\ Ack(d, FALSE) \notin published
        /\ TakeEffect(d, o.took)
    BY <1>0, <1>4 DEF PerformThenAck, InItsStage
  <2>2. CASE o.ended = "returned"
    <3>1. o.took /\ performed'[d] = 1
      BY <1>0, <2>1, <2>2, OutcomeType, EffectRecord
    <3>2. Ack(d, FALSE) \notin published'
      BY <2>1, <2>2, PublishAckRecord
    <3> QED
      BY <3>1, <3>2
  <2>3. CASE o.ended # "returned"
    <3>1. Ack(d, FALSE) \in published'
      BY <2>1, <2>3, PublishAckRecord
    <3>2. Native(d) => performed' = performed
      BY <2>1, <2>3, NativeOutcome, OutcomeType, EffectRecord
    <3> QED
      BY <2>1, <3>1, <3>2
  <2> QED
    BY <2>2, <2>3
<1>5. ASSUME NEW o \in PerformOutcomes(Platform, ActionOf[d]), PerformFailsAfterAck(d, o)
      PROVE  YesHonest(d)' /\ NoHonest(d)'
  <2>1. PublishAck(d, FALSE, "reporting") /\ performed[d] = 0 /\ TakeEffect(d, o.took)
    BY <1>0, <1>5 DEF PerformFailsAfterAck, InItsStage
  <2>2. Ack(d, FALSE) \in published'
    BY <2>1, PublishAckRecord
  <2>3. Native(d) => performed' = performed
    BY <1>5, <2>1, NativeOutcome, OutcomeType, EffectRecord DEF PerformFailsAfterAck
  <2> QED
    BY <2>1, <2>2, <2>3
<1>6. ASSUME NEW ok \in BOOLEAN, Preflight(d, ok) PROVE YesHonest(d)' /\ NoHonest(d)'
  <2>1. /\ PublishAck(d, ok, IF ok THEN "flushing" ELSE "reporting")
        /\ thread'[d] \in {IF ok THEN "flushing" ELSE "reporting", "raised"}
        /\ performed'[d] = 0
    BY <1>0, <1>6 DEF Preflight, PublishAck, InItsStage
  <2>2. ~ok => Ack(d, FALSE) \in published'
    BY <2>1, PublishAckRecord
  <2> QED
    BY <2>1, <2>2
<1>7. ASSUME NEW o \in PerformOutcomes(Platform, ActionOf[d]),
             PerformAfterAck(d, o) \/ PerformRaises(d, o)
      PROVE  YesHonest(d)' /\ NoHonest(d)'
  <2>1. /\ Ack(d, FALSE) \notin published /\ published' = published /\ performed[d] = 0
        /\ TakeEffect(d, o.took)
    BY <1>0, <1>7 DEF PerformAfterAck, PerformRaises, InItsStage
  <2>2. PerformAfterAck(d, o) => performed'[d] = 1
    BY <1>0, <2>1, OutcomeType, EffectRecord DEF PerformAfterAck
  <2>3. PerformRaises(d, o) => thread'[d] = "broken"
    BY <1>0 DEF PerformRaises
  <2> QED
    BY <1>7, <2>1, <2>2, <2>3
<1>8. ASSUME NEW c \in Commands \ {d}, ThreadStep(c) PROVE YesHonest(d)' /\ NoHonest(d)'
  <2>1. thread'[d] = thread[d]
    BY <1>8, ThreadMoves
  <2>2. \/ UNCHANGED <<published, performed>>
        \/ \E no \in BOOLEAN : Preflight(c, no)
        \/ \E o : PerformThenAck(c, o) \/ PerformFailsAfterAck(c, o) \/ PerformAfterAck(c, o)
                \/ PerformRaises(c, o)
    BY <1>8, PreflightType DEF ThreadStep, AcquireLock, ThreadEnds
  <2>3. performed'[d] = performed[d]
    BY <1>0, <2>2 DEF Preflight, PerformThenAck, PerformFailsAfterAck, PerformAfterAck,
                      PerformRaises, TakeEffect
  <2>4. published' = published \/ \E no \in BOOLEAN : \E next : PublishAck(c, no, next)
    BY <2>2 DEF Preflight, PerformThenAck, PerformFailsAfterAck, PerformAfterAck, PerformRaises
  <2> QED
    BY <1>3, <2>1, <2>3, <2>4, PublishAckRecord
<1>9. CASE GoesDown
  BY <1>0, <1>9 DEF GoesDown, AgentGone, Ended
<1> QED
  BY <1>1, <1>2, <1>4, <1>5, <1>6, <1>7, <1>8, <1>9, PreflightType
  DEF AgentOnce, ThreadStep, agentVars, AgentConnects, AgentDisconnects, AckConfirmed,
      MachineStep, FallsAsleep, Resumes, PowerChangeVetoed, Boots

\* The invariant with both.
Honest == Inductive /\ \A c \in Commands : YesHonest(c) /\ NoHonest(c)

LEMMA AlwaysHonest == Spec => []Honest
<1>1. Init => Honest
  BY InductiveInit DEF Honest, Init, AgentInit, YesHonest, NoHonest
<1>2. Honest /\ [Next]_vars => Honest'
  <2> SUFFICES ASSUME Honest, [Next]_vars PROVE Honest'
    OBVIOUS
  <2>1. Inductive'
    BY InductiveStep DEF Honest
  <2>2. \A c \in Commands : YesHonest(c)' /\ NoHonest(c)'
    BY DeliveredOnce, HonestStep DEF Honest, Inductive, BaseInv, AgentInv, OneWay
  <2> QED
    BY <2>1, <2>2 DEF Honest
<1> QED
  BY <1>1, <1>2, PTL DEF Spec

\* A thread that was not cut short has performed what it said yes to, or taken the yes
\* back: what YesIsKept refutes is confined to killed threads and exceptions.
THEOREM YesMeansDoneOrCorrected == Spec => []YesKeptOrCorrected
<1>1. Honest => YesKeptOrCorrected
  BY DEF Honest, YesHonest, YesKeptOrCorrected
<1> QED
  BY <1>1, AlwaysHonest, PTL

\* A no of the Windows sleep and lock is exact: what RefusalIsAccurate refutes is
\* confined to helper programs.
THEOREM NativeNoIsTrue == Spec => []NoIsTrueIfNative
<1>1. Honest => NoIsTrueIfNative
  BY DEF Honest, NoHonest, NoIsTrueIfNative
<1> QED
  BY <1>1, AlwaysHonest, PTL

LEMMA ProgressOf ==
  /\ Progress("none") = 0 /\ Progress("queued") = 1
  /\ Progress("performing") = 2 /\ Progress("preflighting") = 2 /\ Progress("flushing") = 3
  /\ Progress("reporting") = 4 /\ Progress("suspended") = 4
  /\ Progress("done") = 5 /\ Progress("raised") = 5
  /\ Progress("broken") = 5 /\ Progress("killed") = 5
  BY DEF Progress, Ended

Advances(d) == thread'[d] # thread[d] => Progress(thread'[d]) > Progress(thread[d])

\* One thread is set to a later stage, and the others stay where they are.
LEMMA OneAdvances ==
  ASSUME AgentTypeOK, NEW c \in Commands, NEW d \in Commands, NEW next,
         Progress(next) > Progress(thread[c]), thread' = [thread EXCEPT ![c] = next]
  PROVE  Advances(d)
<1>1. /\ thread'[d] = IF d = c THEN next ELSE thread[d]
  BY DEF AgentTypeOK
<1> QED
  BY <1>1 DEF Advances

\* A thread only advances: the broker delivers no command twice (OneWay), and the only
\* step that could start an ended thread again is a delivery.
THEOREM ThreadsOnlyAdvance == Spec => ThreadsAdvance
<1>1. ASSUME AgentTypeOK, AgentOnce, NEW d \in Commands PROVE Advances(d)
  <2>1. ASSUME NEW c \in Commands, OnMessage(c), thread[c] = "none" PROVE Advances(d)
    <3>1. Progress("queued") > Progress(thread[c]) /\ thread' = [thread EXCEPT ![c] = "queued"]
      BY <2>1, ProgressOf DEF OnMessage
    <3> QED
      BY <1>1, <3>1, OneAdvances
  <2>2. ASSUME NEW c \in Commands, AcquireLock(c) PROVE Advances(d)
    <3> DEFINE next == IF TakesHostDown(ActionOf[c]) THEN "preflighting" ELSE "performing"
    <3>1. Progress(next) > Progress(thread[c]) /\ thread' = [thread EXCEPT ![c] = next]
      BY <2>2, ProgressOf DEF AcquireLock
    <3> QED
      BY <1>1, <3>1, OneAdvances
  <2>3. ASSUME NEW c \in Commands, ThreadEnds(c) PROVE Advances(d)
    <3>1. Progress("done") > Progress(thread[c]) /\ thread' = [thread EXCEPT ![c] = "done"]
      BY <2>3, ProgressOf DEF ThreadEnds
    <3> QED
      BY <1>1, <3>1, OneAdvances
  <2>4. ASSUME NEW c \in Commands, NEW ok, Preflight(c, ok) PROVE Advances(d)
    <3> DEFINE next == IF link = "up" THEN IF ok THEN "flushing" ELSE "reporting" ELSE "raised"
    <3>1. Progress(next) > Progress(thread[c]) /\ thread' = [thread EXCEPT ![c] = next]
      BY <2>4, ProgressOf DEF Preflight, PublishAck
    <3> QED
      BY <1>1, <3>1, OneAdvances
  <2>5. ASSUME NEW c \in Commands, NEW o, PerformThenAck(c, o) \/ PerformFailsAfterAck(c, o)
        PROVE  Advances(d)
    <3>1. thread[c] \in {"performing", "flushing"}
      BY <2>5 DEF PerformThenAck, PerformFailsAfterAck
    <3>2. PICK next \in {"reporting", "raised"} : thread' = [thread EXCEPT ![c] = next]
      BY <2>5 DEF PerformThenAck, PerformFailsAfterAck, PublishAck
    <3>3. Progress(next) > Progress(thread[c])
      BY <3>1, <3>2, ProgressOf
    <3> QED
      BY <1>1, <3>2, <3>3, OneAdvances
  <2>6. ASSUME NEW c \in Commands, NEW o, PerformAfterAck(c, o) \/ PerformRaises(c, o)
        PROVE  Advances(d)
    <3>1. PICK next \in {"done", "suspended", "broken"} : thread' = [thread EXCEPT ![c] = next]
      BY <2>6 DEF PerformAfterAck, PerformRaises
    <3>2. Progress(next) > Progress(thread[c])
      BY <2>6, <3>1, ProgressOf DEF PerformAfterAck, PerformRaises
    <3> QED
      BY <1>1, <3>1, <3>2, OneAdvances
  <2>7. CASE GoesDown
    <3>1. thread[d] \notin {"none"} \cup Ended => Progress("killed") > Progress(thread[d])
      <4>1. thread[d] \in Thread
        BY <1>1 DEF AgentTypeOK
      <4>2. thread[d] \notin {"none"} \cup Ended =>
              thread[d] \in {"queued"} \cup Critical
        BY <4>1 DEF Thread, Ended, Critical
      <4> QED
        BY <4>2, ProgressOf DEF Critical
    <3>2. thread'[d] = IF thread[d] \in {"none"} \cup Ended THEN thread[d] ELSE "killed"
      BY <2>7 DEF GoesDown, AgentGone
    <3> QED
      BY <3>1, <3>2 DEF Advances
  <2>8. CASE UNCHANGED thread
    BY <2>8 DEF Advances
  <2> QED
    BY <1>1, <2>1, <2>2, <2>3, <2>4, <2>5, <2>6, <2>7, <2>8
    DEF AgentOnce, ThreadStep, agentVars, AgentConnects, AgentDisconnects, AckConfirmed,
        MachineStep, FallsAsleep, Resumes, PowerChangeVetoed, Boots
<1>2. Inductive /\ [Next]_vars => [\A c \in Commands : Advances(c)]_vars
  BY <1>1, DeliveredOnce DEF Inductive, BaseInv, AgentInv
<1> QED
  BY <1>2, AlwaysInductive, PTL DEF Spec, ThreadsAdvance, Advances

(***************************************************************************)
(* The path is one hub and one agent.                                      *)
(***************************************************************************)
\* Along the path the hub behaves as HubCommands says and the agent as AgentExecutor
\* says: what holds of the two against any broker holds here, and the network adds
\* no step of its own to either.
THEOREM PathIsHubAndAgent == Spec => HubSpec /\ AgentSpec
<1>1. Init => HubInit /\ AgentInit
  BY DEF Init
<1>2. Inductive /\ [Next]_vars => [HubNext]_hubVars /\ [AgentNext]_agentVars
  BY PathStepsHub, PathStepsAgent DEF Inductive, BaseInv
<1> QED
  BY <1>1, <1>2, AlwaysInductive, PTL DEF Spec, HubSpec, AgentSpec

(***************************************************************************)
(* The path implements the promise.                                        *)
(***************************************************************************)
\* The abstract `asked`: every command that has left the hub.
Asked == {c \in Commands : c = current \/ told[c] \notin {"none", "unavailable"}}

LEMMA PromiseInit == ASSUME Init PROVE Promised!Init
  BY NoCommandAssumption DEF Init, HubInit, AgentInit, Promised!Init

\* The handler's and the hub process's steps that change what was asked or told.
LEMMA HubTellsPromise ==
  ASSUME Inductive, NEW c \in Commands, HubTells(c)
  PROVE  Promised!Next
<1>0. /\ told \in [Commands -> Outcome]
      /\ current \in Commands => told[current] = "none"
      /\ current \in Commands \cup {NoCommand}
      /\ handler = "idle" <=> current = NoCommand
  BY DEF Inductive, BaseInv, HubInv, HubTypeOK, CurrentUntold, WaiterFollowsHandler
<1>1. UNCHANGED <<published, performed>>
  BY DEF HubTells, agentVars
\* Either reply is a step of the promise, the one with the outcome and the one that fails.
<1>2. ASSUME NEW outcome \in {"unavailable", "not_sent", "silent"}, handler = "idle",
             told[c] = "none", current' = NoCommand, told' = [told EXCEPT ![c] = outcome]
      PROVE  Promised!Decline(c, outcome)
  <2>1. c \notin Asked
    BY <1>0, <1>2, NoCommandAssumption DEF Asked
  <2>2. Asked' = IF outcome = "unavailable" THEN Asked ELSE Asked \cup {c}
    BY <1>0, <1>2, NoCommandAssumption DEF Asked
  <2> QED
    BY <1>1, <1>2, <2>1, <2>2 DEF Promised!Decline, Asked
<1>3. ASSUME NEW outcome \in {"not_sent", "timeout", "acked", "refused", "silent"}, current = c,
             current' = NoCommand, told' = [told EXCEPT ![c] = outcome],
             outcome = "acked" => Ack(c, TRUE) \in published,
             outcome = "refused" => Ack(c, FALSE) \in published
      PROVE  Promised!Tell(c, outcome)
  <2>1. c \in Asked
    BY <1>3 DEF Asked
  <2>2. Asked' = Asked
    BY <1>0, <1>3, NoCommandAssumption DEF Asked
  <2>3. told[c] = "none"
    BY <1>0, <1>3
  <2> QED
    BY <1>1, <1>3, <2>1, <2>2, <2>3 DEF Promised!Tell, Promised!Ack, Ack, Asked
<1>a. ASSUME NEW outcome \in {"unavailable", "not_sent"}, handler = "idle", told[c] = "none",
             Tell(c, outcome)
      PROVE  Promised!Next
  <2>1. PICK shown \in {outcome, "silent"} : told' = [told EXCEPT ![c] = shown]
    BY <1>a DEF Tell
  <2>2. Promised!Decline(c, shown) /\ shown \in {"unavailable", "not_sent", "silent"}
    BY <1>2, <1>a, <2>1 DEF Tell
  <2> QED
    BY <2>2 DEF Promised!Next
<1>b. ASSUME NEW outcome \in {"not_sent", "timeout", "acked", "refused"}, current = c,
             Tell(c, outcome),
             outcome = "acked" => Ack(c, TRUE) \in published,
             outcome = "refused" => Ack(c, FALSE) \in published
      PROVE  Promised!Next
  <2>1. PICK shown \in {outcome, "silent"} : told' = [told EXCEPT ![c] = shown]
    BY <1>b DEF Tell
  <2>2. Promised!Tell(c, shown) /\ shown \in {"not_sent", "timeout", "acked", "refused", "silent"}
    BY <1>3, <1>b, <2>1 DEF Tell
  <2> QED
    BY <2>2 DEF Promised!Next
<1>4. CASE RefuseUnavailable(c)
  BY <1>4, <1>a DEF RefuseUnavailable, Fresh
<1>5. CASE IssueWithoutSession(c)
  BY <1>5, <1>a DEF IssueWithoutSession, Fresh
<1>6. CASE PublishFails(c)
  BY <1>6, <1>b DEF PublishFails
<1>7. CASE AnswerTimesOut(c)
  BY <1>7, <1>b DEF AnswerTimesOut
<1>8. CASE AnswerArrives(c)
  <2> DEFINE outcome == IF answer[c] = "ok" THEN "acked" ELSE "refused"
  <2>1. answer[c] \in {"ok", "refused"}
    BY <1>8 DEF AnswerArrives, Inductive, BaseInv, HubInv, HubTypeOK, Answer
  <2>2. /\ outcome = "acked" => Ack(c, TRUE) \in published
        /\ outcome = "refused" => Ack(c, FALSE) \in published
    BY <2>1 DEF Inductive, AnswerSaid
  <2>3. current = c /\ Tell(c, outcome)
    BY <1>8 DEF AnswerArrives
  <2> QED
    BY <1>b, <2>2, <2>3
<1> QED
  BY <1>4, <1>5, <1>6, <1>7, <1>8 DEF HubTells

LEMMA RestartPromise ==
  ASSUME Inductive, HubProcessRestarts
  PROVE  Promised!Next \/ UNCHANGED Promised!promiseVars
<1>0. /\ told \in [Commands -> Outcome]
      /\ current \in Commands => told[current] = "none"
      /\ current \in Commands \cup {NoCommand}
  BY DEF Inductive, BaseInv, HubInv, HubTypeOK, CurrentUntold
<1>1. current' = NoCommand /\ UNCHANGED <<published, performed>>
  BY DEF HubProcessRestarts, HubRestarts, ConnectionLost, agentVars
<1>2. CASE current \in Commands
  <2>1. told' = [told EXCEPT ![current] = "silent"]
    BY <1>2 DEF HubProcessRestarts, HubRestarts
  <2>2. Asked' = Asked /\ current \in Asked
    BY <1>0, <1>1, <1>2, <2>1, NoCommandAssumption DEF Asked
  <2>3. Promised!Tell(current, "silent")
    BY <1>0, <1>1, <1>2, <2>1, <2>2 DEF Promised!Tell, Asked
  <2> QED
    BY <1>2, <2>3 DEF Promised!Next
<1>3. CASE current = NoCommand
  <2>1. told' = told
    BY <1>3, NoCommandAssumption DEF HubProcessRestarts, HubRestarts
  <2>2. Asked' = Asked
    BY <1>1, <1>3, <2>1, NoCommandAssumption DEF Asked
  <2> QED
    BY <1>1, <2>1, <2>2 DEF Promised!promiseVars, Asked
<1> QED
  BY <1>0, <1>2, <1>3

LEMMA IssuePromise ==
  ASSUME Inductive, NEW c \in Commands, HubIssues(c)
  PROVE  Promised!Next
<1>1. current = NoCommand /\ told[c] = "none" /\ current' = c
  BY DEF HubIssues, Issue, Fresh, Inductive, BaseInv, HubInv, WaiterFollowsHandler
<1>2. UNCHANGED <<told, published, performed>>
  BY DEF HubIssues, Issue, agentVars
<1>3. c \notin Asked /\ Asked' = Asked \cup {c}
  BY <1>1, <1>2, NoCommandAssumption DEF Asked
<1> QED
  BY <1>1, <1>2, <1>3 DEF Promised!Ask, Promised!Next, Asked

\* A step that leaves the hub's record alone is the agent's, or invisible.
LEMMA RecordPromise ==
  ASSUME Inductive, [Next]_vars, UNCHANGED <<current, told>>
  PROVE  Promised!Next \/ UNCHANGED Promised!promiseVars
<1>1. Asked' = Asked
  BY DEF Asked
<1>2. CASE UNCHANGED <<published, performed>>
  BY <1>1, <1>2 DEF Promised!promiseVars, Asked
<1>3. ASSUME NEW c \in Commands, thread[c] \in Critical PROVE c \in Asked
  BY <1>3 DEF Inductive, OneWay, InOnePlace, Unsent, Critical, Asked
<1>4. ASSUME NEW c \in Commands, thread[c] \in Critical, Performs(c)
      PROVE  Promised!Perform(c)
  BY <1>1, <1>3, <1>4 
  DEF Performs, Promised!Perform, Promised!Ack, Ack, Promised!TakesHostDown, TakesHostDown,
      Asked
<1>5. ASSUME NEW c \in Commands, NEW ok \in BOOLEAN, thread[c] \in Critical, Says(c, ok)
      PROVE  Promised!Say(c, ok)
  BY <1>1, <1>3, <1>5 
  DEF Says, Promised!Say, Promised!Ack, Ack, Promised!TakesHostDown, TakesHostDown, Asked
<1> QED
  BY <1>2, <1>4, <1>5, PathRecord DEF Inductive, Promised!Next

LEMMA PromiseStep ==
  ASSUME Inductive, [Next]_vars
  PROVE  Promised!Next \/ UNCHANGED Promised!promiseVars
<1>1. CASE UNCHANGED <<current, told>>
  BY <1>1, RecordPromise
<1> QED
  BY <1>1, HubTellsPromise, RestartPromise, IssuePromise
  DEF Next, vars, hubVars, HubLearnsAccepted, PublishConfirmed, BrokerAcceptsCommand,
      AgentReceives, AgentThread, HubSession, SessionConnects, Subscribes,
      HubHandlesStatus, HandleStatus, HubHandlesAck, HandleAck, HubSessionEnds,
      SessionEnds, BrokerTakesAck, BrokerTakesAckUnconfirmed, AgentLinkUp,
      AgentLinkDown, MachineChanges

\* The whole path, with its sessions, threads, duplicates and crashes, implements
\* what CommandPromise states of a command.
THEOREM PathKeepsPromise == Spec => KeepsPromise
<1>1. Init => Promised!Init
  BY PromiseInit
<1>2. Inductive /\ [Next]_vars => [Promised!Next]_(Promised!promiseVars)
  BY PromiseStep
<1> QED
  BY <1>1, <1>2, AlwaysInductive, PTL DEF Spec, KeepsPromise, Promised!Promise

\* What CommandPromiseProofs proves of the promise holds of the path: the path inherits
\* the consequences of the promise by the refinement alone.
Consequences == INSTANCE CommandPromiseProofs WITH
    asked <- {c \in Commands : c = current \/ told[c] \notin {"none", "unavailable"}},
    said <- published

THEOREM PathKeepsConsequences == Spec => []Promised!Kept /\ Promised!KeptByStep
<1> USE DEF Promised!Ack, Consequences!Ack, Promised!TakesHostDown, Consequences!TakesHostDown
<1>1. Promised!Init => Consequences!Init
  BY DEF Promised!Init, Consequences!Init
<1>2. [Promised!Next]_(Promised!promiseVars) => [Consequences!Next]_(Consequences!promiseVars)
  BY DEF Promised!Next, Promised!Ask, Promised!Decline, Promised!Say, Promised!Perform,
     Promised!Tell, Promised!promiseVars, Consequences!Next, Consequences!Ask,
     Consequences!Decline, Consequences!Say, Consequences!Perform, Consequences!Tell,
     Consequences!promiseVars
<1>3. Consequences!Promise => []Consequences!Kept /\ Consequences!KeptByStep
  <2>1. ActionOf \in [Commands -> Consequences!Action]
    BY ActionOfAssumption DEF Action, Consequences!Action
  <2> QED
    BY <2>1, NoCommandAssumption, Consequences!PromiseKept, Consequences!PromiseKeptByStep
<1>4. Consequences!Kept => Promised!Kept
  BY DEF Promised!Kept, Consequences!Kept
<1> QED
  BY <1>1, <1>2, <1>3, <1>4, PathKeepsPromise, PTL
  DEF KeepsPromise, Promised!Promise, Consequences!Promise, Promised!KeptByStep,
      Consequences!KeptByStep, Promised!promiseVars, Consequences!promiseVars
=============================================================================
