------------------------- MODULE HubCommandsProofs -------------------------
(***************************************************************************)
(* Proofs about HubCommands, for any set of commands and a broker that may *)
(* do anything.                                                            *)
(***************************************************************************)
EXTENDS HubCommands, TLAPS

\* The types are inductive on their own.
LEMMA HubTypeStep == ASSUME HubTypeOK, [HubNext]_hubVars PROVE HubTypeOK'
<1> USE DEF HubTypeOK, Session, Handler, Outcome, Answer, Presence
<1>1. ASSUME NEW c \in Commands, RefuseUnavailable(c) PROVE HubTypeOK'
  BY <1>1 DEF RefuseUnavailable, Tell
<1>2. ASSUME NEW c \in Commands, IssueWithoutSession(c) PROVE HubTypeOK'
  BY <1>2 DEF IssueWithoutSession, Tell
<1>3. ASSUME NEW c \in Commands, Issue(c) PROVE HubTypeOK'
  BY <1>3 DEF Issue
<1>4. ASSUME NEW c \in Commands, PublishConfirmed(c) PROVE HubTypeOK'
  BY <1>4 DEF PublishConfirmed
<1>5. ASSUME NEW c \in Commands, PublishFails(c) PROVE HubTypeOK'
  BY <1>5 DEF PublishFails, Tell
<1>6. ASSUME NEW c \in Commands, AnswerArrives(c) PROVE HubTypeOK'
  BY <1>6 DEF AnswerArrives, Tell
<1>7. ASSUME NEW c \in Commands, AnswerTimesOut(c) PROVE HubTypeOK'
  BY <1>7 DEF AnswerTimesOut, Tell
<1>8. CASE SessionConnects
  BY <1>8 DEF SessionConnects
<1>9. CASE Subscribes
  BY <1>9 DEF Subscribes
<1>10. CASE SessionEnds
  BY <1>10 DEF SessionEnds
<1>11. ASSUME NEW p \in Presence, HandleStatus(p) PROVE HubTypeOK'
  BY <1>11 DEF HandleStatus
<1>12. ASSUME NEW ack \in Acks, HandleAck(ack) PROVE HubTypeOK'
  BY <1>12 DEF HandleAck, Acks, Ack
<1>13. CASE HubRestarts
  BY <1>13 DEF HubRestarts
<1>14. CASE UNCHANGED hubVars
  BY <1>14 DEF hubVars
<1> QED
  BY <1>1, <1>2, <1>3, <1>4, <1>5, <1>6, <1>7, <1>8, <1>9, <1>10, <1>11, <1>12,
     <1>13, <1>14 DEF HubNext

\* So is the discipline of the waiters, given the types.
LEMMA WaiterStep ==
  ASSUME HubTypeOK, WaiterFollowsHandler, [HubNext]_hubVars
  PROVE  WaiterFollowsHandler'
<1> USE NoCommandAssumption DEF HubTypeOK, WaiterFollowsHandler, Handler, Answer
<1>1. ASSUME NEW c \in Commands, RefuseUnavailable(c) PROVE WaiterFollowsHandler'
  BY <1>1 DEF RefuseUnavailable, Fresh, Tell
<1>2. ASSUME NEW c \in Commands, IssueWithoutSession(c) PROVE WaiterFollowsHandler'
  BY <1>2 DEF IssueWithoutSession, Fresh, Tell
<1>3. ASSUME NEW c \in Commands, Issue(c) PROVE WaiterFollowsHandler'
  BY <1>3 DEF Issue, Fresh
<1>4. ASSUME NEW c \in Commands, PublishConfirmed(c) PROVE WaiterFollowsHandler'
  BY <1>4 DEF PublishConfirmed
<1>5. ASSUME NEW c \in Commands, PublishFails(c) PROVE WaiterFollowsHandler'
  BY <1>5 DEF PublishFails, Tell
<1>6. ASSUME NEW c \in Commands, AnswerArrives(c) PROVE WaiterFollowsHandler'
  BY <1>6 DEF AnswerArrives, Tell
<1>7. ASSUME NEW c \in Commands, AnswerTimesOut(c) PROVE WaiterFollowsHandler'
  BY <1>7 DEF AnswerTimesOut, Tell
<1>8. CASE SessionConnects
  BY <1>8 DEF SessionConnects
<1>9. CASE Subscribes
  BY <1>9 DEF Subscribes
<1>10. CASE SessionEnds
  BY <1>10 DEF SessionEnds
<1>11. ASSUME NEW p \in Presence, HandleStatus(p) PROVE WaiterFollowsHandler'
  BY <1>11 DEF HandleStatus
<1>12. ASSUME NEW ack \in Acks, HandleAck(ack) PROVE WaiterFollowsHandler'
  BY <1>12 DEF HandleAck, Acks, Ack
<1>13. CASE HubRestarts
  BY <1>13 DEF HubRestarts
<1>14. CASE UNCHANGED hubVars
  BY <1>14 DEF hubVars
<1> QED
  BY <1>1, <1>2, <1>3, <1>4, <1>5, <1>6, <1>7, <1>8, <1>9, <1>10, <1>11, <1>12,
     <1>13, <1>14 DEF HubNext

\* An outcome is final: Fresh and the running handler never meet a command that
\* was told. The running one has not been told anything yet.
CurrentUntold == current \in Commands => told[current] = "none"

LEMMA CurrentUntoldStep ==
  ASSUME HubTypeOK, WaiterFollowsHandler, CurrentUntold, [HubNext]_hubVars
  PROVE  CurrentUntold' /\ (\A c \in Commands : told[c] # "none" => told'[c] = told[c])
<1> USE NoCommandAssumption DEF HubTypeOK, WaiterFollowsHandler, CurrentUntold
<1> DEFINE Goal == CurrentUntold' /\ (\A c \in Commands : told[c] # "none" => told'[c] = told[c])
<1>1. ASSUME NEW c \in Commands,
             RefuseUnavailable(c) \/ IssueWithoutSession(c) \/ Issue(c)
      PROVE  Goal
  BY <1>1 DEF RefuseUnavailable, IssueWithoutSession, Issue, Fresh, Tell
<1>2. ASSUME NEW c \in Commands,
             PublishFails(c) \/ AnswerArrives(c) \/ AnswerTimesOut(c)
      PROVE  Goal
  BY <1>2 DEF PublishFails, AnswerArrives, AnswerTimesOut, Tell
<1>3. CASE HubRestarts
  BY <1>3 DEF HubRestarts
<1>4. CASE UNCHANGED <<current, told>>
  BY <1>4
<1> QED
  BY <1>1, <1>2, <1>3, <1>4
  DEF HubNext, hubVars, PublishConfirmed, SessionConnects, Subscribes, SessionEnds,
      HandleStatus, HandleAck

\* The invariant of the hub.
HubInv == HubTypeOK /\ WaiterFollowsHandler /\ CurrentUntold

\* The hub keeps its types, its waiters follow its handler, and the handler that
\* runs has told nothing yet, whatever the broker does.
THEOREM HubInvariant == HubSpec => []HubInv
<1>1. HubInit => HubInv
  BY NoCommandAssumption
  DEF HubInit, HubInv, HubTypeOK, WaiterFollowsHandler, CurrentUntold, Session, Handler,
      Outcome, Answer
<1>2. HubInv /\ [HubNext]_hubVars => HubInv'
  BY HubTypeStep, WaiterStep, CurrentUntoldStep DEF HubInv
<1> QED
  BY <1>1, <1>2, PTL DEF HubSpec

\* PendingAcks against _run_command: no handler waits on a future that nobody can
\* resolve and no waiter outlives its handler.
THEOREM HubWaiters == HubSpec => []WaiterFollowsHandler
<1>1. HubInv => WaiterFollowsHandler
  BY DEF HubInv
<1> QED
  BY <1>1, HubInvariant, PTL
=============================================================================
