------------------------ MODULE AgentExecutorProofs ------------------------
(***************************************************************************)
(* Proofs about AgentExecutor and the power backends under it, for any set *)
(* of commands, any actions, and a broker that may deliver any command and *)
(* drop any connection.                                                    *)
(***************************************************************************)
EXTENDS AgentExecutor, SequenceTheorems, TLAPS

(***************************************************************************)
(* The power backends, for every platform, action and set of installed     *)
(* helpers.                                                                *)
(***************************************************************************)
LEMMA RunCommandTyped ==
  ASSUME NEW installed, NEW helper
  PROVE  /\ RunCommand(installed, helper) \subseteq CallOutcome
         /\ \A o \in RunCommand(installed, helper) : o.ended = "returned" => o.took
<1>1. /\ Succeeded \in CallOutcome /\ Succeeded.took
      /\ Failed \in CallOutcome /\ Failed.ended = "failed"
  BY DEF CallOutcome, Succeeded, Failed
<1>2. ASSUME NEW o \in [ended : {"failed", "raised"}, took : BOOLEAN]
      PROVE  o \in CallOutcome /\ o.ended # "returned"
  BY DEF CallOutcome
<1> QED
  BY <1>1, <1>2 DEF RunCommand

\* A call that returns has had its action taken.
LEMMA PerformTyped ==
  ASSUME NEW platform, NEW installed, NEW action
  PROVE  /\ Perform(platform, installed, action) \subseteq CallOutcome
         /\ \A o \in Perform(platform, installed, action) : o.ended = "returned" => o.took
<1>1. CallSystem \subseteq CallOutcome /\ \A o \in CallSystem : o.ended = "returned" => o.took
  BY DEF CallSystem, CallOutcome, Succeeded, Failed
<1>2. ASSUME NEW first \in SUBSET CallOutcome, NEW second \in SUBSET CallOutcome,
             \A o \in first : o.ended = "returned" => o.took,
             \A o \in second : o.ended = "returned" => o.took
      PROVE  /\ OrElse(first, second) \subseteq CallOutcome
             /\ \A o \in OrElse(first, second) : o.ended = "returned" => o.took
  <2> SUFFICES ASSUME NEW o \in OrElse(first, second)
               PROVE  o \in CallOutcome /\ (o.ended = "returned" => o.took)
    OBVIOUS
  <2>1. CASE o \in first
    BY <1>2, <2>1
  <2>2. CASE \E p \in first, q \in second : o = [ended |-> q.ended, took |-> p.took \/ q.took]
    BY <1>2, <2>2 DEF CallOutcome
  <2> QED
    BY <2>1, <2>2 DEF OrElse
<1> DEFINE lockOutcomes == OrElse(RunCommand(installed, "loginctl"), RunCommand(installed, "xdg-screensaver"))
<1>3. lockOutcomes \subseteq CallOutcome /\ \A o \in lockOutcomes : o.ended = "returned" => o.took
  BY <1>2, RunCommandTyped
<1>4. Perform(platform, installed, action)
        \in {lockOutcomes, RunCommand(installed, "systemctl"), CallSystem, RunCommand(installed, "shutdown.exe")}
  BY DEF Perform
<1> QED
  BY <1>1, <1>3, <1>4, RunCommandTyped

\* The same of any set of helpers.
LEMMA OutcomesTyped ==
  ASSUME NEW platform, NEW action
  PROVE  /\ PerformOutcomes(platform, action) \subseteq CallOutcome
         /\ \A o \in PerformOutcomes(platform, action) : o.ended = "returned" => o.took
  BY PerformTyped DEF PerformOutcomes

\* preflight of linux.py and win.py is exact as far as it can see: it refuses an
\* action if and only if perform, with the same helpers, has no way to succeed; and
\* then perform would have done nothing but fail.
THEOREM PreflightExact ==
  ASSUME NEW platform \in Platforms, NEW installed, NEW action \in Action
  PROVE  /\ Refuses(platform, installed, action) <=> Succeeded \notin Perform(platform, installed, action)
         /\ Refuses(platform, installed, action) => Perform(platform, installed, action) = {Failed}
<1>1. ASSUME NEW helper
      PROVE  /\ helper \in installed => Succeeded \in RunCommand(installed, helper)
             /\ helper \notin installed => RunCommand(installed, helper) = {Failed}
  BY DEF RunCommand
<1>2. Succeeded # Failed /\ Succeeded \in CallSystem
  BY DEF Succeeded, Failed, CallSystem
<1>3. CASE platform = "linux" /\ action = "lock"
  <2> DEFINE first == RunCommand(installed, "loginctl")
             second == RunCommand(installed, "xdg-screensaver")
  <2>1. Perform(platform, installed, action) = OrElse(first, second)
    BY <1>3 DEF Perform
  <2>2. CASE "loginctl" \in installed
    <3>1. Succeeded \in first /\ Succeeded.ended # "failed"
      BY <1>1, <2>2 DEF Succeeded
    <3>2. Succeeded \in OrElse(first, second)
      BY <3>1 DEF OrElse
    <3> QED
      BY <1>3, <2>1, <2>2, <3>2 DEF Refuses
  <2>3. CASE "loginctl" \notin installed /\ "xdg-screensaver" \in installed
    <3>1. first = {Failed} /\ Succeeded \in second /\ Failed.ended = "failed"
      BY <1>1, <2>3 DEF Failed
    <3>2. [ended |-> Succeeded.ended, took |-> Failed.took \/ Succeeded.took] = Succeeded
      BY DEF Succeeded, Failed
    <3>3. Succeeded \in OrElse(first, second)
      BY <3>1, <3>2 DEF OrElse
    <3> QED
      BY <1>3, <2>1, <2>3, <3>3 DEF Refuses
  <2>4. CASE "loginctl" \notin installed /\ "xdg-screensaver" \notin installed
    <3>1. first = {Failed} /\ second = {Failed}
      BY <1>1, <2>4
    <3>2. /\ [ended |-> Failed.ended, took |-> Failed.took \/ Failed.took] = Failed
          /\ Failed.ended = "failed"
      BY DEF Failed
    <3>3. OrElse(first, second) = {Failed}
      BY <3>1, <3>2 DEF OrElse
    <3> QED
      BY <1>2, <1>3, <2>1, <2>4, <3>3 DEF Refuses
  <2> QED
    BY <2>2, <2>3, <2>4
<1>4. CASE platform = "linux" /\ action # "lock"
  BY <1>1, <1>2, <1>4 DEF Perform, Refuses
<1>5. CASE platform = "windows" /\ action \in {"sleep", "lock"}
  BY <1>2, <1>5 DEF Perform, Refuses
<1>6. CASE platform = "windows" /\ action \in {"shutdown", "restart"}
  BY <1>1, <1>2, <1>6 DEF Perform, Refuses
<1> QED
  BY <1>3, <1>4, <1>5, <1>6 DEF Platforms, Action

(***************************************************************************)
(* The threads and the machine.                                            *)
(***************************************************************************)
LEMMA AckIsAck == \A c \in Commands, ok \in BOOLEAN : Ack(c, ok) \in Acks
  BY DEF Acks

\* What _publish_ack does to the variables it touches.
LEMMA PublishAckType ==
  ASSUME AgentTypeOK, NEW c \in Commands, NEW ok \in BOOLEAN, NEW next \in Thread,
         PublishAck(c, ok, next)
  PROVE  /\ published' \subseteq Acks
         /\ outbox' \in Seq(Acks)
         /\ thread' \in [Commands -> Thread]
         /\ lock' \in Commands \cup {NoCommand}
<1>1. Ack(c, ok) \in Acks
  BY AckIsAck
<1>2. outbox' \in Seq(Acks)
  BY <1>1 DEF PublishAck, AgentTypeOK
<1> QED
  BY <1>1, <1>2 DEF PublishAck, AgentTypeOK, Thread

\* What perform does to the PC keeps the types.
LEMMA TakeEffectType ==
  ASSUME AgentTypeOK, NEW c \in Commands, NEW took \in BOOLEAN, TakeEffect(c, took)
  PROVE  performed' \in [Commands -> Nat] /\ machine' \in Machine
  BY DEF TakeEffect, AgentTypeOK, Machine

\* An outcome of perform: its type, and that what has returned was taken.
LEMMA OutcomeType ==
  ASSUME NEW c \in Commands, NEW o \in PerformOutcomes(Platform, ActionOf[c])
  PROVE  o.took \in BOOLEAN /\ (o.ended = "returned" => o.took)
  BY OutcomesTyped DEF CallOutcome

\* What preflight can come to is yes or no.
LEMMA PreflightType ==
  ASSUME NEW c \in Commands, NEW ok \in PreflightOutcomes(Platform, ActionOf[c])
  PROVE  ok \in BOOLEAN
  BY DEF PreflightOutcomes, Refuses

LEMMA AgentTypeStep == ASSUME AgentTypeOK, [AgentNext]_agentVars PROVE AgentTypeOK'
<1>1. CASE AgentConnects \/ AgentDisconnects
  BY <1>1 DEF AgentConnects, AgentDisconnects, AgentTypeOK
<1>2. CASE AckConfirmed
  BY <1>2 DEF AckConfirmed, AgentTypeOK
<1>3. ASSUME NEW c \in Commands, OnMessage(c) PROVE AgentTypeOK'
  BY <1>3 DEF OnMessage, AgentTypeOK, Thread
<1>4. ASSUME NEW c \in Commands, AcquireLock(c) PROVE AgentTypeOK'
  BY <1>4 DEF AcquireLock, AgentTypeOK, Thread
<1>5. ASSUME NEW c \in Commands, NEW o \in PerformOutcomes(Platform, ActionOf[c]),
             PerformThenAck(c, o) \/ PerformFailsAfterAck(c, o)
      PROVE  AgentTypeOK'
  <2>1. PICK ok \in BOOLEAN : PublishAck(c, ok, "reporting")
    BY <1>5 DEF PerformThenAck, PerformFailsAfterAck
  <2>2. TakeEffect(c, o.took) /\ link' = link
    BY <1>5 DEF PerformThenAck, PerformFailsAfterAck
  <2>3. "reporting" \in Thread
    BY DEF Thread
  <2> QED
    BY <2>1, <2>2, <2>3, PublishAckType, TakeEffectType, OutcomeType DEF AgentTypeOK
<1>6. ASSUME NEW c \in Commands, NEW ok \in BOOLEAN, Preflight(c, ok) PROVE AgentTypeOK'
  <2> DEFINE next == IF ok THEN "flushing" ELSE "reporting"
  <2>1. next \in Thread
    BY DEF Thread
  <2>2. PublishAck(c, ok, next)
    BY <1>6 DEF Preflight
  <2> QED
    BY <1>6, <2>1, <2>2, PublishAckType DEF Preflight, AgentTypeOK
<1>7. ASSUME NEW c \in Commands, NEW o \in PerformOutcomes(Platform, ActionOf[c]),
             PerformAfterAck(c, o) \/ PerformRaises(c, o)
      PROVE  AgentTypeOK'
  <2>1. TakeEffect(c, o.took)
    BY <1>7 DEF PerformAfterAck, PerformRaises
  <2>2. thread' \in [Commands -> Thread] /\ lock' \in Commands \cup {NoCommand}
    BY <1>7 DEF PerformAfterAck, PerformRaises, AgentTypeOK, Thread
  <2>3. UNCHANGED <<link, outbox, published>>
    BY <1>7 DEF PerformAfterAck, PerformRaises
  <2> QED
    BY <2>1, <2>2, <2>3, TakeEffectType, OutcomeType DEF AgentTypeOK
<1>8. ASSUME NEW c \in Commands, ThreadEnds(c) PROVE AgentTypeOK'
  BY <1>8 DEF ThreadEnds, AgentTypeOK, Thread
<1>9. CASE MachineStep
  BY <1>9
  DEF MachineStep, FallsAsleep, Resumes, PowerChangeVetoed, Boots, AgentTypeOK, Machine
<1>10. CASE GoesDown
  BY <1>10 DEF GoesDown, AgentGone, AgentTypeOK, Thread, Machine
<1>11. CASE UNCHANGED agentVars
  BY <1>11 DEF agentVars, AgentTypeOK
<1> QED
  BY <1>1, <1>2, <1>3, <1>4, <1>5, <1>6, <1>7, <1>8, <1>9, <1>10, <1>11, PreflightType
  DEF AgentNext, ThreadStep

\* _publish_ack keeps the lock with a thread that goes on inside `with`, and
\* frees it with the exception that leaves `with`.
LEMMA PublishAckKeepsLock ==
  ASSUME AgentTypeOK, OneActionAtATime, NEW c \in Commands, NEW ok \in BOOLEAN,
         NEW next \in Critical, thread[c] \in Critical, PublishAck(c, ok, next)
  PROVE  OneActionAtATime'
  BY NoCommandAssumption DEF PublishAck, AgentTypeOK, OneActionAtATime, Critical

LEMMA OneActionStep ==
  ASSUME AgentTypeOK, OneActionAtATime, [AgentNext]_agentVars
  PROVE  OneActionAtATime'
<1>1. CASE UNCHANGED <<thread, lock>>
  BY <1>1 DEF OneActionAtATime
<1>2. ASSUME NEW c \in Commands, OnMessage(c) PROVE OneActionAtATime'
  BY <1>2 DEF OnMessage, AgentTypeOK, OneActionAtATime, Critical, Ended
<1>3. ASSUME NEW c \in Commands, AcquireLock(c) PROVE OneActionAtATime'
  BY <1>3, NoCommandAssumption DEF AcquireLock, AgentTypeOK, OneActionAtATime, Critical
<1>4. ASSUME NEW c \in Commands,
             \/ \E ok \in BOOLEAN : Preflight(c, ok)
             \/ \E o \in PerformOutcomes(Platform, ActionOf[c]) :
                   PerformThenAck(c, o) \/ PerformFailsAfterAck(c, o)
      PROVE  OneActionAtATime'
  <2>1. thread[c] \in Critical
    BY <1>4 DEF PerformThenAck, Preflight, PerformFailsAfterAck, Critical
  <2>2. \E next \in Critical, no \in BOOLEAN : PublishAck(c, no, next)
    BY <1>4 DEF PerformThenAck, Preflight, PerformFailsAfterAck, Critical
  <2> QED
    BY <2>1, <2>2, PublishAckKeepsLock
<1>5. ASSUME NEW c \in Commands, NEW o, PerformAfterAck(c, o) \/ PerformRaises(c, o)
      PROVE  OneActionAtATime'
  BY <1>5, NoCommandAssumption
  DEF PerformAfterAck, PerformRaises, AgentTypeOK, OneActionAtATime, Critical
<1>6. ASSUME NEW c \in Commands, ThreadEnds(c) PROVE OneActionAtATime'
  BY <1>6, NoCommandAssumption DEF ThreadEnds, AgentTypeOK, OneActionAtATime, Critical
<1>7. CASE GoesDown
  BY <1>7, NoCommandAssumption
  DEF GoesDown, AgentGone, AgentTypeOK, OneActionAtATime, Critical, Ended
<1> QED
  BY <1>1, <1>2, <1>3, <1>4, <1>5, <1>6, <1>7, PreflightType
  DEF AgentNext, ThreadStep, agentVars, AgentConnects, AgentDisconnects, AckConfirmed,
      MachineStep, FallsAsleep, Resumes, PowerChangeVetoed, Boots

\* The invariant of the agent.
AgentInv == AgentTypeOK /\ OneActionAtATime

\* The agent keeps its types, and never runs two power actions at once.
THEOREM AgentInvariant == AgentSpec => []AgentInv
<1>1. AgentInit => AgentInv
  BY NoCommandAssumption
  DEF AgentInit, AgentInv, AgentTypeOK, OneActionAtATime, Critical, Machine, Thread
<1>2. AgentInv /\ [AgentNext]_agentVars => AgentInv'
  BY AgentTypeStep, OneActionStep DEF AgentInv
<1> QED
  BY <1>1, <1>2, PTL DEF AgentSpec

\* Agent._lock: whatever the broker sends and whatever breaks, the thread inside
\* `with self._lock` is the only one there.
THEOREM AgentSerialised == AgentSpec => []OneActionAtATime
<1>1. AgentInv => OneActionAtATime
  BY DEF AgentInv
<1> QED
  BY <1>1, AgentInvariant, PTL
=============================================================================
