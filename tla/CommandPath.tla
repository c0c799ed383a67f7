---------------------------- MODULE CommandPath ----------------------------
(***************************************************************************)
(* A power command from the chat to the PC and back: the handler and the   *)
(* broker session of HubCommands, the threads and the machine of           *)
(* AgentExecutor, and the MQTT broker between them.                        *)
(*                                                                         *)
(* Commands are QoS 1 and not retained, and the agent connects with a      *)
(* clean session: a command that finds no connected agent is dropped, and  *)
(* one that was handed to a connection that ends is not delivered again.   *)
(* Acknowledgements are QoS 1 too; the agent's client sends one again when *)
(* the connection ended before its PUBACK, so the hub can see it twice.    *)
(***************************************************************************)
EXTENDS HubCommands, AgentExecutor

CONSTANT MaxDownlink  \* a bound on the acknowledgements queued for the hub

ASSUME MaxDownlinkAssumption == MaxDownlink \in Nat \ {0}

VARIABLES
    uplink,    \* commands the hub has sent that have not reached the broker
    accepted,  \* commands the broker has accepted, its PUBACK being on its way
    inbox,     \* commands on the agent's connection
    downlink   \* acknowledgements on the hub's session

netVars == <<uplink, accepted, inbox, downlink>>
vars == <<hubVars, agentVars, netVars>>

NetTypeOK ==
    /\ uplink \subseteq Commands
    /\ accepted \subseteq Commands
    /\ inbox \subseteq Commands
    /\ downlink \in Seq(Acks)

\* The type of every variable.
TypeOK == HubTypeOK /\ AgentTypeOK /\ NetTypeOK

Init ==
    /\ HubInit
    /\ AgentInit
    /\ uplink = {}
    /\ accepted = {}
    /\ inbox = {}
    /\ downlink = <<>>

(***************************************************************************)
(* The hub's steps.                                                        *)
(***************************************************************************)
\* The PUBLISH is written to the socket of the live session.
HubIssues(c) ==
    /\ Issue(c)
    /\ uplink' = uplink \cup {c}
    /\ UNCHANGED <<agentVars, accepted, inbox, downlink>>

HubLearnsAccepted(c) ==
    /\ c \in accepted
    /\ PublishConfirmed(c)
    /\ accepted' = accepted \ {c}
    /\ UNCHANGED <<agentVars, uplink, inbox, downlink>>

\* The steps that end a handler, with a reply or with one that fails. A PUBACK that
\* comes after it is ignored.
HubTells(c) ==
    /\ \/ RefuseUnavailable(c) \/ IssueWithoutSession(c) \/ PublishFails(c)
       \/ AnswerArrives(c) \/ AnswerTimesOut(c)
    /\ accepted' = {}
    /\ UNCHANGED <<agentVars, uplink, inbox, downlink>>

HubSession ==
    /\ SessionConnects \/ Subscribes
    /\ UNCHANGED <<agentVars, netVars>>

\* The retained status and the last will are Presence's subject: here the
\* status topic may report either value at any time.
HubHandlesStatus ==
    /\ \E p \in Presence : HandleStatus(p)
    /\ UNCHANGED <<agentVars, netVars>>

HubHandlesAck ==
    /\ downlink # <<>>
    /\ HandleAck(Head(downlink))
    /\ downlink' = Tail(downlink)
    /\ UNCHANGED <<agentVars, uplink, accepted, inbox>>

\* What was on the connection is gone, except that a PUBLISH may still be in a
\* buffer on its way to the broker.
ConnectionLost ==
    /\ uplink' \in {uplink, {}}
    /\ accepted' = {}
    /\ downlink' = <<>>
    /\ UNCHANGED <<agentVars, inbox>>

HubSessionEnds == SessionEnds /\ ConnectionLost

HubProcessRestarts == HubRestarts /\ ConnectionLost

(***************************************************************************)
(* The broker's steps.                                                     *)
(***************************************************************************)
\* Mutant of BrokerAcceptsCommand: the hub's client sends the command again.
BrokerAcceptsCommandAgain(c) ==
    /\ c \in uplink
    /\ uplink' = uplink
    /\ accepted' = IF handler = "publishing" /\ current = c
                   THEN accepted \cup {c} ELSE accepted
    /\ inbox' = IF link = "up" THEN inbox \cup {c} ELSE inbox
    /\ UNCHANGED <<hubVars, agentVars, downlink>>

\* The PUBLISH arrives: the broker forwards it to the agent if the agent is
\* connected, forgets it otherwise, and confirms it in either case.
BrokerAcceptsCommand(c) ==
    /\ c \in uplink
    /\ uplink' = uplink \ {c}
    /\ accepted' = IF handler = "publishing" /\ current = c
                   THEN accepted \cup {c} ELSE accepted
    /\ inbox' = IF link = "up" THEN inbox \cup {c} ELSE inbox
    /\ UNCHANGED <<hubVars, agentVars, downlink>>

\* The broker passes an acknowledgement on to the hub's session, which gets it
\* only if it is subscribed by then.
Forward(ack) ==
    /\ Len(downlink) < MaxDownlink
    /\ downlink' = IF AckSubscribed THEN Append(downlink, ack) ELSE downlink

BrokerTakesAck ==
    /\ AckConfirmed
    /\ Forward(Head(outbox))
    /\ UNCHANGED <<hubVars, uplink, accepted, inbox>>

\* The same, but the connection ends before the agent has the PUBACK.
BrokerTakesAckUnconfirmed ==
    /\ Running
    /\ outbox # <<>>
    /\ AgentDisconnects
    /\ Forward(Head(outbox))
    /\ inbox' = {}
    /\ UNCHANGED <<hubVars, uplink, accepted>>

(***************************************************************************)
(* The agent's steps.                                                      *)
(***************************************************************************)
\* Mutant of AgentReceives: the broker delivers the command again.
AgentReceivesAgain(c) ==
    /\ c \in inbox
    /\ OnMessage(c)
    /\ UNCHANGED <<hubVars, uplink, accepted, inbox, downlink>>

AgentReceives(c) ==
    /\ c \in inbox
    /\ OnMessage(c)
    /\ inbox' = inbox \ {c}
    /\ UNCHANGED <<hubVars, uplink, accepted, downlink>>

AgentThread(c) == ThreadStep(c) /\ UNCHANGED <<hubVars, netVars>>

AgentLinkUp == AgentConnects /\ UNCHANGED <<hubVars, netVars>>

\* The connection ends, for any reason; what was on it is not sent again.
AgentLinkDown ==
    /\ AgentDisconnects \/ GoesDown
    /\ inbox' = {}
    /\ UNCHANGED <<hubVars, uplink, accepted, downlink>>

MachineChanges == MachineStep /\ UNCHANGED <<hubVars, netVars>>

Next ==
    \/ \E c \in Commands :
          \/ HubIssues(c) \/ HubLearnsAccepted(c) \/ HubTells(c)
          \/ BrokerAcceptsCommand(c) \/ AgentReceives(c) \/ AgentThread(c)
    \/ HubSession \/ HubHandlesStatus \/ HubHandlesAck
    \/ HubSessionEnds \/ HubProcessRestarts
    \/ BrokerTakesAck \/ BrokerTakesAckUnconfirmed
    \/ AgentLinkUp \/ AgentLinkDown \/ MachineChanges

Spec == Init /\ [][Next]_vars

\* The event loop runs the handler's timers whatever the network does.
HandlerFairness ==
    \A c \in Commands :
        WF_vars(PublishFails(c) /\ HubTells(c)) /\ WF_vars(AnswerTimesOut(c) /\ HubTells(c))

\* The operating system runs the agent's threads, and their waits have timeouts.
ThreadFairness == \A c \in Commands : WF_vars(AgentThread(c))

FairSpec == Spec /\ HandlerFairness /\ ThreadFairness

(***************************************************************************)
(* Properties.                                                             *)
(***************************************************************************)
\* Whether c has not left the hub.
Unsent(c) == c # current /\ told[c] \in {"none", "unavailable"}

\* A command is in one place at a time: with the hub, on its way to the broker, on
\* the agent's connection, or in its thread; a place it has left it never enters
\* again.
InOnePlace(c) ==
    /\ Unsent(c) => c \notin uplink /\ c \notin inbox /\ thread[c] = "none"
    /\ c \in uplink => c \notin inbox /\ thread[c] = "none"
    /\ c \in inbox => thread[c] = "none"

\* At each stage of its thread, what has been done and said about c is what
\* _perform_then_ack or _ack_then_perform has come to by then.
InItsStage(c) ==
    /\ thread[c] \in {"none", "queued", "performing", "preflighting"} =>
          performed[c] = 0 /\ Ack(c, TRUE) \notin published /\ Ack(c, FALSE) \notin published
    /\ thread[c] = "flushing" =>
          performed[c] = 0 /\ Ack(c, TRUE) \in published /\ Ack(c, FALSE) \notin published
    /\ thread[c] = "performing" => ~TakesHostDown(ActionOf[c])
    /\ thread[c] \in {"preflighting", "flushing"} => TakesHostDown(ActionOf[c])

\* A command travels one way, and is executed in one of the two orders, through
\* every lost connection, restart and crash.
OneWay == \A c \in Commands : InOnePlace(c) /\ InItsStage(c)

\* What the user is shown is what the agent said, and for a lock it is also
\* what happened: the acknowledgement of _perform_then_ack reports the outcome.
VerdictIsTrue ==
    \A c \in Commands :
        /\ told[c] = "acked" => Ack(c, TRUE) \in published
        /\ told[c] = "acked" /\ ~TakesHostDown(ActionOf[c]) => performed[c] = 1
        /\ told[c] = "refused" => Ack(c, FALSE) \in published

\* Nothing on its way to the hub is anything but what the agent has said, and the
\* yes to a lock is said when the lock has been performed.
NothingInvented ==
    /\ \A i \in DOMAIN outbox : outbox[i] \in published
    /\ \A i \in DOMAIN downlink : downlink[i] \in published
    /\ \A c \in Commands :
          /\ answer[c] = "ok" => Ack(c, TRUE) \in published
          /\ answer[c] = "refused" => Ack(c, FALSE) \in published
          /\ Ack(c, TRUE) \in published /\ ~TakesHostDown(ActionOf[c]) => performed[c] = 1

\* A no is final: nothing is performed after the agent has published a refusal of it,
\* by preflight or after an attempt, or after the hub's gate has turned it down.
RefusedNeverPerformed ==
    [][\A c \in Commands : performed'[c] # performed[c] =>
            Ack(c, FALSE) \notin published /\ told[c] # "unavailable"]_vars

\* One tap, at most one power action: no reconnection, restart or redelivery
\* brings a command back, so a restart cannot become a boot loop.
AtMostOnce == \A c \in Commands : performed[c] <= 1

\* _ack_then_perform: an action that ends the connection is performed only
\* after its acknowledgement was handed to the client.
AckBeforeDown ==
    \A c \in Commands :
        performed[c] > 0 /\ TakesHostDown(ActionOf[c]) => Ack(c, TRUE) \in published

\* A yes is never followed by silence: a thread that has come to its regular end, or
\* waits for it, after a yes has performed the action or corrected itself with a no.
\* Only a thread that was cut short leaves a yes open (YesIsKept says where).
YesKeptOrCorrected ==
    \A c \in Commands :
        /\ Ack(c, TRUE) \in published
        /\ thread[c] \in {"reporting", "suspended", "done"}
        => performed[c] = 1 \/ Ack(c, FALSE) \in published

\* The actions that WindowsBackend leaves to a system call and its result, and to
\* no helper program.
Native(c) == Platform = "windows" /\ ActionOf[c] \in {"sleep", "lock"}

\* A no is a mistake only where run_command is to blame: of an action that a system
\* call takes, what the agent refuses or reports as failed was not performed.
NoIsTrueIfNative ==
    \A c \in Commands : Native(c) /\ Ack(c, FALSE) \in published => performed[c] = 0

\* How far a thread has come.
Progress(stage) ==
    CASE stage = "none" -> 0
      [] stage = "queued" -> 1
      [] stage \in {"performing", "preflighting"} -> 2
      [] stage = "flushing" -> 3
      [] stage \in {"reporting", "suspended"} -> 4
      [] stage \in Ended -> 5

\* A thread only ever advances: an ended one never starts again, also not when it was
\* killed in the queue, and no suspend, veto or exception takes one back. Each thread
\* therefore takes at most five steps, which is half of CommandFinishes.
ThreadsAdvance ==
    [][\A c \in Commands :
          thread'[c] # thread[c] => Progress(thread'[c]) > Progress(thread[c])]_vars

\* The inductive invariant of the path.
PathInv ==
    /\ TypeOK /\ WaiterFollowsHandler /\ OneActionAtATime
    /\ OneWay /\ NothingInvented
    /\ VerdictIsTrue /\ AtMostOnce /\ AckBeforeDown

\* Every path of _run_command comes to its outcome: whatever broker, network and
\* agent do, no handler waits for ever and keeps the updates behind it waiting. The
\* outcome is a visible one unless the reply fails or the hub process stops, which
\* leaves the user with silence: "every path here ends in a visible outcome" is more than the code
\* does, for it replies once and unprotected.
EveryCommandAnswered == \A c \in Commands : current = c ~> told[c] # "none"

\* A thread comes to its end while its PC stays up, whatever the broker and the
\* network do, and Agent._lock is free again for the threads behind it: neither the
\* wait for the PUBACK of the yes, nor a call that blocked across a suspend, keeps
\* the one that holds it, and no exception leaves it taken by a thread that is gone.
CommandFinishes ==
    \A c \in Commands :
        /\ thread[c] \notin {"none"} \cup Ended ~> thread[c] \in Ended \/ machine # "up"
        /\ lock = c ~> lock # c \/ machine # "up"

\* The outcome a command came to is never replaced by another one.
ToldOnce == [][\A c \in Commands : told[c] # "none" => told'[c] = told[c]]_vars

(***************************************************************************)
(* What the code's comments say and the code does not do.                  *)
(***************************************************************************)
\* bot.py: _run_command is to "report what actually happened"; an MqttError is
\* reported as "command not sent". But publish_command also raises when only
\* the PUBACK is missing, and then the PC can perform the command.
NotSentMeansNotPerformed == \A c \in Commands : told[c] = "not_sent" => performed[c] = 0

\* client.py: "LOCK leaves the machine up, so we perform it and then ack the real
\* outcome. The ack is accurate." But run_command gives up on a helper after
\* COMMAND_TIMEOUT, when the helper may have done its work: the ack then says that the
\* action failed which was performed. (What the hub makes of it is another question:
\* COMMAND_TIMEOUT is longer than ACK_TIMEOUT, so it has mostly stopped listening.)
RefusalIsAccurate ==
    \A c \in Commands :
        Ack(c, FALSE) \in published /\ ~TakesHostDown(ActionOf[c]) => performed[c] = 0

\* client.py: when the ack cannot be confirmed the agent is "performing anyway".
\* But without a connection is_published raises and the thread ends there, while
\* paho keeps the yes and delivers it: acknowledged, and never performed.
YesIsKept ==
    \A c \in Commands :
        /\ Ack(c, TRUE) \in published
        /\ thread[c] \in {"done", "raised"}
        => performed[c] > 0 \/ Ack(c, FALSE) \in published

\* bot.py registers the waiter before it publishes because an answer that finds
\* nobody "is dropped, and the user would be told a command timed out that the PC
\* actually performed". But `_connected` is set before the acknowledgements are
\* subscribed to: the broker takes the answer to a command that was published on
\* this very session, and has nobody to give it to.
NoAnswerDiscarded ==
    [][ /\ handler = "publishing"
        /\ outbox # <<>> /\ outbox' = Tail(outbox) /\ link' = "up"
        /\ Head(outbox).id = current
        => downlink' # downlink ]_vars

(***************************************************************************)
(* CommandPath implements CommandPromise.                                  *)
(***************************************************************************)
Promised == INSTANCE CommandPromise WITH
    asked <- {c \in Commands : c = current \/ told[c] \notin {"none", "unavailable"}},
    said <- published

\* Every step of the hub, the broker and the agent is a step of the promise or
\* invisible in it: the whole path keeps what a user is promised, through lost
\* connections, duplicates, restarts and crashes.
KeepsPromise == Promised!Promise

\* The same with the promise's fairness: every command that was asked for comes to
\* its outcome, which the user is shown if the reply gets through.
KeepsFairPromise == Promised!FairPromise
=============================================================================
