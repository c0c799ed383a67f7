--------------------------- MODULE AgentExecutor ---------------------------
(***************************************************************************)
(* The agent's side of a power command: the thread that Agent._on_message  *)
(* starts for each command, the lock that serialises those threads, the    *)
(* two orders of performing and acknowledging, and the machine under them. *)
(*                                                                         *)
(* The module stands alone with a broker that may deliver any command that *)
(* was not delivered before, and take the acknowledgements at any time.    *)
(***************************************************************************)
EXTENDS CommandSet, PowerBackends, Naturals, Sequences

CONSTANT Platform  \* the platform the agent was started on

ASSUME PlatformAssumption == Platform \in Platforms

VARIABLES
    machine,   \* the PC and the agent process on it
    link,      \* whether paho holds a connection to the broker
    thread,    \* where the thread of each command stands
    lock,      \* the command whose thread holds Agent._lock
    outbox,    \* QoS 1 acknowledgements paho has not seen a PUBACK for
    published, \* every acknowledgement that was ever handed to paho
    performed  \* how often the operating system accepted each command's action

agentVars == <<machine, link, thread, lock, outbox, published, performed>>

\* "suspending" and "stopping": the operating system has accepted a sleep, a
\* shutdown or a restart and has not got there yet. "down": no agent process.
Machine == {"up", "suspending", "stopping", "asleep", "down"}
Running == machine \in {"up", "suspending", "stopping"}

\* "raised" and "broken": an exception that nothing catches, out of _publish_ack
\* and out of perform, ended the thread.
\* "suspended": inside SetSuspendState, which returns when the PC resumes.
Thread == {"none", "queued", "performing", "preflighting", "flushing", "reporting",
           "suspended", "done", "raised", "broken", "killed"}
Ended == {"done", "raised", "broken", "killed"}
\* The states in which a thread is inside `with self._lock`.
Critical == {"performing", "preflighting", "flushing", "reporting", "suspended"}

AgentTypeOK ==
    /\ machine \in Machine
    /\ link \in {"up", "down"}
    /\ thread \in [Commands -> Thread]
    /\ lock \in Commands \cup {NoCommand}
    /\ outbox \in Seq(Acks)
    /\ published \subseteq Acks
    /\ performed \in [Commands -> Nat]

AgentInit ==
    /\ machine = "up"
    /\ link = "down"
    /\ thread = [c \in Commands |-> "none"]
    /\ lock = NoCommand
    /\ outbox = <<>>
    /\ published = {}
    /\ performed = [c \in Commands |-> 0]

(***************************************************************************)
(* The network thread.                                                     *)
(***************************************************************************)
\* _on_connect.
AgentConnects ==
    /\ Running
    /\ link = "down"
    /\ link' = "up"
    /\ UNCHANGED <<machine, thread, lock, outbox, published, performed>>

\* The connection is gone; paho keeps its unconfirmed messages and reconnects.
AgentDisconnects ==
    /\ link = "up"
    /\ link' = "down"
    /\ UNCHANGED <<machine, thread, lock, outbox, published, performed>>

\* _on_message: a thread of its own for every delivery; nothing remembers the
\* ids that were executed before. (Two threads for one id at the same time are
\* not represented; CommandPath shows that no id is delivered twice.)
OnMessage(c) ==
    /\ Running
    /\ link = "up"
    /\ thread[c] \in {"none"} \cup Ended
    /\ thread' = [thread EXCEPT ![c] = "queued"]
    /\ UNCHANGED <<machine, link, lock, outbox, published, performed>>

\* The PUBACK for the oldest acknowledgement comes back.
AckConfirmed ==
    /\ Running
    /\ link = "up"
    /\ outbox # <<>>
    /\ outbox' = Tail(outbox)
    /\ UNCHANGED <<machine, link, thread, lock, published, performed>>

(***************************************************************************)
(* The command threads.                                                    *)
(***************************************************************************)
\* Mutant of AcquireLock: no lock.
EnterUnlocked(c) ==
    /\ Running
    /\ thread[c] = "queued"
    /\ lock' = c
    /\ thread' = [thread EXCEPT
            ![c] = IF TakesHostDown(ActionOf[c]) THEN "preflighting" ELSE "performing"]
    /\ UNCHANGED <<machine, link, outbox, published, performed>>

\* _execute takes the lock and branches on takes_host_down.
AcquireLock(c) ==
    /\ Running
    /\ thread[c] = "queued"
    /\ lock = NoCommand
    /\ lock' = c
    /\ thread' = [thread EXCEPT
            ![c] = IF TakesHostDown(ActionOf[c]) THEN "preflighting" ELSE "performing"]
    /\ UNCHANGED <<machine, link, outbox, published, performed>>

\* Mutant of PublishAck: the bare id is published, not an acknowledgement.
PublishBareId(c, ok, next) ==
    /\ published' = published \cup {Ack(c, ok)}
    /\ outbox' = Append(outbox, c)
    /\ thread' = [thread EXCEPT ![c] = IF link = "up" THEN next ELSE "raised"]
    /\ lock' = IF link = "up" THEN lock ELSE NoCommand

\* _publish_ack: paho keeps the message in either case. Without a connection
\* wait_for_publish raises, which is caught, and then is_published raises too,
\* which is not: the exception ends the thread and releases the lock.
PublishAck(c, ok, next) ==
    /\ published' = published \cup {Ack(c, ok)}
    /\ outbox' = Append(outbox, Ack(c, ok))
    /\ thread' = [thread EXCEPT ![c] = IF link = "up" THEN next ELSE "raised"]
    /\ lock' = IF link = "up" THEN lock ELSE NoCommand

\* What perform does to the PC, if the operating system has taken the action.
TakeEffect(c, took) ==
    /\ performed' = [performed EXCEPT ![c] = IF took THEN @ + 1 ELSE @]
    /\ machine' = IF ~took \/ ~TakesHostDown(ActionOf[c]) THEN machine
                  ELSE IF ActionOf[c] = "sleep" /\ machine # "stopping"
                  THEN "suspending" ELSE "stopping"

\* _perform_then_ack: the lock action, then what perform has reported. The two calls
\* are one step: the lock is held between them, and a process that dies there leaves
\* what PerformRaises leaves, the action taken and nothing said.
PerformThenAck(c, o) ==
    /\ Running
    /\ thread[c] = "performing"
    /\ o.ended # "raised"
    /\ TakeEffect(c, o.took)
    /\ PublishAck(c, o.ended = "returned", "reporting")
    /\ UNCHANGED link

\* Mutant of Preflight: no `return` after the refusal.
PreflightGoesOn(c, ok) ==
    /\ Running
    /\ thread[c] = "preflighting"
    /\ PublishAck(c, ok, "flushing")
    /\ UNCHANGED <<machine, link, performed>>

\* Mutant of Preflight: perform without the acknowledgement.
PreflightUnacked(c, ok) ==
    /\ Running
    /\ thread[c] = "preflighting"
    /\ thread' = [thread EXCEPT ![c] = IF ok THEN "flushing" ELSE "reporting"]
    /\ UNCHANGED <<machine, link, lock, outbox, published, performed>>

\* _ack_then_perform: preflight refuses, or the ack goes out first.
Preflight(c, ok) ==
    /\ Running
    /\ thread[c] = "preflighting"
    /\ PublishAck(c, ok, IF ok THEN "flushing" ELSE "reporting")
    /\ UNCHANGED <<machine, link, performed>>

\* The flush has ended (confirmed or after ACK_FLUSH_TIMEOUT), action_delay has
\* passed, and the backend performs. A sleep may block until the PC resumes.
PerformAfterAck(c, o) ==
    /\ Running
    /\ thread[c] = "flushing"
    /\ o.ended = "returned"
    /\ TakeEffect(c, o.took)
    /\ \/ /\ thread' = [thread EXCEPT ![c] = "done"]
          /\ lock' = NoCommand
       \/ /\ ActionOf[c] = "sleep"
          /\ thread' = [thread EXCEPT ![c] = "suspended"]
          /\ UNCHANGED lock
    /\ UNCHANGED <<link, outbox, published>>

\* Mutant of PerformFailsAfterAck: the failure is only logged.
PerformFailsSilently(c, o) ==
    /\ Running
    /\ thread[c] = "flushing"
    /\ o.ended = "failed"
    /\ TakeEffect(c, o.took)
    /\ thread' = [thread EXCEPT ![c] = "reporting"]
    /\ UNCHANGED <<link, lock, outbox, published>>

\* perform raises PowerActionError after the yes: publish the correction.
PerformFailsAfterAck(c, o) ==
    /\ Running
    /\ thread[c] = "flushing"
    /\ o.ended = "failed"
    /\ TakeEffect(c, o.took)
    /\ PublishAck(c, FALSE, "reporting")
    /\ UNCHANGED link

\* Mutant of PerformRaises: acquire and release without `with`, so that an exception
\* leaves the lock taken.
PerformRaisesLocked(c, o) ==
    /\ Running
    /\ thread[c] \in {"performing", "flushing"}
    /\ o.ended = "raised"
    /\ TakeEffect(c, o.took)
    /\ thread' = [thread EXCEPT ![c] = "broken"]
    /\ UNCHANGED <<link, lock, outbox, published>>

\* perform raises anything else: it leaves `with self._lock` and ends the thread,
\* and nothing is published.
PerformRaises(c, o) ==
    /\ Running
    /\ thread[c] \in {"performing", "flushing"}
    /\ o.ended = "raised"
    /\ TakeEffect(c, o.took)
    /\ thread' = [thread EXCEPT ![c] = "broken"]
    /\ lock' = NoCommand
    /\ UNCHANGED <<link, outbox, published>>

\* The thread leaves the lock: _publish_ack has stopped waiting for the last
\* acknowledgement, or SetSuspendState has returned after the resume.
ThreadEnds(c) ==
    /\ Running
    /\ \/ thread[c] = "reporting"
       \/ thread[c] = "suspended" /\ machine = "up"
    /\ thread' = [thread EXCEPT ![c] = "done"]
    /\ lock' = NoCommand
    /\ UNCHANGED <<machine, link, outbox, published, performed>>

(***************************************************************************)
(* The machine.                                                            *)
(***************************************************************************)
\* The agent process is gone, and with it its threads and paho's memory.
AgentGone ==
    /\ machine' = "down"
    /\ link' = "down"
    /\ thread' = [c \in Commands |->
            IF thread[c] \in {"none"} \cup Ended THEN thread[c] ELSE "killed"]
    /\ lock' = NoCommand
    /\ outbox' = <<>>
    /\ UNCHANGED <<published, performed>>

\* Everything stops where it is and goes on at the resume.
FallsAsleep ==
    /\ machine = "suspending"
    /\ machine' = "asleep"
    /\ UNCHANGED <<link, thread, lock, outbox, published, performed>>

Resumes ==
    /\ machine = "asleep"
    /\ machine' = "up"
    /\ UNCHANGED <<link, thread, lock, outbox, published, performed>>

\* An application refuses to close, or an inhibitor stops the suspend.
PowerChangeVetoed ==
    /\ machine \in {"suspending", "stopping"}
    /\ machine' = "up"
    /\ UNCHANGED <<link, thread, lock, outbox, published, performed>>

\* The accepted shutdown or restart, a crash of the agent, or a power cut.
GoesDown ==
    /\ machine # "down"
    /\ AgentGone

Boots ==
    /\ machine = "down"
    /\ machine' = "up"
    /\ UNCHANGED <<link, thread, lock, outbox, published, performed>>

MachineStep == FallsAsleep \/ Resumes \/ PowerChangeVetoed \/ Boots

ThreadStep(c) ==
    \/ AcquireLock(c)
    \/ \E ok \in PreflightOutcomes(Platform, ActionOf[c]) : Preflight(c, ok)
    \/ \E o \in PerformOutcomes(Platform, ActionOf[c]) :
          \/ PerformThenAck(c, o) \/ PerformAfterAck(c, o)
          \/ PerformFailsAfterAck(c, o) \/ PerformRaises(c, o)
    \/ ThreadEnds(c)

AgentNext ==
    \/ AgentConnects \/ AgentDisconnects \/ AckConfirmed
    \/ \E c \in Commands : OnMessage(c) \/ ThreadStep(c)
    \/ MachineStep \/ GoesDown

AgentSpec == AgentInit /\ [][AgentNext]_agentVars

(***************************************************************************)
(* Properties.                                                             *)
(***************************************************************************)
\* Two power actions never run at the same time: the thread that is inside
\* `with self._lock` is the one that holds the lock, whatever crashes,
\* disconnections and exceptions the other threads met.
OneActionAtATime == \A c \in Commands : thread[c] \in Critical <=> lock = c
=============================================================================
