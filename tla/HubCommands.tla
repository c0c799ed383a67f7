---------------------------- MODULE HubCommands ----------------------------
(***************************************************************************)
(* The hub's side of a power command: PcWakeBot._run_command, the          *)
(* PendingAcks table it registers its waiter in, and the broker session of *)
(* HubMqtt that publishes the command and pumps the acknowledgements.      *)
(*                                                                         *)
(* python-telegram-bot handles one update at a time, so there is at most   *)
(* one command handler; it shares the event loop with the message pump,    *)
(* and every await is a point where the pump or the session may step.      *)
(*                                                                         *)
(* The module stands alone with a broker that may do anything: confirm a   *)
(* publication or not, and deliver any acknowledgement at any time.        *)
(* CommandPath restricts it to what the broker and the agent really do.    *)
(***************************************************************************)
EXTENDS CommandSet

VARIABLES
    presence,  \* HostStatus.presence, as the status topic last reported it
    session,   \* how far HubMqtt._session has come on the current connection
    handler,   \* where the command handler stands
    current,   \* the command the handler is about
    pending,   \* PendingAcks._futures: the ids that have a waiter
    answer,    \* the result set on the future of each command
    told       \* the outcome each command came to, as the user was shown it

hubVars == <<presence, session, handler, current, pending, answer, told>>

\* "down", then the steps of _session that matter here: connected (`_connected`
\* is set already) but not yet subscribed to the acknowledgements, subscribed to
\* them, and subscribed to everything with the pump running.
Session == {"down", "connected", "ack", "pumping"}
AckSubscribed == session \in {"ack", "pumping"}

\* "publishing": awaiting the broker's PUBACK on the live session.
\* "stranded": awaiting it on a client whose session has ended since.
\* "awaiting": in wait_for(future, ACK_TIMEOUT).
Handler == {"idle", "publishing", "stranded", "awaiting"}

\* "silent": nothing was shown, for the reply with the outcome was refused or did not
\* get through, or the hub stopped while the handler ran.
Outcome == {"none", "unavailable", "not_sent", "timeout", "acked", "refused", "silent"}
Answer == {"none", "ok", "refused"}

HubTypeOK ==
    /\ presence \in Presence \cup {"unknown"}
    /\ session \in Session
    /\ handler \in Handler
    /\ current \in Commands \cup {NoCommand}
    /\ pending \subseteq Commands
    /\ answer \in [Commands -> Answer]
    /\ told \in [Commands -> Outcome]

HubInit ==
    /\ presence = "unknown"
    /\ session = "down"
    /\ handler = "idle"
    /\ current = NoCommand
    /\ pending = {}
    /\ answer = [c \in Commands |-> "none"]
    /\ told = [c \in Commands |-> "none"]

(***************************************************************************)
(* The command handler.                                                    *)
(***************************************************************************)
\* A command id that new_command_id has not handed out yet.
Fresh(c) == handler = "idle" /\ told[c] = "none"

\* The respond() that ends the handler: the user sees the outcome, or the reply
\* raises TelegramError, which on_error only logs. The waiter and the future of c
\* are gone in either case.
Tell(c, outcome) ==
    /\ \E shown \in {outcome, "silent"} : told' = [told EXCEPT ![c] = shown]
    /\ handler' = "idle"
    /\ current' = NoCommand
    /\ pending' = pending \ {c}
    /\ answer' = [answer EXCEPT ![c] = "none"]

\* The gate: only an ONLINE host accepts commands, and resolve() answers
\* ONLINE exactly when the presence is online.
RefuseUnavailable(c) ==
    /\ Fresh(c)
    /\ presence # "online"
    /\ Tell(c, "unavailable")
    /\ UNCHANGED <<presence, session>>

\* Past the gate without a session: the waiter is registered, publish_command
\* raises at once, and the waiter is discarded again.
IssueWithoutSession(c) ==
    /\ Fresh(c)
    /\ presence = "online"
    /\ session = "down"
    /\ Tell(c, "not_sent")
    /\ UNCHANGED <<presence, session>>

\* Mutant of Issue: publish without registering the waiter first.
IssueUnregistered(c) ==
    /\ Fresh(c)
    /\ presence = "online"
    /\ session # "down"
    /\ handler' = "publishing"
    /\ current' = c
    /\ UNCHANGED <<presence, session, pending, answer, told>>

\* Past the gate: register the waiter, then start publishing. (register raises for an
\* id that has a waiter already, which a Fresh one cannot have.)
Issue(c) ==
    /\ Fresh(c)
    /\ presence = "online"
    /\ session # "down"
    /\ handler' = "publishing"
    /\ current' = c
    /\ pending' = pending \cup {c}
    /\ UNCHANGED <<presence, session, answer, told>>

\* The PUBACK reaches the client that published: publish_command returns.
PublishConfirmed(c) ==
    /\ handler = "publishing"
    /\ current = c
    /\ handler' = "awaiting"
    /\ UNCHANGED <<presence, session, current, pending, answer, told>>

\* Mutant of PublishFails: no `return` after "command not sent".
PublishFailsGoesOn(c) ==
    /\ handler \in {"publishing", "stranded"}
    /\ current = c
    /\ handler' = "awaiting"
    /\ told' = [told EXCEPT ![c] = "not_sent"]
    /\ UNCHANGED <<presence, session, current, pending, answer>>

\* Mutant of PublishFails: the publication has no timeout of its own.
PublishFailsWhileLive(c) ==
    /\ handler = "publishing"
    /\ current = c
    /\ Tell(c, "not_sent")
    /\ UNCHANGED <<presence, session>>

\* aiomqtt gives up waiting for the PUBACK (its own timeout, or a client whose
\* session is gone): MqttError, discard, "command not sent".
PublishFails(c) ==
    /\ handler \in {"publishing", "stranded"}
    /\ current = c
    /\ Tell(c, "not_sent")
    /\ UNCHANGED <<presence, session>>

\* wait_for returns the acknowledgement.
AnswerArrives(c) ==
    /\ handler = "awaiting"
    /\ current = c
    /\ answer[c] # "none"
    /\ Tell(c, IF answer[c] = "ok" THEN "acked" ELSE "refused")
    /\ UNCHANGED <<presence, session>>

\* Mutant of AnswerTimesOut: wait for the future without a timeout.
AnswerAwaitedForever(c) == FALSE

\* ACK_TIMEOUT passes. The future may have its result already: a timeout that
\* fires before the handler's task has resumed still cancels it. When it fires is
\* not related to the timeouts of the agent: an answer may be late or in time,
\* whatever the agent was waiting for.
AnswerTimesOut(c) ==
    /\ handler = "awaiting"
    /\ current = c
    /\ Tell(c, "timeout")
    /\ UNCHANGED <<presence, session>>

(***************************************************************************)
(* The broker session and its pump.                                        *)
(***************************************************************************)
\* `async with client` succeeds and `_connected` is set.
SessionConnects ==
    /\ session = "down"
    /\ session' = "connected"
    /\ UNCHANGED <<presence, handler, current, pending, answer, told>>

\* The subscriptions are granted one by one, status, ack and info in that order,
\* and the pump starts after the last.
Subscribes ==
    /\ session \in {"connected", "ack"}
    /\ session' = IF session = "connected" THEN "ack" ELSE "pumping"
    /\ UNCHANGED <<presence, handler, current, pending, answer, told>>

\* The session ends with an MqttError. A publication under way is left waiting
\* for a PUBACK that its client cannot receive any more.
SessionEnds ==
    /\ session # "down"
    /\ session' = "down"
    /\ handler' = IF handler = "publishing" THEN "stranded" ELSE handler
    /\ UNCHANGED <<presence, current, pending, answer, told>>

\* _handle of a status message.
HandleStatus(p) ==
    /\ session = "pumping"
    /\ presence' = p
    /\ UNCHANGED <<session, handler, current, pending, answer, told>>

\* Mutant of HandleAck: the answer goes to whoever waits, whatever its id.
HandleAckOfAnyId(ack) ==
    /\ session = "pumping"
    /\ pending' = {}
    /\ answer' = [c \in Commands |->
            IF c \in pending THEN (IF ack.ok THEN "ok" ELSE "refused") ELSE answer[c]]
    /\ UNCHANGED <<presence, session, handler, current, told>>

\* _handle of an acknowledgement: PendingAcks.resolve pops the waiter and
\* sets its result; without a waiter the acknowledgement is dropped.
HandleAck(ack) ==
    /\ session = "pumping"
    /\ pending' = pending \ {ack.id}
    /\ answer' = IF ack.id \in pending
                 THEN [answer EXCEPT ![ack.id] = IF ack.ok THEN "ok" ELSE "refused"]
                 ELSE answer
    /\ UNCHANGED <<presence, session, handler, current, told>>

\* The hub process stops, in a crash or through _stop_background, and systemd
\* starts it again: everything it knew was in memory.
HubRestarts ==
    /\ presence' = "unknown"
    /\ session' = "down"
    /\ handler' = "idle"
    /\ current' = NoCommand
    /\ pending' = {}
    /\ told' = IF current \in Commands THEN [told EXCEPT ![current] = "silent"] ELSE told
    /\ answer' = [c \in Commands |-> "none"]

HubNext ==
    \/ \E c \in Commands :
          \/ RefuseUnavailable(c) \/ IssueWithoutSession(c) \/ Issue(c)
          \/ PublishConfirmed(c) \/ PublishFails(c)
          \/ AnswerArrives(c) \/ AnswerTimesOut(c)
    \/ SessionConnects \/ Subscribes \/ SessionEnds
    \/ \E p \in Presence : HandleStatus(p)
    \/ \E ack \in Acks : HandleAck(ack)
    \/ HubRestarts

HubSpec == HubInit /\ [][HubNext]_hubVars

(***************************************************************************)
(* Properties.                                                             *)
(***************************************************************************)
\* No handler ever waits on a future that nobody can resolve: the command it is
\* about has its waiter in PendingAcks or its answer already, and no waiter
\* outlives its handler (PendingAcks.register, resolve and discard against
\* every way out of _run_command).
WaiterFollowsHandler ==
    /\ pending \subseteq {current}
    /\ handler = "idle" <=> current = NoCommand
    /\ handler # "idle" => current \in pending \/ answer[current] # "none"
=============================================================================
