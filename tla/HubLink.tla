------------------------------ MODULE HubLink ------------------------------
(***************************************************************************)
(* HubMqtt.run of hub/mqtt.py with its reconnect delay, and what the hub   *)
(* believes about one agent's presence through lost and new sessions. What *)
(* the retained topic says is given here; Presence says where it comes     *)
(* from. As in Probe, time passes in LinkTimePasses only.                  *)
(***************************************************************************)
EXTENDS HostStatus

CONSTANTS ReconnectMin,   \* RECONNECT_MIN
          ReconnectMax,   \* RECONNECT_MAX
          Keepalive,      \* the longest a dead connection goes unnoticed
          ConnectTimeout  \* the longest an attempt to connect and subscribe takes

ASSUME LinkTimesAssumption ==
    /\ ReconnectMin \in Nat \ {0}
    /\ ReconnectMax \in Nat
    /\ ReconnectMin <= ReconnectMax
    /\ Keepalive \in Nat
    /\ ConnectTimeout \in Nat

VARIABLES
    broker,   \* whether the broker runs
    topic,    \* the status topic's retained message
    presence, \* HostStatus.presence
    link,     \* what run() is at
    linkLeft, \* the time left of it
    delay     \* how long run() will sleep after the next failure

linkVars == <<broker, topic, presence, link, linkLeft, delay>>

Heard == Presence \cup {Unheard}

\* "asleep": between two attempts. "connecting": an attempt that the broker
\* answers; "hanging": one that it does not. "live": subscribed. "dead": the
\* connection is lost and the hub has not noticed.
Link == {"asleep", "connecting", "hanging", "live", "dead"}

\* The longer of two times.
Longer(a, b) == IF a >= b THEN a ELSE b

\* The longest that presence may differ from the topic once broker and network
\* stay up: the old session or attempt is given up, and then one sleep.
LinkLag == Longer(Keepalive, ConnectTimeout) + ReconnectMax

\* The type of every variable.
LinkTypeOK ==
    /\ broker \in {"up", "down"}
    /\ topic \in Heard
    /\ presence \in Heard
    /\ link \in Link
    /\ linkLeft \in 0..LinkLag
    /\ delay \in ReconnectMin..ReconnectMax
    /\ link = "asleep" => linkLeft <= ReconnectMax
    /\ link \in {"connecting", "hanging", "dead"} => linkLeft <= Longer(Keepalive, ConnectTimeout)
    /\ link \in {"connecting", "live"} => broker = "up"

LinkInit ==
    /\ broker \in {"up", "down"}
    /\ topic \in Heard
    /\ presence = Unheard
    /\ link = "asleep"
    /\ linkLeft = 0
    /\ delay = ReconnectMin

\* --------------------------------------------------------- the hub's session

\* run() calls _session: the client connects and subscribes.
TryConnect ==
    /\ link = "asleep"
    /\ linkLeft = 0
    /\ link' = IF broker = "up" THEN "connecting" ELSE "hanging"
    /\ linkLeft' = ConnectTimeout
    /\ UNCHANGED <<broker, topic, presence, delay>>

\* Connected and subscribed. An attempt that hung may still get through.
Connects ==
    /\ link \in {"connecting", "hanging"}
    /\ broker = "up"
    /\ link' = "live"
    /\ linkLeft' = 0
    /\ UNCHANGED <<broker, topic, presence, delay>>

\* Mutant of SessionFails: the delay is doubled first and limited too late.
SessionFailsUncapped ==
    /\ link \in {"hanging", "dead"}
    /\ link' = "asleep"
    /\ linkLeft' = 2 * delay
    /\ delay' = IF 2 * delay <= ReconnectMax THEN 2 * delay ELSE ReconnectMax
    /\ UNCHANGED <<broker, topic, presence>>

\* An MqttError ends the attempt or the session: run() sleeps and doubles the
\* delay up to its limit. Nothing ever takes it back to RECONNECT_MIN, because
\* _session does not return normally. presence keeps its last value.
SessionFails ==
    /\ link \in {"hanging", "dead"}
    /\ link' = "asleep"
    /\ linkLeft' = delay
    /\ delay' = IF 2 * delay <= ReconnectMax THEN 2 * delay ELSE ReconnectMax
    /\ UNCHANGED <<broker, topic, presence>>

\* The pump handles a status message: the retained one after subscribing, or a
\* change of it.
HandleStatus ==
    /\ link = "live"
    /\ topic \in Presence
    /\ presence # topic
    /\ presence' = topic
    /\ UNCHANGED <<broker, topic, link, linkLeft, delay>>

\* ------------------------------------------- broker, network, agent, restarts

\* What a lost connection leaves of the session.
Cut ==
    /\ link' = CASE link = "live" -> "dead"
                 [] link = "connecting" -> "hanging"
                 [] OTHER -> link
    /\ linkLeft' = IF link = "live" THEN Keepalive ELSE linkLeft

BrokerStops ==
    /\ broker = "up"
    /\ broker' = "down"
    /\ Cut
    /\ UNCHANGED <<topic, presence, delay>>

\* The broker is back, with the retained message, an older one or none; the agent
\* is connected again or not.
BrokerStarts ==
    /\ broker = "down"
    /\ broker' = "up"
    /\ topic' \in Heard
    /\ UNCHANGED <<presence, link, linkLeft, delay>>

NetworkDrops ==
    /\ link \in {"live", "connecting"}
    /\ Cut
    /\ UNCHANGED <<broker, topic, presence, delay>>

TopicChanges ==
    /\ broker = "up"
    /\ topic' \in Presence \ {topic}
    /\ UNCHANGED <<broker, presence, link, linkLeft, delay>>

\* The hub stops and starts.
LinkRestarts ==
    /\ presence' = Unheard
    /\ link' = "asleep"
    /\ linkLeft' = 0
    /\ delay' = ReconnectMin
    /\ UNCHANGED <<broker, topic>>

\* Steps that do not wait for time: a timer that has run out, an attempt that the
\* broker answers, and a message that is there.
LinkIsDue ==
    \/ link \in {"asleep", "hanging", "dead"} /\ linkLeft = 0
    \/ link = "connecting"
    \/ link = "live" /\ topic \in Presence /\ presence # topic

LinkTimePasses == linkLeft' = IF linkLeft > 0 THEN linkLeft - 1 ELSE 0
=============================================================================
