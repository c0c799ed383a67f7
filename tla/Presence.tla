------------------------------ MODULE Presence ------------------------------
(***************************************************************************)
(* How the hub knows that a host is there: the agent's MQTT connection     *)
(* with its last will, the retained status topic on the broker, and the    *)
(* hub's session that is told of it.                                       *)
(*                                                                         *)
(* Agents is the set of agents configured with this one host name. One is  *)
(* the intended number; with two they share the client id, and the broker  *)
(* takes the connection away from one when the other connects (what        *)
(* Agent._note_connection warns about).                                    *)
(*                                                                         *)
(* A QoS 1 status that paho sends again after a reconnection is "online"   *)
(* again, as on_connect has just published it: the second copy is left out.*)
(***************************************************************************)
EXTENDS Protocol, Naturals, Sequences

CONSTANTS Agents,   \* the agents that share the host name
          Nobody,   \* no connection under the client id
          MaxFeed   \* a bound on the status messages queued for the hub

ASSUME NobodyAssumption == Nobody \notin Agents
ASSUME MaxFeedAssumption == MaxFeed \in Nat \ {0}

VARIABLES
    client,    \* each agent's process and its paho client
    machine,   \* the PC each agent is on
    holder,    \* whose connection the broker has under the client id
    live,      \* whether that connection still has its client at the other end
    wire,      \* the packets on it that the broker has not read
    retained,  \* the status topic's retained message
    saved,     \* the retained message in the broker's persistence file
    forgotten, \* the broker crashed, and no agent has connected since
    session,   \* the hub's session: down, or up and subscribed
    feed,      \* the status messages on the hub's session
    presence   \* HostStatus.presence

agentVars == <<client, machine>>
brokerVars == <<holder, live, wire, retained, saved, forgotten>>
hubVars == <<session, feed, presence>>
vars == <<agentVars, brokerVars, hubVars>>

\* "idle": between two connection attempts. "connecting": no CONNACK seen yet.
Client == {"stopped", "idle", "connecting", "connected"}
Unset == "unset"
Status == Presence \cup {Unset}

\* What an agent ever has on the wire: its online, its parting offline, and the
\* DISCONNECT ("bye") that tells the broker to keep the last will to itself.
Wires == {<<>>, <<"online">>, <<"online", "offline", "bye">>, <<"offline", "bye">>, <<"bye">>}

\* The type of every variable.
TypeOK ==
    /\ client \in [Agents -> Client]
    /\ machine \in [Agents -> {"on", "asleep"}]
    /\ holder \in Agents \cup {Nobody}
    /\ live \in BOOLEAN
    /\ wire \in Wires
    /\ retained \in Status
    /\ saved \in Status
    /\ forgotten \in BOOLEAN
    /\ session \in {"down", "up"}
    /\ feed \in Seq(Presence)
    /\ presence \in Status

Init ==
    /\ client = [a \in Agents |-> "stopped"]
    /\ machine = [a \in Agents |-> "on"]
    /\ holder = Nobody
    /\ live = FALSE
    /\ wire = <<>>
    /\ retained = Unset
    /\ saved = Unset
    /\ forgotten = FALSE
    /\ session = "down"
    /\ feed = <<>>
    /\ presence = Unset

\* The connection of a is up at both ends.
Serving(a) == holder = a /\ live

(***************************************************************************)
(* The broker.                                                             *)
(***************************************************************************)
\* The status topic gets a retained message, which goes out to a subscribed hub.
Publish(p) ==
    /\ Len(feed) < MaxFeed
    /\ retained' = p
    /\ feed' = IF session = "up" THEN Append(feed, p) ELSE feed

\* Mutant of PublishWill: a client without a last will.
CloseWithoutWill ==
    /\ holder' = Nobody
    /\ live' = FALSE
    /\ wire' = <<>>
    /\ UNCHANGED <<retained, feed>>

\* The broker gives the connection up without a DISCONNECT: it publishes the will.
PublishWill ==
    /\ Publish("offline")
    /\ holder' = Nobody
    /\ live' = FALSE
    /\ wire' = <<>>

\* A CONNECT is accepted. A connection that is still held under the client id is
\* closed first, with its will.
BrokerAccepts(a) ==
    /\ client[a] = "idle" /\ machine[a] = "on"
    /\ client' = [client EXCEPT ![a] = "connecting"]
    /\ IF holder = Nobody THEN UNCHANGED <<retained, feed>> ELSE Publish("offline")
    /\ holder' = a
    /\ live' = TRUE
    /\ wire' = <<>>
    /\ forgotten' = FALSE
    /\ UNCHANGED <<machine, saved, session, presence>>

BrokerReadsStatus ==
    /\ holder # Nobody
    /\ wire # <<>> /\ Head(wire) # "bye"
    /\ Publish(Head(wire))
    /\ wire' = Tail(wire)
    /\ UNCHANGED <<agentVars, holder, live, saved, forgotten, session, presence>>

\* DISCONNECT: the connection ends and the will is discarded.
BrokerReadsBye ==
    /\ holder # Nobody
    /\ wire = <<"bye">>
    /\ holder' = Nobody
    /\ live' = FALSE
    /\ wire' = <<>>
    /\ UNCHANGED <<agentVars, retained, saved, forgotten, hubVars>>

\* The connection has no client any more, and the broker finds out.
BrokerNotices ==
    /\ holder # Nobody /\ ~live
    /\ PublishWill
    /\ UNCHANGED <<agentVars, saved, forgotten, session, presence>>

\* Nothing came in for 1.5 times the keepalive, though the client is there: it
\* sleeps, or the network swallows its packets.
KeepaliveExpires ==
    /\ holder # Nobody /\ live
    /\ PublishWill
    /\ UNCHANGED <<agentVars, saved, forgotten, session, presence>>

\* The autosave of the persistence file.
BrokerSaves ==
    /\ saved' = retained
    /\ UNCHANGED <<agentVars, holder, live, wire, retained, forgotten, hubVars>>

\* The broker dies and comes back with what it had saved. Its connections are
\* gone, and their wills with them.
BrokerCrashes ==
    /\ retained' = saved
    /\ holder' = Nobody
    /\ live' = FALSE
    /\ wire' = <<>>
    /\ forgotten' = TRUE
    /\ session' = "down"
    /\ feed' = <<>>
    /\ UNCHANGED <<agentVars, saved, presence>>

(***************************************************************************)
(* The agent.                                                              *)
(***************************************************************************)
AgentStarts(a) ==
    /\ client[a] = "stopped" /\ machine[a] = "on"
    /\ client' = [client EXCEPT ![a] = "idle"]
    /\ UNCHANGED <<machine, brokerVars, hubVars>>

\* Mutant of OnConnect: the status is left as it was.
OnConnectSilent(a) ==
    /\ client[a] = "connecting" /\ machine[a] = "on"
    /\ Serving(a)
    /\ client' = [client EXCEPT ![a] = "connected"]
    /\ UNCHANGED <<machine, brokerVars, hubVars>>

\* _on_connect: the CONNACK is in, and "online" is published.
OnConnect(a) ==
    /\ client[a] = "connecting" /\ machine[a] = "on"
    /\ Serving(a)
    /\ client' = [client EXCEPT ![a] = "connected"]
    /\ wire' = Append(wire, "online")
    /\ UNCHANGED <<machine, holder, live, retained, saved, forgotten, hubVars>>

\* _on_disconnect: the agent finds its connection gone.
OnDisconnect(a) ==
    /\ client[a] \in {"connecting", "connected"} /\ machine[a] = "on"
    /\ ~Serving(a)
    /\ client' = [client EXCEPT ![a] = "idle"]
    /\ UNCHANGED <<machine, brokerVars, hubVars>>

\* The network between the two breaks, and the agent sees it first.
LinkBreaks(a) ==
    /\ Serving(a)
    /\ client' = [client EXCEPT ![a] = "idle"]
    /\ live' = FALSE
    /\ UNCHANGED <<machine, holder, wire, retained, saved, forgotten, hubVars>>

\* The process is killed, or the PC loses power.
AgentDies(a) ==
    /\ client[a] # "stopped"
    /\ client' = [client EXCEPT ![a] = "stopped"]
    /\ machine' = [machine EXCEPT ![a] = "on"]
    /\ live' = IF holder = a THEN FALSE ELSE live
    /\ UNCHANGED <<holder, wire, retained, saved, forgotten, hubVars>>

\* Mutants of Stop: disconnect without the parting status, or before it.
StopSilent(a) ==
    /\ client[a] # "stopped" /\ machine[a] = "on"
    /\ client' = [client EXCEPT ![a] = "stopped"]
    /\ IF Serving(a)
       THEN wire' = Append(wire, "bye") /\ live' = FALSE
       ELSE UNCHANGED <<wire, live>>
    /\ UNCHANGED <<machine, holder, retained, saved, forgotten, hubVars>>
StopSwapped(a) ==
    /\ client[a] # "stopped" /\ machine[a] = "on"
    /\ client' = [client EXCEPT ![a] = "stopped"]
    /\ IF Serving(a)
       THEN wire' = Append(Append(wire, "bye"), "offline") /\ live' = FALSE
       ELSE UNCHANGED <<wire, live>>
    /\ UNCHANGED <<machine, holder, retained, saved, forgotten, hubVars>>

\* stop(), on SIGTERM: publish "offline", wait for it at most two seconds, and
\* disconnect, whether the publication was confirmed or not.
Stop(a) ==
    /\ client[a] # "stopped" /\ machine[a] = "on"
    /\ client' = [client EXCEPT ![a] = "stopped"]
    /\ IF Serving(a)
       THEN wire' = Append(Append(wire, "offline"), "bye") /\ live' = FALSE
       ELSE UNCHANGED <<wire, live>>
    /\ UNCHANGED <<machine, holder, retained, saved, forgotten, hubVars>>

\* The PC is suspended, by /sleep or by hand: nobody tells the agent's client.
Sleeps(a) ==
    /\ client[a] # "stopped" /\ machine[a] = "on"
    /\ machine' = [machine EXCEPT ![a] = "asleep"]
    /\ UNCHANGED <<client, brokerVars, hubVars>>

Resumes(a) ==
    /\ machine[a] = "asleep"
    /\ machine' = [machine EXCEPT ![a] = "on"]
    /\ UNCHANGED <<client, brokerVars, hubVars>>

(***************************************************************************)
(* The hub.                                                                *)
(***************************************************************************)
\* Mutant of HubSubscribes: the status is not retained.
HubSubscribesUnretained ==
    /\ session = "down"
    /\ session' = "up"
    /\ feed' = <<>>
    /\ UNCHANGED <<agentVars, brokerVars, presence>>

\* _session subscribes to the status topic, and the retained message comes at once.
HubSubscribes ==
    /\ session = "down"
    /\ session' = "up"
    /\ feed' = IF retained = Unset THEN <<>> ELSE <<retained>>
    /\ UNCHANGED <<agentVars, brokerVars, presence>>

\* _handle of a status message.
HubReads ==
    /\ feed # <<>>
    /\ presence' = Head(feed)
    /\ feed' = Tail(feed)
    /\ UNCHANGED <<agentVars, brokerVars, session>>

\* The session ends. What the hub believes of the host stays as it is, unless it is
\* the hub process that has ended.
HubSessionEnds ==
    /\ session = "up"
    /\ session' = "down"
    /\ feed' = <<>>
    /\ presence' \in {presence, Unset}
    /\ UNCHANGED <<agentVars, brokerVars>>

AgentStep(a) ==
    \/ AgentStarts(a) \/ BrokerAccepts(a) \/ OnConnect(a) \/ OnDisconnect(a)
    \/ LinkBreaks(a) \/ AgentDies(a) \/ Stop(a) \/ Sleeps(a) \/ Resumes(a)

BrokerStep ==
    \/ BrokerReadsStatus \/ BrokerReadsBye \/ BrokerNotices \/ KeepaliveExpires
    \/ BrokerSaves \/ BrokerCrashes

HubStep == HubSubscribes \/ HubReads \/ HubSessionEnds

Next == (\E a \in Agents : AgentStep(a)) \/ BrokerStep \/ HubStep

Spec == Init /\ [][Next]_vars

\* The broker reads what it is sent, notices a dead connection, and drops one whose
\* client sleeps; the hub reads what it is sent. Nothing is assumed of the agents,
\* and nothing of how long a session lasts.
FairSpec ==
    /\ Spec
    /\ WF_vars(BrokerReadsStatus) /\ WF_vars(BrokerReadsBye) /\ WF_vars(BrokerNotices)
    /\ WF_vars(KeepaliveExpires /\ machine[holder] = "asleep")
    /\ WF_vars(HubReads)

(***************************************************************************)
(* Properties.                                                             *)
(***************************************************************************)
\* The last will and the parting status together: without a connection the topic
\* never says "online", except for a broker that came back from a crash with an
\* old message. A DISCONNECT, which discards the will, is never ahead of the
\* "offline" that stop() publishes.
NoFalseOnline == holder = Nobody /\ retained = "online" => forgotten

\* A late will or a takeover never overwrites the "online" of a connection that
\* is up: once that has been read, the topic says so.
NoFalseOffline ==
    \A a \in Agents :
        Serving(a) /\ client[a] = "connected" /\ wire = <<>> => retained = "online"

\* A subscribed hub is never behind for good: what it will have read last is what
\* the topic says, through lost sessions and retained messages.
HubFollowsTopic ==
    session = "up" /\ retained # Unset =>
        retained = IF feed = <<>> THEN presence ELSE feed[Len(feed)]

\* From the host to the hub: a subscribed hub that has read all there is to read takes
\* no host for online whose connection is gone (but for a crash of the broker), and
\* takes every host for online that is connected and whose "online" has been read.
BeliefIsTrue ==
    session = "up" /\ feed = <<>> =>
        /\ holder = Nobody /\ ~forgotten => presence # "online"
        /\ \A a \in Agents :
              Serving(a) /\ client[a] = "connected" /\ wire = <<>> => presence = "online"

\* A host that is gone is seen to be gone: if every agent stays stopped or asleep,
\* and the hub's session lasts, the hub does not go on offering its buttons. (After
\* a crash of the broker nothing is promised.)
GoneIsSeen ==
    /\ <>[](\A a \in Agents : client[a] = "stopped" \/ machine[a] = "asleep")
    /\ <>[](session = "up" /\ ~forgotten)
    => <>[](presence # "online")

\* A host that is there is seen to be there.
ThereIsSeen ==
    \A a \in Agents :
        <>[](Serving(a) /\ client[a] = "connected" /\ session = "up")
        => <>[](presence = "online")

(***************************************************************************)
(* What the documentation says and the code does not do.                   *)
(***************************************************************************)
\* TROUBLESHOOTING.md: on a clean /sleep "the agent publishes its own offline
\* status on the way out". Nothing does.
SleepAnnounced ==
    [][\A a \in Agents :
        /\ machine[a] = "on" /\ machine'[a] = "asleep"
        /\ Serving(a) /\ client[a] = "connected"
        => retained' = "offline" \/ \E i \in DOMAIN wire' : wire'[i] = "offline"]_vars
=============================================================================
