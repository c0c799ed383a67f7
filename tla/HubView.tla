------------------------------ MODULE HubView ------------------------------
(***************************************************************************)
(* What the user is shown of a host: the two signals of HubLink and Probe, *)
(* folded by HostStatus.resolve, with no wake in flight (WakeWatch has the *)
(* wake window). The question is how long the answer can be wrong, through *)
(* lost sessions, growing delays, overlapping and failing probes.          *)
(*                                                                         *)
(* The hub runs one event loop, and time does not pass over a step that it *)
(* has to take: Tick waits for ProbeIsDue and LinkIsDue.                   *)
(***************************************************************************)
EXTENDS Probe, HubLink

\* How long nothing has disturbed host, agent, broker, network, hub or ping,
\* counted up to one past the longest lag.
VARIABLE calm

vars == <<probeVars, linkVars, calm>>

MaxCalm == Longer(ProbeLag, LinkLag) + 1

\* The type of every variable.
TypeOK ==
    /\ ProbeTypeOK
    /\ LinkTypeOK
    /\ calm \in 0..MaxCalm

Init ==
    /\ ProbeInit
    /\ LinkInit
    /\ calm = 0

Shown == Resolve(presence, reachable, NoWindow)

\* ------------------------------------------------------------------- actions

\* A probe begins: the loop's always, a watcher's always, and a handler's only
\* when it can change the answer (_refresh_if_not_online).
MayProbe(p) == p = "handler" => Shown # "online"

\* A step of a probe that finds what there is to find.
ProbeStep(p) ==
    /\ \/ MayProbe(p) /\ (PingStarts(p) \/ NothingToPing(p))
       \/ ProbeReturns(p)
       \/ PingTimesOut(p)
       \/ Reaped(p)
    /\ UNCHANGED <<linkVars, calm>>

\* A probe comes to nothing, or to no result at all.
ProbeFails(p) ==
    /\ \/ MayProbe(p) /\ PingUnavailable(p)
       \/ ProbeRaises(p)
    /\ calm' = 0
    /\ UNCHANGED linkVars

LinkStep ==
    /\ TryConnect \/ Connects \/ SessionFails \/ HandleStatus
    /\ UNCHANGED <<probeVars, calm>>

LinkDisturbed ==
    /\ BrokerStops \/ BrokerStarts \/ NetworkDrops \/ TopicChanges
    /\ calm' = 0
    /\ UNCHANGED probeVars

HostDisturbed ==
    /\ HostChanges
    /\ calm' = 0
    /\ UNCHANGED linkVars

HubRestarts ==
    /\ ProbesRestart
    /\ LinkRestarts
    /\ calm' = 0

\* Time passes when nobody has anything to do.
Tick ==
    /\ ~ProbeIsDue
    /\ ~LinkIsDue
    /\ TimePasses
    /\ LinkTimePasses
    /\ calm' = IF calm = MaxCalm THEN calm ELSE calm + 1
    /\ UNCHANGED <<host, hasIp, reachable, stage, reply, broker, topic, presence, link, delay>>

Next ==
    \/ \E p \in Probers : ProbeStep(p) \/ ProbeFails(p)
    \/ LinkStep
    \/ LinkDisturbed
    \/ HostDisturbed
    \/ HubRestarts
    \/ Tick

Spec == Init /\ [][Next]_vars

\* ---------------------------------------------------------------- properties

\* Through any number of lost sessions, and whatever the delay has grown to, the
\* hub believes what the topic says at the latest LinkLag after the last
\* disturbance (HubMqtt.run, mqtt.py:67-86).
PresenceFollows ==
    calm > LinkLag /\ broker = "up" /\ topic \in Presence => presence = topic

\* A probe result that was written late, by whichever of the overlapping probes,
\* or kept when one raised, lasts no longer than ProbeLag: the loop's next sweep
\* replaces it ("never stop doing it", bot.py:195-211). This is about a host with
\* an ip. Nothing is learnt of one without.
ReachabilityFollows ==
    calm > ProbeLag /\ hasIp =>
        /\ host = "on" => reachable = "yes"
        /\ host = "off" => reachable = "no"

\* When both signals have settled the user is shown what they say: online exactly
\* with a connected agent, and without one "agent_down" for a PC that answers and
\* "offline" for one that is off. Without an ip the hub cannot tell these two
\* apart: it says "offline", and "agent_down" never, settled or not, in whatever
\* state restarts and earlier configurations have left it (HostStatus.resolve,
\* state.py:87-120; bot.py:213-218: "the agent-down state is never reported").
ShownFollows ==
    /\ (calm = MaxCalm /\ broker = "up" /\ topic \in Presence) =>
        /\ Shown = "online" <=> topic = "online"
        /\ topic = "offline" /\ hasIp /\ host = "on" => Shown = "agent_down"
        /\ topic = "offline" /\ (hasIp => host = "off") => Shown = "offline"
    /\ ~hasIp => Shown # "agent_down"

\* --------------------------------------------------- the inductive invariant

\* A session that is not up to date has its time limit: the old one is given up,
\* then run() sleeps, then the broker answers.
LinkInTime ==
    broker = "up" =>
        /\ link \in {"dead", "hanging"} => calm + linkLeft <= Longer(Keepalive, ConnectTimeout)
        /\ link = "asleep" => calm + linkLeft <= LinkLag
        /\ link = "connecting" => calm <= LinkLag
        /\ link = "live" /\ topic \in Presence /\ presence # topic => calm <= LinkLag

\* What a probe of a PC that is simply on or off should say.
Truth == IF host = "on" THEN "yes" ELSE "no"

\* The ping began before the PC was as it is now: it may write the wrong result.
Outdated(p) ==
    \/ stage[p] = "pinging" /\ reply[p] # Truth
    \/ stage[p] = "pinging" /\ host = "on" /\ left[p] < PingTimeout
    \/ stage[p] = "reaping" /\ host = "on"

\* Outdated pings run out, and a wrong result lasts until the loop's next sweep.
ProbesInTime ==
    hasIp /\ host \in {"on", "off"} =>
        /\ \A p \in Probers : Outdated(p) => calm + left[p] <= PingTimeout
        /\ reachable # Truth /\ stage["loop"] = "idle" =>
               calm + left["loop"] <= LoopPeriod + PingTimeout
        /\ reachable # Truth => calm + left["loop"] <= ProbeLag

\* A host without an ip is never pinged.
NeverPinged ==
    ~hasIp => /\ reachable = Unprobed
              /\ \A p \in Probers : stage[p] = "idle"

ViewInv == TypeOK /\ LinkInTime /\ ProbesInTime /\ NeverPinged
=============================================================================
