--------------------------- MODULE HubViewProofs ---------------------------
(***************************************************************************)
(* The bounds of HubView for every value of the times and any number of    *)
(* watchers. The argument is that of real time without a clock: while a    *)
(* signal is wrong, the time since the last disturbance plus the time that *)
(* is left until it is looked at again stays below its lag, because Tick   *)
(* adds to the one what it takes from the other.                           *)
(***************************************************************************)
EXTENDS HubView, TLAPS

USE ProbeTimesAssumption, WatchersAssumption, LinkTimesAssumption

\* The longer of two times is one of them, and no shorter than either.
LEMMA LongerOfTwo ==
    ASSUME NEW a \in Nat, NEW b \in Nat
    PROVE  Longer(a, b) \in Nat /\ Longer(a, b) >= a /\ Longer(a, b) >= b
BY DEF Longer

\* The lags are times.
LEMMA LagsAreTimes ==
    /\ LoopPeriod \in Nat /\ ProbeInterval <= LoopPeriod
    /\ ProbeLag = LoopPeriod + 2 * PingTimeout /\ ProbeLag \in Nat
    /\ LinkLag = Longer(Keepalive, ConnectTimeout) + ReconnectMax /\ LinkLag \in Nat
    /\ Longer(Keepalive, ConnectTimeout) \in Nat
    /\ Longer(Keepalive, ConnectTimeout) >= Keepalive
    /\ Longer(Keepalive, ConnectTimeout) >= ConnectTimeout
    /\ MaxCalm \in Nat /\ MaxCalm > ProbeLag /\ MaxCalm > LinkLag
<1>1. LoopPeriod \in Nat /\ ProbeInterval <= LoopPeriod
  BY DEF LoopPeriod
<1>2. ProbeLag = LoopPeriod + 2 * PingTimeout /\ ProbeLag \in Nat
  BY <1>1 DEF ProbeLag
<1>3. /\ Longer(Keepalive, ConnectTimeout) \in Nat
      /\ Longer(Keepalive, ConnectTimeout) >= Keepalive
      /\ Longer(Keepalive, ConnectTimeout) >= ConnectTimeout
  BY LongerOfTwo
<1>4. LinkLag = Longer(Keepalive, ConnectTimeout) + ReconnectMax /\ LinkLag \in Nat
  BY <1>3 DEF LinkLag
<1>5. MaxCalm \in Nat /\ MaxCalm > ProbeLag /\ MaxCalm > LinkLag
  <2>1. /\ Longer(ProbeLag, LinkLag) \in Nat
        /\ Longer(ProbeLag, LinkLag) >= ProbeLag
        /\ Longer(ProbeLag, LinkLag) >= LinkLag
    BY <1>2, <1>4, LongerOfTwo
  <2> QED BY <2>1, <1>2, <1>4 DEF MaxCalm
<1> QED BY <1>1, <1>2, <1>3, <1>4, <1>5

\* Every initial state satisfies the invariant.
LEMMA InitInv == Init => ViewInv
<1> SUFFICES ASSUME Init PROVE ViewInv
  OBVIOUS
<1> USE LagsAreTimes DEF Init, ProbeInit, LinkInit
<1>1. ProbeTypeOK
  BY DEF ProbeTypeOK, Reachability, Unprobed
<1>2. LinkTypeOK
  BY DEF LinkTypeOK, Link, Heard
<1>3. TypeOK
  BY <1>1, <1>2 DEF TypeOK
<1>4. LinkInTime
  BY DEF LinkInTime
<1>5. "loop" \in Probers
  BY DEF Probers
<1>6. ProbesInTime
  BY <1>5 DEF ProbesInTime, Outdated
<1>7. NeverPinged
  BY DEF NeverPinged
<1> QED BY <1>3, <1>4, <1>6, <1>7 DEF ViewInv

\* ------------------------------------------------------ the session's half

\* A step of the session, with nothing else going on, keeps its type and its limit.
LEMMA LinkStepInv ==
    ASSUME ViewInv, LinkStep
    PROVE  LinkTypeOK' /\ LinkInTime'
<1> USE LagsAreTimes DEF ViewInv, TypeOK, LinkStep, LinkTypeOK, LinkInTime, Link
<1>1. CASE TryConnect
  BY <1>1 DEF TryConnect
<1>2. CASE Connects
  BY <1>2 DEF Connects
<1>3. CASE SessionFails
  BY <1>3 DEF SessionFails
<1>4. CASE HandleStatus
  BY <1>4 DEF HandleStatus, Heard
<1> QED BY <1>1, <1>2, <1>3, <1>4

\* After a disturbance the session has its whole time before it.
LEMMA LinkDisturbedInv ==
    ASSUME ViewInv, LinkDisturbed
    PROVE  LinkTypeOK' /\ LinkInTime'
<1> USE LagsAreTimes DEF ViewInv, TypeOK, LinkDisturbed, LinkTypeOK, LinkInTime, Link, Cut
<1>1. CASE BrokerStops
  BY <1>1 DEF BrokerStops
<1>2. CASE BrokerStarts
  BY <1>2 DEF BrokerStarts
<1>3. CASE NetworkDrops
  BY <1>3 DEF NetworkDrops
<1>4. CASE TopicChanges
  BY <1>4 DEF TopicChanges, Heard
<1> QED BY <1>1, <1>2, <1>3, <1>4

\* What does not touch the session, and does not let time pass, leaves its limit.
LEMMA LinkUntouched ==
    ASSUME ViewInv, UNCHANGED linkVars, calm' = 0 \/ calm' = calm
    PROVE  LinkTypeOK' /\ LinkInTime'
BY LagsAreTimes DEF ViewInv, TypeOK, linkVars, LinkTypeOK, LinkInTime

\* Time passes only where the session waits for it.
LEMMA LinkTick ==
    ASSUME ViewInv, Tick
    PROVE  LinkTypeOK' /\ LinkInTime'
<1> USE LagsAreTimes DEF ViewInv, TypeOK, Tick, LinkTypeOK
<1>1. calm' <= calm + 1 /\ calm' \in Nat /\ calm \in Nat
  OBVIOUS
<1>2. LinkTypeOK'
  BY DEF LinkTimePasses
<1>3. LinkInTime'
  BY <1>1 DEF LinkTimePasses, LinkIsDue, LinkInTime, Link
<1> QED BY <1>2, <1>3

LEMMA LinkRestartInv ==
    ASSUME ViewInv, LinkRestarts, calm' = 0
    PROVE  LinkTypeOK' /\ LinkInTime'
BY LagsAreTimes DEF ViewInv, TypeOK, LinkRestarts, LinkTypeOK, LinkInTime, Link, Heard

\* -------------------------------------------------------- the probers' half

\* The loop is one of the probers.
LEMMA LoopProbes == "loop" \in Probers
BY DEF Probers

\* A probe that starts: if the PC is on or off and stays so, the ping is not
\* outdated. The loop's starts when its sleep is over.
LEMMA PingStartsInv ==
    ASSUME ViewInv, NEW p \in Probers, PingStarts(p), calm' = calm
    PROVE  ProbeTypeOK' /\ ProbesInTime'
<1> USE LagsAreTimes, LoopProbes DEF ViewInv, TypeOK, ProbeTypeOK
<1>1. ProbeTypeOK'
  BY DEF PingStarts, Answers
<1>2. ASSUME NEW q \in Probers, host \in {"on", "off"}, Outdated(q)'
      PROVE  Outdated(q) /\ left'[q] = left[q]
  BY <1>2 DEF PingStarts, Answers, Outdated, Truth
<1>3. ProbesInTime'
  BY <1>2 DEF PingStarts, ProbesInTime, Truth
<1> QED BY <1>1, <1>3

\* The end of a probe, whatever it has written: every other ping is as it was.
LEMMA ProbeEndsInv ==
    ASSUME ViewInv, NEW p \in Probers, ProbeEnds(p), stage[p] # "idle" \/ left[p] = 0
    PROVE  /\ stage' \in [Probers -> {"idle", "pinging", "reaping"}]
           /\ left' \in [Probers -> 0..(LoopPeriod + PingTimeout)]
           /\ stage'[p] = "idle"
           /\ p = "loop" => left'[p] <= LoopPeriod
           /\ p # "loop" => left'[p] = 0
           /\ \A q \in Probers \ {p} : stage'[q] = stage[q] /\ left'[q] = left[q]
           /\ reply' = reply /\ host' = host /\ hasIp' = hasIp
BY LagsAreTimes DEF ViewInv, TypeOK, ProbeTypeOK, ProbeEnds, LoopPeriod

\* Of a host without an ip there is no probe result to be wrong.
LEMMA NothingToPingInv ==
    ASSUME ViewInv, NEW p \in Probers, NothingToPing(p)
    PROVE  ProbeTypeOK' /\ ProbesInTime'
<1>1. ProbeEnds(p) /\ left[p] = 0 /\ ~hasIp /\ reachable' = reachable
  BY DEF NothingToPing
<1>2. ProbeTypeOK'
  BY <1>1, ProbeEndsInv, LagsAreTimes DEF ViewInv, TypeOK, ProbeTypeOK
<1> QED BY <1>1, <1>2, ProbeEndsInv DEF ProbesInTime

\* A probe that ends with the right result leaves nothing wrong; with a wrong one
\* it was outdated, so the loop's next sweep is near enough.
LEMMA ProbeWritesInv ==
    ASSUME ViewInv, NEW p \in Probers, stage[p] # "idle", ProbeEnds(p),
           reachable' \in Reachability, calm' = calm,
           host \in {"on", "off"} => reachable' = Truth \/ Outdated(p)
    PROVE  ProbeTypeOK' /\ ProbesInTime'
<1> USE LagsAreTimes, LoopProbes, ProbeEndsInv DEF ViewInv, TypeOK, ProbeTypeOK
<1>1. ProbeTypeOK'
  OBVIOUS
<1>2. ASSUME NEW q \in Probers, Outdated(q)'
      PROVE  Outdated(q) /\ left'[q] = left[q]
  BY <1>2 DEF Outdated, Truth
<1>3. CASE hasIp /\ host \in {"on", "off"} /\ Outdated(p)
  <2>1. calm <= PingTimeout /\ calm \in Nat
    BY <1>3 DEF ProbesInTime
  <2>2. left'["loop"] \in Nat /\ left'["loop"] <= LoopPeriod + PingTimeout
    BY <1>1
  <2>3. stage'["loop"] = "idle" => left'["loop"] <= LoopPeriod
    BY <1>1
  <2>4. stage'["loop"] # "idle" => left'["loop"] <= PingTimeout
    BY <1>1
  <2> QED BY <1>2, <2>1, <2>2, <2>3, <2>4 DEF ProbesInTime, Truth
<1>4. CASE host \in {"on", "off"} /\ reachable' = Truth
  BY <1>2, <1>4 DEF ProbesInTime, Truth
<1>5. CASE ~hasIp \/ host \notin {"on", "off"}
  BY <1>5 DEF ProbesInTime
<1> QED BY <1>1, <1>3, <1>4, <1>5

\* The timeout of a healthy PC's ping, too, is one of an outdated ping.
LEMMA PingTimesOutInv ==
    ASSUME ViewInv, NEW p \in Probers, PingTimesOut(p), calm' = calm
    PROVE  ProbeTypeOK' /\ ProbesInTime'
<1> USE LagsAreTimes, LoopProbes DEF ViewInv, TypeOK, ProbeTypeOK
<1>1. ProbeTypeOK'
  BY DEF PingTimesOut
<1>2. ASSUME NEW q \in Probers, host \in {"on", "off"}, Outdated(q)'
      PROVE  Outdated(q) /\ left'[q] = left[q]
  BY <1>2 DEF PingTimesOut, Outdated, Truth
<1>3. ProbesInTime'
  BY <1>2 DEF PingTimesOut, ProbesInTime, Truth
<1> QED BY <1>1, <1>3

\* With the calm at its start every limit is still far away.
LEMMA CalmStarts ==
    ASSUME ProbeTypeOK', calm' = 0
    PROVE  ProbesInTime'
BY LagsAreTimes, LoopProbes DEF ProbeTypeOK, ProbesInTime, Outdated

\* Any step of a probe that finds something keeps its type and its limits.
LEMMA ProbeStepInv ==
    ASSUME ViewInv, NEW p \in Probers, ProbeStep(p)
    PROVE  ProbeTypeOK' /\ ProbesInTime'
<1> USE DEF ProbeStep
<1>1. CASE PingStarts(p)
  BY <1>1, PingStartsInv
<1>2. CASE ProbeReturns(p)
  <2>1. reachable' \in Reachability /\ stage[p] # "idle"
    BY <1>2 DEF ProbeReturns, ViewInv, TypeOK, ProbeTypeOK, Reachability
  <2>2. reachable' = Truth \/ Outdated(p)
    BY <1>2 DEF ProbeReturns, Outdated
  <2> QED BY <1>2, <2>1, <2>2, ProbeWritesInv DEF ProbeReturns
<1>3. CASE PingTimesOut(p)
  BY <1>3, PingTimesOutInv
<1>4. CASE Reaped(p)
  <2>1. reachable' \in Reachability /\ stage[p] # "idle"
    BY <1>4 DEF Reaped, Reachability
  <2>2. host \in {"on", "off"} => reachable' = Truth \/ Outdated(p)
    BY <1>4 DEF Reaped, Outdated, Truth
  <2> QED BY <1>4, <2>1, <2>2, ProbeWritesInv DEF Reaped
<1>5. CASE NothingToPing(p)
  BY <1>5, NothingToPingInv
<1> QED BY <1>1, <1>2, <1>3, <1>4, <1>5

\* A probe that fails starts the calm again.
LEMMA ProbeFailsInv ==
    ASSUME ViewInv, NEW p \in Probers, ProbeFails(p)
    PROVE  ProbeTypeOK' /\ ProbesInTime'
<1>1. ProbeEnds(p) /\ (stage[p] # "idle" \/ left[p] = 0) /\ calm' = 0
  BY DEF ProbeFails, PingUnavailable, ProbeRaises
<1>2. reachable' \in Reachability
  BY DEF ProbeFails, PingUnavailable, ProbeRaises, Reachability, ViewInv, TypeOK, ProbeTypeOK
<1>3. ProbeTypeOK'
  BY <1>1, <1>2, ProbeEndsInv, LagsAreTimes DEF ViewInv, TypeOK, ProbeTypeOK
<1> QED BY <1>1, <1>3, CalmStarts

\* Time passes only where every prober waits for it, so what it adds to the calm
\* it takes from the time that is left.
LEMMA ProbeTick ==
    ASSUME ViewInv, Tick
    PROVE  ProbeTypeOK' /\ ProbesInTime'
<1> USE LagsAreTimes, LoopProbes DEF ViewInv, TypeOK, Tick
<1>1. calm' <= calm + 1 /\ calm' \in Nat /\ calm \in Nat
  OBVIOUS
<1>2. \A q \in Probers : left'[q] = IF left[q] > 0 THEN left[q] - 1 ELSE 0
  BY DEF TimePasses
<1>3. ProbeTypeOK'
  BY <1>2 DEF TimePasses, ProbeTypeOK
<1>4. \A q \in Probers :
        /\ stage[q] # "reaping"
        /\ stage[q] = "pinging" => left[q] > 0 /\ ~(reply[q] = "yes" /\ host = "on")
  BY DEF ProbeIsDue, ProbeTypeOK
<1>5. ASSUME NEW q \in Probers, host \in {"on", "off"}, Outdated(q)'
      PROVE  Outdated(q) /\ left'[q] = left[q] - 1 /\ left[q] \in Nat
  <2>1. stage[q] = "pinging" /\ left[q] > 0 /\ left[q] \in Nat
    BY <1>4, <1>5 DEF Outdated, ProbeTypeOK
  <2>2. Outdated(q)
    BY <1>4, <1>5, <2>1 DEF Outdated, Truth, ProbeTypeOK
  <2> QED BY <1>2, <2>1, <2>2
<1>6. left["loop"] \in Nat /\ left["loop"] > 0 /\ left'["loop"] = left["loop"] - 1
  <2>1. stage["loop"] \in {"idle", "pinging", "reaping"} /\ left["loop"] \in Nat
    BY DEF ProbeTypeOK
  <2>2. left["loop"] > 0
    BY <2>1, <1>4 DEF ProbeIsDue, ProbeTypeOK
  <2> QED BY <1>2, <2>1, <2>2
<1>7. ProbesInTime'
  <2> SUFFICES ASSUME hasIp, host \in {"on", "off"}
               PROVE  ProbesInTime'
    BY DEF ProbesInTime
  <2>1. \A q \in Probers : Outdated(q)' => calm' + left'[q] <= PingTimeout
    BY <1>1, <1>5 DEF ProbesInTime
  <2>2. Truth' = Truth
    BY DEF Truth
  <2> QED BY <2>1, <2>2, <1>1, <1>6 DEF ProbesInTime
<1> QED BY <1>3, <1>7

\* What does not touch the probes, and does not let time pass, leaves their limits.
LEMMA ProbesUntouched ==
    ASSUME ViewInv, UNCHANGED probeVars, calm' = 0 \/ calm' = calm
    PROVE  ProbeTypeOK' /\ ProbesInTime'
<1>1. ProbeTypeOK'
  BY DEF ViewInv, TypeOK, ProbeTypeOK, probeVars
<1>2. CASE calm' = 0
  BY <1>1, <1>2, CalmStarts
<1>3. CASE calm' = calm
  BY <1>1, <1>3 DEF ViewInv, ProbesInTime, Outdated, Truth, probeVars
<1> QED BY <1>1, <1>2, <1>3

\* Whether the host has an ip is only settled as the hub starts, and without one
\* no ping does.
LEMMA NeverPingedInv ==
    ASSUME ViewInv, [Next]_vars
    PROVE  NeverPinged'
<1> USE DEF ViewInv, NeverPinged
<1>1. ASSUME UNCHANGED <<hasIp, reachable, stage>> PROVE NeverPinged'
  BY <1>1
<1>2. ASSUME NEW p \in Probers, ProbeStep(p) \/ ProbeFails(p) PROVE NeverPinged'
  <2>1. hasIp' = hasIp
    BY <1>2 DEF ProbeStep, ProbeFails, PingStarts, NothingToPing, ProbeReturns, PingTimesOut,
       Reaped, PingUnavailable, ProbeRaises, ProbeEnds
  <2>2. ASSUME ~hasIp PROVE reachable' = reachable /\ ProbeEnds(p)
    BY <1>2, <2>2 DEF ProbeStep, ProbeFails, PingStarts, NothingToPing, ProbeReturns,
       PingTimesOut, Reaped, PingUnavailable, ProbeRaises
  <2> QED BY <2>1, <2>2, ProbeEndsInv DEF ProbeEnds, TypeOK, ProbeTypeOK
<1>3. CASE HubRestarts
  BY <1>3 DEF HubRestarts, ProbesRestart
<1>4. CASE LinkStep \/ LinkDisturbed \/ UNCHANGED vars
  BY <1>1, <1>4 DEF LinkStep, LinkDisturbed, vars, probeVars
<1>5. CASE HostDisturbed
  BY <1>1, <1>5 DEF HostDisturbed, HostChanges
<1>6. CASE Tick
  BY <1>1, <1>6 DEF Tick
<1> QED BY <1>2, <1>3, <1>4, <1>5, <1>6 DEF Next

\* ------------------------------------------------------------ the theorems

\* Every step keeps the invariant.
LEMMA NextInv ==
    ASSUME ViewInv, [Next]_vars
    PROVE  ViewInv'
<1> SUFFICES /\ ProbeTypeOK' /\ ProbesInTime'
             /\ LinkTypeOK' /\ LinkInTime'
             /\ calm' \in 0..MaxCalm
  BY NeverPingedInv DEF ViewInv, TypeOK
<1>0. calm \in 0..MaxCalm /\ MaxCalm \in Nat
  BY LagsAreTimes DEF ViewInv, TypeOK
<1>1. ASSUME NEW p \in Probers, ProbeStep(p)
      PROVE  /\ ProbeTypeOK' /\ ProbesInTime' /\ LinkTypeOK' /\ LinkInTime'
             /\ calm' \in 0..MaxCalm
  BY <1>0, <1>1, ProbeStepInv, LinkUntouched DEF ProbeStep
<1>2. ASSUME NEW p \in Probers, ProbeFails(p)
      PROVE  /\ ProbeTypeOK' /\ ProbesInTime' /\ LinkTypeOK' /\ LinkInTime'
             /\ calm' \in 0..MaxCalm
  BY <1>0, <1>2, ProbeFailsInv, LinkUntouched DEF ProbeFails
<1>3. CASE LinkStep
  BY <1>0, <1>3, LinkStepInv, ProbesUntouched DEF LinkStep
<1>4. CASE LinkDisturbed
  BY <1>0, <1>4, LinkDisturbedInv, ProbesUntouched DEF LinkDisturbed
<1>5. CASE HostDisturbed
  <2>1. ProbeTypeOK' /\ calm' = 0
    BY <1>5 DEF HostDisturbed, HostChanges, ViewInv, TypeOK, ProbeTypeOK
  <2> QED BY <1>0, <1>5, <2>1, CalmStarts, LinkUntouched DEF HostDisturbed
<1>6. CASE HubRestarts
  <2>1. ProbeTypeOK' /\ calm' = 0
    BY <1>6, LagsAreTimes
    DEF HubRestarts, ProbesRestart, ViewInv, TypeOK, ProbeTypeOK, Reachability
  <2> QED BY <1>0, <1>6, <2>1, CalmStarts, LinkRestartInv DEF HubRestarts
<1>7. CASE Tick
  BY <1>0, <1>7, ProbeTick, LinkTick DEF Tick
<1>8. CASE UNCHANGED vars
  BY <1>0, <1>8, ProbesUntouched, LinkUntouched DEF vars
<1> QED BY <1>1, <1>2, <1>3, <1>4, <1>5, <1>6, <1>7, <1>8 DEF Next

\* The type and the time limits hold in every reachable state, for any values of
\* the times and any number of wake watchers.
THEOREM ViewInvariant == Spec => []ViewInv
<1>1. Init => ViewInv
  BY InitInv
<1>2. ViewInv /\ [Next]_vars => ViewInv'
  BY NextInv
<1> QED BY <1>1, <1>2, PTL DEF Spec

\* Type correctness of the two halves together.
THEOREM ViewTypeCorrect == Spec => []TypeOK
<1>1. ViewInv => TypeOK
  BY DEF ViewInv
<1> QED BY <1>1, ViewInvariant, PTL

\* LinkLag bounds how long the hub can believe in a stale presence: what the
\* reconnect loop of HubMqtt.run costs once broker and network are well.
THEOREM PresenceInTime == Spec => []PresenceFollows
<1>1. ViewInv => PresenceFollows
  <2> SUFFICES ASSUME ViewInv, calm > LinkLag, broker = "up", topic \in Presence
               PROVE  presence = topic
    BY DEF PresenceFollows
  <2>1. link \in Link /\ linkLeft \in Nat /\ calm \in Nat
    BY LagsAreTimes DEF ViewInv, TypeOK, LinkTypeOK
  <2> QED BY <2>1, LagsAreTimes DEF ViewInv, LinkInTime, Link
<1> QED BY <1>1, ViewInvariant, PTL

\* ProbeLag bounds how long a wrong reachability can last, whatever the overlap of
\* the probe loop, the handler and the wake watchers.
THEOREM ReachabilityInTime == Spec => []ReachabilityFollows
<1>1. ViewInv => ReachabilityFollows
  <2> SUFFICES ASSUME ViewInv, calm > ProbeLag, hasIp, host \in {"on", "off"}
               PROVE  reachable = Truth
    BY DEF ReachabilityFollows, Truth
  <2>1. left["loop"] \in Nat /\ calm \in Nat
    BY LagsAreTimes, LoopProbes DEF ViewInv, TypeOK, ProbeTypeOK
  <2> QED BY <2>1, LagsAreTimes DEF ViewInv, ProbesInTime
<1> QED BY <1>1, ViewInvariant, PTL

\* The longer of the two lags bounds how long the user can be shown anything else
\* than what the two signals say, of a host without an ip what the one says.
THEOREM ShownInTime == Spec => []ShownFollows
<1>1. PresenceFollows /\ ReachabilityFollows /\ ViewInv => ShownFollows
  <2> SUFFICES ASSUME PresenceFollows, ReachabilityFollows, ViewInv
               PROVE  ShownFollows
    OBVIOUS
  <2>1. ~hasIp => reachable = Unprobed
    BY DEF ViewInv, NeverPinged
  <2>2. ~hasIp => Shown # "agent_down"
    BY <2>1 DEF Shown, Resolve, NoWindow, Unprobed
  <2>3. ASSUME calm = MaxCalm, broker = "up", topic \in Presence
        PROVE  /\ Shown = "online" <=> topic = "online"
               /\ topic = "offline" /\ hasIp /\ host = "on" => Shown = "agent_down"
               /\ topic = "offline" /\ (hasIp => host = "off") => Shown = "offline"
    <3>1. calm > LinkLag /\ calm > ProbeLag
      BY <2>3, LagsAreTimes
    <3>2. presence = topic
      BY <2>3, <3>1 DEF PresenceFollows
    <3>3. CASE topic = "online"
      BY <3>2, <3>3 DEF Shown, Resolve
    <3>4. CASE topic = "offline"
      <4>1. Shown \in {"agent_down", "offline", "unknown"}
        BY <3>2, <3>4 DEF Shown, Resolve, NoWindow
      <4>2. reachable = "yes" => Shown = "agent_down"
        BY <3>2, <3>4 DEF Shown, Resolve, NoWindow, Unprobed
      <4>3. reachable \in {"no", Unprobed} => Shown = "offline"
        BY <3>2, <3>4 DEF Shown, Resolve, NoWindow, Unprobed
      <4>4. hasIp => (host = "on" => reachable = "yes") /\ (host = "off" => reachable = "no")
        BY <3>1 DEF ReachabilityFollows
      <4> QED BY <2>1, <3>4, <4>1, <4>2, <4>3, <4>4
    <3> QED BY <2>3, <3>3, <3>4 DEF Presence
  <2> QED BY <2>2, <2>3 DEF ShownFollows
<1> QED BY <1>1, PresenceInTime, ReachabilityInTime, ViewInvariant, PTL

(***************************************************************************)
(* HubView and WakeWatch share HostStatus. WakeWatch lets any status and   *)
(* any probe result come at any time; HubView says when they do.           *)
(***************************************************************************)
\* WakeWatch between wakes.
Status == INSTANCE WakeWatch WITH
    Wakes <- {}, WakeTimeout <- PingTimeout, window <- NoWindow,
    stage <- [w \in {} |-> "none"], waiters <- {}, fired <- {},
    left <- [w \in {} |-> 0], appeared <- {}

LEMMA ViewStepsStatus ==
  ASSUME TypeOK, [Next]_vars
  PROVE  [Status!Next]_(Status!vars)
<1> USE DEF Status!Presence, Presence, Status!NoWindow, NoWindow
<1>1. ASSUME reachable' \in Reachability, presence' = presence PROVE Status!ProbeLoop
  BY <1>1 DEF Status!ProbeLoop, Status!Reachability, Reachability, Status!Unprobed, Unprobed
<1>2. ASSUME reachable' = reachable, presence' = presence PROVE UNCHANGED Status!vars
  BY <1>2 DEF Status!vars
<1>3. ASSUME HandleStatus, reachable' = reachable PROVE Status!HandleStatus(topic)
  <2>1. Status!WindowAfter(topic, NoWindow) = NoWindow
    BY DEF Status!WindowAfter
  <2> QED
    BY <1>3, <2>1 DEF HandleStatus, Status!HandleStatus
<1>4. ASSUME HubRestarts PROVE Status!HubRestarts
  BY <1>4 DEF HubRestarts, ProbesRestart, LinkRestarts, Status!HubRestarts, Status!Unheard,
     Unheard, Status!Unprobed, Unprobed
\* Whatever comes of a probe, it is a result.
<1>5. ASSUME NEW p \in Probers, ProbeStep(p) \/ ProbeFails(p)
      PROVE  presence' = presence /\ (reachable' \in Reachability \/ reachable' = reachable)
  <2>1. presence' = presence
    BY <1>5 DEF ProbeStep, ProbeFails, linkVars
  <2>2. reply[p] \in {"yes", "no"}
    BY DEF TypeOK, ProbeTypeOK
  <2>3. reachable' \in {reachable, reply[p], "no", Unprobed}
    BY <1>5 DEF ProbeStep, ProbeFails, PingStarts, NothingToPing, ProbeReturns, PingTimesOut,
       Reaped, PingUnavailable, ProbeRaises
  <2> QED
    BY <2>1, <2>2, <2>3 DEF Reachability
<1>6. ASSUME LinkStep
      PROVE  (HandleStatus /\ topic \in Presence) \/ presence' = presence
  BY <1>6 DEF LinkStep, TryConnect, Connects, SessionFails, HandleStatus
<1>7. ASSUME LinkStep \/ LinkDisturbed \/ HostDisturbed \/ Tick PROVE reachable' = reachable
  BY <1>7 DEF LinkStep, LinkDisturbed, HostDisturbed, HostChanges, Tick, probeVars
<1>8. ASSUME LinkDisturbed \/ HostDisturbed \/ Tick PROVE presence' = presence
  BY <1>8 DEF LinkDisturbed, BrokerStops, BrokerStarts, NetworkDrops, TopicChanges,
     HostDisturbed, Tick, linkVars
<1>9. ASSUME UNCHANGED vars PROVE UNCHANGED <<presence, reachable>>
  BY <1>9 DEF vars, probeVars, linkVars
<1> QED
  BY <1>1, <1>2, <1>3, <1>4, <1>5, <1>6, <1>7, <1>8, <1>9 DEF Next, Status!Next

\* What the probes and the session of HubView do to a host's status is what WakeWatch
\* lets happen to it while there is no wake.
THEOREM ViewIsWakeWatch == Spec => Status!Spec
<1>1. Init => Status!Init
  BY DEF Init, ProbeInit, LinkInit, Status!Init, Status!Unheard, Unheard, Status!Unprobed,
     Unprobed, Status!NoWindow, NoWindow
<1>2. TypeOK /\ [Next]_vars => [Status!Next]_(Status!vars)
  BY ViewStepsStatus
<1> QED
  BY <1>1, <1>2, ViewTypeCorrect, PTL DEF Spec, Status!Spec
=============================================================================
