------------------------------- MODULE Probe -------------------------------
(***************************************************************************)
(* Reachability of one host: is_reachable of hub/probe.py, and the tasks   *)
(* of hub/bot.py that call it. The probe loop, a /status or a button, and  *)
(* any wake watchers each run a ping of their own and write what comes of  *)
(* it into the same HostStatus.reachable.                                  *)
(*                                                                         *)
(* Time passes in TimePasses only; ProbeIsDue says when an event loop that *)
(* is never late has a step to take first. Whether the ping's one packet   *)
(* is answered is settled when the ping starts.                            *)
(***************************************************************************)
EXTENDS HostStatus

CONSTANTS Watchers,      \* wake watchers that may probe after their timeout
          ProbeInterval, \* PROBE_INTERVAL: the loop's sleep between two sweeps
          PingTimeout,   \* PING_TIMEOUT
          OtherHosts     \* the longest that a sweep spends on the other hosts

ASSUME ProbeTimesAssumption ==
    /\ ProbeInterval \in Nat \ {0}
    /\ PingTimeout \in Nat \ {0}
    /\ OtherHosts \in Nat

ASSUME WatchersAssumption == {"loop", "handler"} \cap Watchers = {}

VARIABLES
    host,      \* the PC: on, off, or patchy (some of its answers get lost)
    hasIp,     \* whether the configuration names its ip, which it need not
    reachable, \* HostStatus.reachable
    stage,     \* each prober's place in is_reachable
    left,      \* the time left of the ping, or of the loop's sleep
    reply      \* whether the packet of the ping was answered

probeVars == <<host, hasIp, reachable, stage, left, reply>>

\* Updates are handled one at a time, so one handler probes at a time.
Probers == {"loop", "handler"} \cup Watchers

LoopPeriod == ProbeInterval + OtherHosts

\* The longest that reachable may be wrong about a host that stays as it is: an
\* old ping of anybody runs out, a sweep that began before that does too, and
\* the next sweep's ping is answered or given up.
ProbeLag == LoopPeriod + 2 * PingTimeout

\* The type of every variable. Only a ping has time left, or the loop asleep.
ProbeTypeOK ==
    /\ host \in {"on", "off", "patchy"}
    /\ hasIp \in BOOLEAN
    /\ reachable \in Reachability
    /\ stage \in [Probers -> {"idle", "pinging", "reaping"}]
    /\ left \in [Probers -> 0..(LoopPeriod + PingTimeout)]
    /\ reply \in [Probers -> {"yes", "no"}]
    /\ \A p \in Probers :
        /\ stage[p] = "pinging" => left[p] <= PingTimeout
        /\ stage[p] = "idle" => left[p] <= IF p = "loop" THEN LoopPeriod ELSE 0
        /\ stage[p] = "reaping" => left[p] = 0

ProbeInit ==
    /\ host \in {"on", "off", "patchy"}
    /\ hasIp \in BOOLEAN
    /\ reachable = Unprobed
    /\ stage = [p \in Probers |-> "idle"]
    /\ left = [p \in Probers |-> 0]
    /\ reply = [p \in Probers |-> "no"]

\* ----------------------------------------------------------- one probe

\* The PC's answers: all of them, none, or some.
Answers == CASE host = "on" -> {"yes"}
             [] host = "off" -> {"no"}
             [] host = "patchy" -> {"yes", "no"}

\* _probe is over: the loop goes on with the other hosts and sleeps; a handler or
\* a watcher goes on with its message.
ProbeEnds(p) ==
    /\ stage' = [stage EXCEPT ![p] = "idle"]
    /\ \E busy \in 0..OtherHosts :
        left' = [left EXCEPT ![p] = IF p = "loop" THEN ProbeInterval + busy ELSE 0]
    /\ UNCHANGED <<host, hasIp, reply>>

\* _probe of a host without an ip returns at once: nothing is learnt of it.
NothingToPing(p) ==
    /\ ~hasIp
    /\ stage[p] = "idle"
    /\ left[p] = 0
    /\ ProbeEnds(p)
    /\ UNCHANGED reachable

\* The ping process starts.
PingStarts(p) ==
    /\ hasIp
    /\ stage[p] = "idle"
    /\ left[p] = 0
    /\ stage' = [stage EXCEPT ![p] = "pinging"]
    /\ left' = [left EXCEPT ![p] = PingTimeout]
    /\ \E answer \in Answers : reply' = [reply EXCEPT ![p] = answer]
    /\ UNCHANGED <<host, hasIp, reachable>>

\* No ping binary, or an OSError on starting it: no information.
PingUnavailable(p) ==
    /\ hasIp
    /\ stage[p] = "idle"
    /\ left[p] = 0
    /\ reachable' = Unprobed
    /\ ProbeEnds(p)

\* The ping exits, and its exit code becomes the result.
ProbeReturns(p) ==
    /\ stage[p] = "pinging"
    /\ reachable' = reply[p]
    /\ ProbeEnds(p)

\* wait_for times out: the ping is killed, unless it has just exited by itself,
\* which kill() reports with an exception that is suppressed.
PingTimesOut(p) ==
    /\ stage[p] = "pinging"
    /\ left[p] = 0
    /\ stage' = [stage EXCEPT ![p] = "reaping"]
    /\ UNCHANGED <<host, hasIp, reachable, left, reply>>

\* The killed process has been waited for: the result is no, whatever it had seen.
Reaped(p) ==
    /\ stage[p] = "reaping"
    /\ reachable' = "no"
    /\ ProbeEnds(p)

\* Mutant of ProbeRaises: the exception ends the loop's task.
ProbeRaisesForGood(p) ==
    /\ stage[p] # "idle"
    /\ stage' = [stage EXCEPT ![p] = IF p = "loop" THEN "ended" ELSE "idle"]
    /\ left' = [left EXCEPT ![p] = 0]
    /\ UNCHANGED <<host, hasIp, reachable, reply>>

\* Any other exception leaves reachable as it was. The loop logs it and goes on;
\* a handler or a watcher ends.
ProbeRaises(p) ==
    /\ stage[p] # "idle"
    /\ ProbeEnds(p)
    /\ UNCHANGED reachable

\* ------------------------------------------------ the PC, restarts and time

HostChanges ==
    /\ \E state \in {"on", "off", "patchy"} \ {host} : host' = state
    /\ UNCHANGED <<hasIp, reachable, stage, left, reply>>

\* The hub stops and starts, perhaps with another configuration: nothing is kept,
\* and the loop probes at once.
ProbesRestart ==
    /\ hasIp' \in BOOLEAN
    /\ reachable' = Unprobed
    /\ stage' = [p \in Probers |-> "idle"]
    /\ left' = [p \in Probers |-> 0]
    /\ reply' = [p \in Probers |-> "no"]
    /\ UNCHANGED host

\* A step that does not wait for time: the loop's next sweep, a timeout, a killed
\* ping, and an answer of a healthy PC, which takes milliseconds.
ProbeIsDue ==
    \/ stage["loop"] = "idle" /\ left["loop"] = 0
    \/ \E p \in Probers :
        \/ stage[p] = "reaping"
        \/ stage[p] = "pinging" /\ (left[p] = 0 \/ (reply[p] = "yes" /\ host = "on"))

TimePasses == left' = [p \in Probers |-> IF left[p] > 0 THEN left[p] - 1 ELSE 0]
=============================================================================
