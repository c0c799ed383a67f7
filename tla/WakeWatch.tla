----------------------------- MODULE WakeWatch -----------------------------
(***************************************************************************)
(* Waking one host: PcWakeBot._wake, the watcher task that each wake       *)
(* spawns, the online_waiters it registers in, the message pump that fires *)
(* them, and the wake window of HostStatus.                                *)
(*                                                                         *)
(* All of it runs on one event loop. _wake has one await, the reply that   *)
(* says "Waking...", and it is a round trip to Telegram; the watcher has   *)
(* its wait_for, the probe after a timeout and the edit of the message.    *)
(* Between two awaits a step is atomic. Telegram updates are handled one   *)
(* at a time, so at most one _wake is in its reply, while any number of    *)
(* watchers, the pump and the probe loop run beside it.                    *)
(***************************************************************************)
EXTENDS HostStatus

CONSTANTS Wakes,       \* the /wake requests of a behaviour
          WakeTimeout  \* WAKE_TIMEOUT, in ticks

ASSUME WakeTimeoutAssumption == WakeTimeout \in Nat \ {0}

VARIABLES
    presence,   \* HostStatus.presence
    reachable,  \* HostStatus.reachable
    window,     \* HostStatus.wake_deadline, as the time left
    stage,      \* where each wake stands
    waiters,    \* the wakes whose event is in _online_waiters
    fired,      \* the wakes whose event is set
    left,       \* the time left to the wait_for of each watcher
    appeared    \* the wakes during which the host was seen online

vars == <<presence, reachable, window, stage, waiters, fired, left, appeared>>

\* "replying": _wake awaits the reply. "spawned": the watcher task exists and
\* has not run. "came_up" and "timed_out": past the finally, with that result;
\* "probed": a timed-out watcher after its probe. "unreplied" and "unreported": the
\* user learns nothing, or looks at "Waking..." for good.
Ended == {"declined", "unsent", "unreplied", "reported", "unreported"}
Stage == {"none", "replying", "spawned", "watching", "came_up", "timed_out", "probed"}
         \cup Ended

State == Resolve(presence, reachable, window)

\* The type of every variable.
TypeOK ==
    /\ presence \in Presence \cup {Unheard}
    /\ reachable \in Reachability
    /\ window \in {NoWindow} \cup 0..WakeTimeout
    /\ stage \in [Wakes -> Stage]
    /\ waiters \subseteq Wakes
    /\ fired \subseteq Wakes
    /\ left \in [Wakes -> 0..WakeTimeout]
    /\ appeared \subseteq Wakes

Init ==
    /\ presence = Unheard
    /\ reachable = Unprobed
    /\ window = NoWindow
    /\ stage = [w \in Wakes |-> "none"]
    /\ waiters = {}
    /\ fired = {}
    /\ left = [w \in Wakes |-> 0]
    /\ appeared = {}

Enter(w, s) == stage' = [stage EXCEPT ![w] = s]

(***************************************************************************)
(* _wake.                                                                  *)
(***************************************************************************)
NoHandler == \A w \in Wakes : stage[w] # "replying"

\* The host is online already, or the magic packet cannot be sent.
WakeDeclined(w) ==
    /\ stage[w] = "none" /\ NoHandler
    /\ \/ State = "online" /\ Enter(w, "declined")
       \/ State # "online" /\ Enter(w, "unsent")
    /\ UNCHANGED <<presence, reachable, window, waiters, fired, left, appeared>>

\* send_magic_packet and begin_wake, with no await between the check and them.
WakeSent(w) ==
    /\ stage[w] = "none" /\ NoHandler
    /\ State # "online"
    /\ window' = WakeTimeout
    /\ Enter(w, "replying")
    /\ UNCHANGED <<presence, reachable, waiters, fired, left, appeared>>

\* The reply is out and the watcher is spawned; or the reply raises TelegramError,
\* which ends the handler before there is a watcher.
Replied(w) ==
    /\ stage[w] = "replying"
    /\ Enter(w, "spawned") \/ Enter(w, "unreplied")
    /\ UNCHANGED <<presence, reachable, window, waiters, fired, left, appeared>>

(***************************************************************************)
(* _watch_wake.                                                            *)
(***************************************************************************)
\* Mutant of LeaveWatch: the event stays in the waiters.
LeaveWatchRegistered(w, result) ==
    /\ Enter(w, result)
    /\ fired' = fired \ {w}
    /\ left' = [left EXCEPT ![w] = 0]
    /\ window' = NoWindow
    /\ UNCHANGED waiters

\* The finally: take the event out of the waiters and clear the wake window. The
\* event and the timer are the watcher's own, and are gone.
LeaveWatch(w, result) ==
    /\ Enter(w, result)
    /\ waiters' = waiters \ {w}
    /\ fired' = fired \ {w}
    /\ left' = [left EXCEPT ![w] = 0]
    /\ window' = NoWindow

\* Mutant of WatchStarts: no check after the event is registered.
WatchStartsUnchecked(w) ==
    /\ stage[w] = "spawned"
    /\ Enter(w, "watching")
    /\ waiters' = waiters \cup {w}
    /\ left' = [left EXCEPT ![w] = WakeTimeout]
    /\ UNCHANGED <<presence, reachable, window, fired, appeared>>

\* The task's first step registers the event and checks once whether the host has
\* come online already; if it has not, the watcher waits.
WatchStarts(w) ==
    /\ stage[w] = "spawned"
    /\ \/ State = "online" /\ LeaveWatch(w, "came_up")
       \/ /\ State # "online"
          /\ Enter(w, "watching")
          /\ waiters' = waiters \cup {w}
          /\ left' = [left EXCEPT ![w] = WakeTimeout]
          /\ UNCHANGED <<window, fired>>
    /\ UNCHANGED <<presence, reachable, appeared>>

\* wait_for returns because the event is set.
WatchSees(w) ==
    /\ stage[w] = "watching"
    /\ w \in fired
    /\ LeaveWatch(w, "came_up")
    /\ UNCHANGED <<presence, reachable, appeared>>

\* Mutant of WatchTimesOut: the wait ends with the wake window, which the watchers of
\* overlapping wakes share.
WatchTimesOutByWindow(w) ==
    /\ stage[w] = "watching"
    /\ window <= 0
    /\ LeaveWatch(w, "timed_out")
    /\ UNCHANGED <<presence, reachable, appeared>>

\* wait_for raises TimeoutError. An event set in the same turn of the loop does
\* not help: the timeout cancels the watcher before it has resumed.
WatchTimesOut(w) ==
    /\ stage[w] = "watching"
    /\ left[w] = 0
    /\ LeaveWatch(w, "timed_out")
    /\ UNCHANGED <<presence, reachable, appeared>>

\* The probe after a timeout; without an IP it leaves `reachable` alone. An exception
\* of it ends the watcher before the edit.
WatchProbes(w) ==
    /\ stage[w] = "timed_out"
    /\ \/ reachable' \in Reachability /\ Enter(w, "probed")
       \/ reachable' = reachable /\ Enter(w, "unreported")
    /\ UNCHANGED <<presence, window, waiters, fired, left, appeared>>

\* The message is edited; or the edit fails, which is suppressed, or there is no
\* message that could be edited, and the old text stays.
WatchReports(w) ==
    /\ stage[w] \in {"came_up", "probed"}
    /\ Enter(w, "reported") \/ Enter(w, "unreported")
    /\ UNCHANGED <<presence, reachable, window, waiters, fired, left, appeared>>

(***************************************************************************)
(* The pump, the probe loop, time, and the hub process.                    *)
(***************************************************************************)
\* Mutant of HandleStatus: every change of the state sets the events.
HandleStatusAnyChange(p) ==
    LET after == WindowAfter(p, window) IN
    /\ presence' = p
    /\ window' = after
    /\ fired' = IF State # Resolve(p, reachable, after) THEN fired \cup waiters ELSE fired
    /\ appeared' = IF p = "online"
                   THEN appeared \cup {w \in Wakes : stage[w] \notin {"none"} \cup Ended}
                   ELSE appeared
    /\ UNCHANGED <<reachable, stage, waiters, left>>

\* HubMqtt._handle of a status message, and _on_state_change: a change to ONLINE
\* sets every registered event.
HandleStatus(p) ==
    LET after == WindowAfter(p, window) IN
    /\ presence' = p
    /\ window' = after
    /\ fired' = IF State # Resolve(p, reachable, after) /\ Resolve(p, reachable, after) = "online"
                THEN fired \cup waiters ELSE fired
    /\ appeared' = IF p = "online"
                   THEN appeared \cup {w \in Wakes : stage[w] \notin {"none"} \cup Ended}
                   ELSE appeared
    /\ UNCHANGED <<reachable, stage, waiters, left>>

\* _probe_loop.
ProbeLoop ==
    /\ reachable' \in Reachability
    /\ UNCHANGED <<presence, window, stage, waiters, fired, left, appeared>>

\* Mutants of Tick: a window that never stops at its end; a watcher without a timer.
TickPastTheEnd ==
    /\ window' = window - 1
    /\ left' = [w \in Wakes |->
            IF stage[w] = "watching" /\ left[w] > 0 THEN left[w] - 1 ELSE left[w]]
    /\ UNCHANGED <<presence, reachable, stage, waiters, fired, appeared>>
TickWithoutTimers ==
    /\ window' = IF window > 0 THEN window - 1 ELSE window
    /\ UNCHANGED <<presence, reachable, stage, waiters, fired, left, appeared>>

\* Time passes: the window and the timers of the watchers run down.
Tick ==
    /\ window' = IF window > 0 THEN window - 1 ELSE window
    /\ left' = [w \in Wakes |->
            IF stage[w] = "watching" /\ left[w] > 0 THEN left[w] - 1 ELSE left[w]]
    /\ UNCHANGED <<presence, reachable, stage, waiters, fired, appeared>>

\* The hub process stops and starts again: _stop_background cancels the watchers,
\* and their messages are never edited.
HubRestarts ==
    /\ presence' = Unheard
    /\ reachable' = Unprobed
    /\ window' = NoWindow
    /\ stage' = [w \in Wakes |->
            IF stage[w] \in {"none"} \cup Ended THEN stage[w] ELSE "unreported"]
    /\ waiters' = {}
    /\ fired' = {}
    /\ left' = [w \in Wakes |-> 0]
    /\ UNCHANGED appeared

WatcherStep(w) ==
    WatchStarts(w) \/ WatchSees(w) \/ WatchTimesOut(w) \/ WatchProbes(w) \/ WatchReports(w)

Next ==
    \/ \E w \in Wakes : WakeDeclined(w) \/ WakeSent(w) \/ Replied(w) \/ WatcherStep(w)
    \/ \E p \in Presence : HandleStatus(p)
    \/ ProbeLoop \/ Tick \/ HubRestarts

Spec == Init /\ [][Next]_vars

\* The event loop runs its tasks and time goes on. Nothing is assumed of the host.
FairSpec ==
    /\ Spec
    /\ WF_vars(Tick)
    /\ \A w \in Wakes : WF_vars(Replied(w)) /\ WF_vars(WatcherStep(w))

(***************************************************************************)
(* Properties.                                                             *)
(***************************************************************************)
\* A wake window is never open on a host that is online: apply_presence closes it
\* and _wake opens none, whatever the pump does during the reply to Telegram.
OnlineClosesWindow == presence = "online" => window = NoWindow

\* No wake is missed: a watcher that waits while the host is online has its event
\* set, also when the host came online during the reply or before the watcher ran.
NoMissedOnline ==
    \A w \in Wakes : stage[w] = "watching" /\ presence = "online" => w \in fired

\* The events in _online_waiters are those of the watchers that wait: none leaks
\* through a timeout, and none is taken out while its watcher waits.
WaitersAreWatching == waiters = {w \in Wakes : stage[w] = "watching"}

\* A wake is reported as successful only if the host was seen online after its
\* magic packet was sent.
SuccessIsReal == \A w \in Wakes : stage[w] = "came_up" => w \in appeared

\* A wake whose window may be open: up to the finally of its watcher, or for good
\* when its reply failed.
UnderWay(w) == stage[w] \in {"replying", "spawned", "watching", "unreplied"}
Overlapping == \E v, w \in Wakes : v # w /\ UnderWay(v) /\ UnderWay(w)

\* A wake that is alone keeps its window until the host comes online or the time is
\* up, also after earlier wakes: only one that overlaps can have it taken away.
WindowHonouredAlone ==
    [][ window > 0 /\ window' = NoWindow /\ ~Overlapping
        => presence' = "online" \/ HubRestarts ]_vars

\* An open window belongs to a wake under way, whose timer does not end before it.
WindowHasOwner ==
    window > 0 => \E w \in Wakes :
        UnderWay(w) /\ w \notin fired /\ (stage[w] = "watching" => left[w] >= window)

\* Every wake comes to its end: no watcher waits for ever, on an event that another
\* has taken or a time that another has changed, and a host does not read as "waking"
\* for good, also where the reply failed and no watcher will ever close the window. The
\* end is a report unless a call failed on the way: after a reply, probe or edit that
\* raised, or a hub that stopped, the message itself keeps saying "Waking...".
EveryWakeEnds ==
    \A w \in Wakes : stage[w] = "replying" ~> stage[w] \in Ended /\ State # "waking"

\* What a wake is to WakePromise, and for how long it has been watched.
Standing == [w \in Wakes |->
    CASE stage[w] \in {"declined", "unsent"} -> "refused"
      [] stage[w] \in {"replying", "spawned", "watching"} -> "waking"
      [] stage[w] = "unreplied" -> "unwatched"
      [] stage[w] = "came_up" -> "succeeded"
      [] stage[w] \in {"timed_out", "probed"} -> "failed"
      [] stage[w] \in {"none", "reported", "unreported"} -> stage[w]]
Watched == [w \in Wakes |-> IF stage[w] = "watching" THEN WakeTimeout - left[w] ELSE 0]

Promised == INSTANCE WakePromise WITH wake <- Standing, waited <- Watched

\* Any number of overlapping wakes, which share one wake window, one state and one list
\* of waiters, keep the promise of each: none is given up before its own time, and
\* none is called a success that was not.
KeepsWakePromise == Promised!Promise

\* state.py: "the host reads as WAKING until either it comes online or this
\* deadline passes": nothing else takes an open window away from a running hub.
WindowHonoured ==
    [][window > 0 /\ window' = NoWindow => presence' = "online" \/ HubRestarts]_vars
=============================================================================
