---------------------------- MODULE HostStatus ----------------------------
(***************************************************************************)
(* HostStatus of hub/state.py: the three signals the hub has about a host  *)
(* and the one state they are folded into. Deadlines are kept as the time  *)
(* that is left, so that they need no clock.                               *)
(***************************************************************************)
EXTENDS Protocol, Integers

\* HostState: what the user is shown.
HostState == {"online", "waking", "agent_down", "offline", "unknown"}

\* The status topic was never heard of, and there is no probe result.
Unheard == "unheard"
Unprobed == "unprobed"
Reachability == {"yes", "no", Unprobed}

\* wake_deadline is None; otherwise the time left until it, 0 once it has passed.
NoWindow == -1

\* Mutant of Resolve: the last will is believed before the probe.
ResolveByWill(presence, reachable, window) ==
    CASE presence = "online" -> "online"
      [] presence # "online" /\ window > 0 -> "waking"
      [] presence = "offline" /\ window <= 0 -> "offline"
      [] OTHER -> "unknown"

\* HostStatus.resolve: a live agent outranks everything, then a wake in flight,
\* then the probe, then the last will.
Resolve(presence, reachable, window) ==
    CASE presence = "online" -> "online"
      [] presence # "online" /\ window > 0 -> "waking"
      [] presence # "online" /\ window <= 0 /\ reachable = "yes" -> "agent_down"
      [] presence # "online" /\ window <= 0 /\ reachable = "no" -> "offline"
      [] presence = "offline" /\ window <= 0 /\ reachable = Unprobed -> "offline"
      [] OTHER -> "unknown"

\* HostState.accepts_commands.
AcceptsCommands(state) == state = "online"

\* Mutants of WindowAfter: coming online leaves the window open; any status closes it.
WindowKept(presence, window) == window
WindowClosed(presence, window) == NoWindow

\* HostStatus.apply_presence: coming online also closes the wake window.
WindowAfter(presence, window) == IF presence = "online" THEN NoWindow ELSE window
=============================================================================
