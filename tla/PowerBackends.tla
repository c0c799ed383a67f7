--------------------------- MODULE PowerBackends ---------------------------
(***************************************************************************)
(* The power backends of agent/linux.py and agent/win.py over run_command  *)
(* of agent/power.py: what a call of preflight or perform can come to on a *)
(* PC with the given helper programs installed.                            *)
(*                                                                         *)
(* A call has two outcomes that need not agree: how it ends for its        *)
(* caller, and whether the operating system has taken the action. The      *)
(* dry-run backend is not represented: it takes no action.                 *)
(***************************************************************************)
EXTENDS Protocol

Platforms == {"linux", "windows"}
Helper == {"systemctl", "loginctl", "xdg-screensaver", "shutdown.exe"}

\* "returned" normally; "failed" with a PowerActionError; "raised" another
\* exception, which nothing catches.
CallOutcome == [ended : {"returned", "failed", "raised"}, took : BOOLEAN]

Succeeded == [ended |-> "returned", took |-> TRUE]
Failed == [ended |-> "failed", took |-> FALSE]

\* run_command: a helper that is missing or exits with an error fails; one that
\* has not come back after COMMAND_TIMEOUT fails too, and may have got the action
\* under way. A helper that reports success counts as one that had it: what it does
\* after that, or whether there is anything it could act on, is not run_command's to
\* know. Any other error raises: one of the operating system before the helper
\* has started, or an output that is no text after it has ended.
RunCommand(installed, helper) ==
    IF helper \in installed
    THEN {Succeeded} \cup [ended : {"failed", "raised"}, took : BOOLEAN]
    ELSE {Failed}

\* Try one helper, and the other one only if the first has failed.
OrElse(first, second) ==
    {o \in first : o.ended # "failed"}
    \cup {[ended |-> p.ended, took |-> o.took \/ p.took] :
            o \in {q \in first : q.ended = "failed"}, p \in second}

\* Mutant of CallSystem: the result is not looked at.
CallSystemUnchecked == {Succeeded, [ended |-> "returned", took |-> FALSE]}

\* Mutant of CallSystem: zero is read as success.
CallSystemInverted == {[ended |-> "failed", took |-> TRUE], [ended |-> "returned", took |-> FALSE]}

\* SetSuspendState and LockWorkStation return zero on failure.
CallSystem == {Succeeded, Failed}

\* perform(action) of the platform's backend.
Perform(platform, installed, action) ==
    CASE platform = "linux" /\ action = "lock" ->
            OrElse(RunCommand(installed, "loginctl"), RunCommand(installed, "xdg-screensaver"))
      [] platform = "linux" /\ action # "lock" -> RunCommand(installed, "systemctl")
      [] platform # "linux" /\ action \in {"sleep", "lock"} -> CallSystem
      [] OTHER -> RunCommand(installed, "shutdown.exe")

\* preflight(action): the helper that perform would need is not there.
Refuses(platform, installed, action) ==
    \/ platform = "linux" /\ action = "lock"
       /\ "loginctl" \notin installed /\ "xdg-screensaver" \notin installed
    \/ platform = "linux" /\ action # "lock" /\ "systemctl" \notin installed
    \/ platform = "windows" /\ action \in {"shutdown", "restart"}
       /\ "shutdown.exe" \notin installed

\* What the two calls can come to, whatever is installed when they are made.
PerformOutcomes(platform, action) ==
    UNION {Perform(platform, installed, action) : installed \in SUBSET Helper}
PreflightOutcomes(platform, action) ==
    {~Refuses(platform, installed, action) : installed \in SUBSET Helper}
=============================================================================
