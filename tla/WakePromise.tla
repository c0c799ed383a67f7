---------------------------- MODULE WakePromise ----------------------------
(***************************************************************************)
(* What pcwake promises about a /wake, with no watcher, event, probe or    *)
(* shared wake window in sight: a wake is given up only after its own      *)
(* WakeTimeout, never sooner because of another wake of the same host; it  *)
(* is called a success only if the host was seen online during it; and a   *)
(* result that has been reached is not changed.                            *)
(***************************************************************************)
EXTENDS Naturals

CONSTANTS Wakes, WakeTimeout

VARIABLES
    wake,     \* where each wake stands
    waited,   \* how long each wake under way has been watched
    appeared  \* the wakes during which the host was seen online

promiseVars == <<wake, waited, appeared>>

\* "unwatched": nobody will tell the outcome, for the first reply failed;
\* "unreported": nobody will, for the report failed or the hub has stopped.
Init ==
    /\ wake = [w \in Wakes |-> "none"]
    /\ waited = [w \in Wakes |-> 0]
    /\ appeared = {}

Become(w, s) == wake' = [wake EXCEPT ![w] = s]

\* No packet is sent.
Refuse(w) == wake[w] = "none" /\ Become(w, "refused") /\ UNCHANGED <<waited, appeared>>

\* The packet is sent.
Begin(w) == wake[w] = "none" /\ Become(w, "waking") /\ UNCHANGED <<waited, appeared>>

\* The user does not learn of it, which is known before the watching starts.
GoUnwatched(w) ==
    /\ wake[w] = "waking" /\ waited[w] = 0
    /\ Become(w, "unwatched")
    /\ UNCHANGED <<waited, appeared>>

\* The host is seen online, by every wake that has begun and not ended.
Appears ==
    /\ appeared' = appeared \cup {w \in Wakes : wake[w] \in {"waking", "succeeded", "failed"}}
    /\ UNCHANGED <<wake, waited>>

\* Time passes, for some of the wakes under way.
Wait ==
    /\ waited' \in [Wakes -> 0..WakeTimeout]
    /\ \A w \in Wakes : waited'[w] # waited[w] => wake[w] = "waking" /\ waited'[w] = waited[w] + 1
    /\ UNCHANGED <<wake, appeared>>

Succeed(w) ==
    /\ wake[w] = "waking" /\ w \in appeared
    /\ Become(w, "succeeded")
    /\ waited' = [waited EXCEPT ![w] = 0]
    /\ UNCHANGED appeared

GiveUp(w) ==
    /\ wake[w] = "waking" /\ waited[w] = WakeTimeout
    /\ Become(w, "failed")
    /\ waited' = [waited EXCEPT ![w] = 0]
    /\ UNCHANGED appeared

\* The user is told the result, or the attempt fails.
Report(w) ==
    /\ wake[w] \in {"succeeded", "failed"}
    /\ Become(w, "reported") \/ Become(w, "unreported")
    /\ UNCHANGED <<waited, appeared>>

\* The hub stops, and with it every wake that has not ended.
Stop ==
    /\ wake' = [w \in Wakes |->
            IF wake[w] \in {"waking", "succeeded", "failed"} THEN "unreported" ELSE wake[w]]
    /\ waited' = [w \in Wakes |-> 0]
    /\ UNCHANGED appeared

Next ==
    \/ \E w \in Wakes :
        Refuse(w) \/ Begin(w) \/ GoUnwatched(w) \/ Succeed(w) \/ GiveUp(w) \/ Report(w)
    \/ Appears \/ Wait \/ Stop

Promise == Init /\ [][Next]_promiseVars
=============================================================================
