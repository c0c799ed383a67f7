-------------------------- MODULE CommandPromise --------------------------
(***************************************************************************)
(* What pcwake promises about a power command, with no network, no session *)
(* and no thread in sight: a command is asked for once; the agent says yes *)
(* or no to it; it is performed at most once, never after a no, and, when  *)
(* it takes the host down, only after a yes; and whoever asked is told one *)
(* outcome, which is a yes or a no only if the agent said so, or nothing   *)
(* where the reply fails or the hub stops.                                 *)
(***************************************************************************)
EXTENDS CommandSet, Naturals

VARIABLES
    asked,     \* the commands that may have left the hub
    said,      \* the acknowledgements the agent has given
    performed, \* how often each command was performed
    told       \* the outcome shown to the user, "silent" if none could be

promiseVars == <<asked, said, performed, told>>

Init ==
    /\ asked = {}
    /\ said = {}
    /\ performed = [c \in Commands |-> 0]
    /\ told = [c \in Commands |-> "none"]

\* The command leaves the hub.
Ask(c) ==
    /\ c \notin asked
    /\ told[c] = "none"
    /\ asked' = asked \cup {c}
    /\ UNCHANGED <<said, performed, told>>

\* The hub will not or cannot send the command.
Decline(c, outcome) ==
    /\ c \notin asked
    /\ told[c] = "none"
    /\ told' = [told EXCEPT ![c] = outcome]
    /\ asked' = IF outcome = "unavailable" THEN asked ELSE asked \cup {c}
    /\ UNCHANGED <<said, performed>>

\* A yes before the action, a no instead of it.
Say(c, ok) ==
    /\ c \in asked
    /\ performed[c] = 0
    /\ ok => TakesHostDown(ActionOf[c]) /\ Ack(c, FALSE) \notin said
    /\ said' = said \cup {Ack(c, ok)}
    /\ UNCHANGED <<asked, performed, told>>

\* An action that takes the host down follows its yes, and a no may come with it
\* that is mistaken. A lock comes with its yes, a mistaken no, or nothing.
Perform(c) ==
    /\ c \in asked
    /\ performed[c] = 0
    /\ Ack(c, FALSE) \notin said
    /\ TakesHostDown(ActionOf[c]) => Ack(c, TRUE) \in said
    /\ performed' = [performed EXCEPT ![c] = 1]
    /\ \/ said' = said
       \/ said' = said \cup {Ack(c, FALSE)}
       \/ ~TakesHostDown(ActionOf[c]) /\ said' = said \cup {Ack(c, TRUE)}
    /\ UNCHANGED <<asked, told>>

Tell(c, outcome) ==
    /\ c \in asked
    /\ told[c] = "none"
    /\ outcome = "acked" => Ack(c, TRUE) \in said
    /\ outcome = "refused" => Ack(c, FALSE) \in said
    /\ told' = [told EXCEPT ![c] = outcome]
    /\ UNCHANGED <<asked, said, performed>>

Next == \E c \in Commands :
    \/ Ask(c)
    \/ \E outcome \in {"unavailable", "not_sent", "silent"} : Decline(c, outcome)
    \/ \E ok \in BOOLEAN : Say(c, ok)
    \/ Perform(c)
    \/ \E outcome \in {"not_sent", "timeout", "acked", "refused", "silent"} : Tell(c, outcome)

Promise == Init /\ [][Next]_promiseVars

\* What the promise comes to in every state: a command is performed at most once, a
\* lock that was said yes to was performed, an action that takes the host down was said
\* yes to, and whoever asked was told the truth about that.
Kept == \A c \in Commands :
    /\ performed[c] <= 1
    /\ performed[c] = 1 /\ TakesHostDown(ActionOf[c]) => Ack(c, TRUE) \in said
    /\ Ack(c, TRUE) \in said /\ ~TakesHostDown(ActionOf[c]) => performed[c] = 1
    /\ told[c] = "acked" => Ack(c, TRUE) \in said
    /\ told[c] = "refused" => Ack(c, FALSE) \in said
    /\ told[c] = "unavailable" => performed[c] = 0 /\ \A ok \in BOOLEAN : Ack(c, ok) \notin said

\* What it comes to in every step: nothing is performed after a no, nothing that was
\* said or told is taken back.
KeptByStep ==
    [][\A c \in Commands :
        /\ performed'[c] # performed[c] => Ack(c, FALSE) \notin said /\ told[c] # "unavailable"
        /\ \A ok \in BOOLEAN : Ack(c, ok) \in said => Ack(c, ok) \in said'
        /\ told[c] # "none" => told'[c] = told[c]]_promiseVars

\* Whoever asked is told in the end, or the reply fails; nobody waits for ever.
Answers == \A c \in Commands :
    WF_promiseVars(\E outcome \in {"not_sent", "timeout", "silent"} : Tell(c, outcome))
FairPromise == Promise /\ Answers
=============================================================================
