------------------------------ MODULE Protocol ------------------------------
(***************************************************************************)
(* The wire vocabulary that both halves of pcwake import from              *)
(* common/protocol.py: the closed set of power actions and their two       *)
(* classifications, the presence values of the status topic, and the       *)
(* acknowledgement an agent publishes.                                     *)
(***************************************************************************)

\* The four power actions; there is no other command on the wire.
Action == {"sleep", "shutdown", "restart", "lock"}

\* Action.is_destructive: the actions that need a confirmation tap.
IsDestructive(a) == a \in {"shutdown", "restart"}

\* Action.takes_host_down: the actions that end the agent's connection, whose
\* acknowledgement has to leave before the action runs.
TakesHostDown(a) == a \in {"sleep", "shutdown", "restart"}

\* The payloads of the status topic.
Presence == {"online", "offline"}

\* An acknowledgement: the id of the command it answers and its outcome.
Ack(c, ok) == [id |-> c, ok |-> ok]
=============================================================================
