--------------------------- MODULE MCCommandPath ---------------------------
(***************************************************************************)
(* CommandPath on small sets of commands for TLC.                          *)
(***************************************************************************)
EXTENDS CommandPath, TLC

CONSTANTS c1, c2

\* A lock, which is acknowledged after it is performed, and a sleep, which
\* is acknowledged before.
LockAndSleep == (c1 :> "lock") @@ (c2 :> "sleep")

\* One command, for the runs on liveness and on single statements.
OneShutdown == c1 :> "shutdown"
OneSleep == c1 :> "sleep"
OneLock == c1 :> "lock"
=============================================================================
