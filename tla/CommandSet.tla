---------------------------- MODULE CommandSet ----------------------------
(***************************************************************************)
(* The commands of a behaviour. A Command is an id and an action, fixed    *)
(* when it is built; new_command_id never repeats an id, so the id alone   *)
(* names the command and its action is a function of the id.               *)
(***************************************************************************)
EXTENDS Protocol

CONSTANTS Commands,   \* the ids of the commands
          NoCommand,  \* no command: no handler runs, or no thread holds the lock
          ActionOf    \* the action each command asks for

ASSUME NoCommandAssumption == NoCommand \notin Commands
ASSUME ActionOfAssumption == ActionOf \in [Commands -> Action]

Acks == {Ack(c, ok) : c \in Commands, ok \in BOOLEAN}
=============================================================================
