------------------------------- MODULE BotUI -------------------------------
(***************************************************************************)
(* The Telegram side of PcWakeBot: which update leads to which handler,    *)
(* what each handler shows, and when a power command is run.               *)
(*                                                                         *)
(* The bot keeps no conversation. All it knows of an earlier step is in    *)
(* the callback data of the buttons it has put on the screen, and a screen *)
(* outlives everything: a button of an old message can be tapped again     *)
(* while a handler runs, after the host has changed its state, and after   *)
(* the hub was restarted with another configuration.                       *)
(*                                                                         *)
(* Updates are handled one at a time, in the order Telegram has them, and  *)
(* wait at Telegram while the hub is down. A message that is not sent or   *)
(* not edited (TelegramError) leaves the screen as it was.                 *)
(***************************************************************************)
EXTENDS Protocol, Naturals, Sequences

CONSTANTS Chats,     \* the chats that write to the bot
          Hosts,     \* the host names that were ever configured
          Messages,  \* the bot's messages that have ever had buttons
          Actions,   \* the power actions that are asked for
          NoMessage, \* an update that is not a tap on a message
          NoHost,    \* a command or a button that names no host
          MaxQueue   \* a bound on the updates that wait

ASSUME ActionsAssumption == Actions \subseteq Action
ASSUME SentinelAssumption == NoMessage \notin Messages /\ NoHost \notin Hosts
ASSUME MaxQueueAssumption == MaxQueue \in Nat \ {0}

VARIABLES
    allowed, \* telegram.allowed_chat_ids of the running hub
    hosts,   \* its configured hosts
    default, \* the first of them
    online,  \* the hosts that resolve to ONLINE
    screen,  \* what each message shows
    waking,  \* the messages that a wake watcher will edit, with their host
    updates, \* the updates not done with, at Telegram or in the bot
    running, \* whether _run_command is at work on the first of them
    asked    \* every question that was ever on a screen

configVars == <<allowed, hosts, default>>
vars == <<configVars, online, screen, waking, updates, running, asked>>

\* A message's face: "plain" has no buttons, "power" and "wake" are the two
\* keyboards of _keyboard, "confirm" is the question before a destructive action.
Nothing == "nothing"
Face == [kind : {"plain", "power", "wake", "confirm"}, chat : Chats,
         host : Hosts \cup {NoHost}, action : Actions \cup {Nothing}]
Unused == [kind |-> "unused"]

\* What a user can send: a slash command, or one of the buttons by its callback
\* data, a|host|action, y|host|action, w|host, s|host or n.
Typed == {"/power", "/status", "/wake"}
Tapped == {"a", "y", "w", "s", "n"}
Update == [kind : Typed \cup Tapped, chat : Chats, host : Hosts \cup {NoHost},
           action : Actions \cup {Nothing}, message : Messages \cup {NoMessage}]

\* The type of every variable; the default is always one of the hosts.
TypeOK ==
    /\ allowed \subseteq Chats
    /\ hosts \subseteq Hosts
    /\ default \in hosts
    /\ online \subseteq Hosts
    /\ screen \in [Messages -> Face \cup {Unused}]
    /\ waking \subseteq Messages \X Hosts
    /\ updates \in Seq(Update)
    /\ running \in BOOLEAN
    /\ asked \subseteq Chats \X Hosts \X Actions

\* Mutant of Configured: the default of the previous configuration is kept.
ConfiguredKeepingDefault(chats, names, first) ==
    chats \subseteq Chats /\ names \in (SUBSET Hosts) \ {{}} /\ first \in Hosts

\* A configuration that load_hub_config accepts. Chats other than the modelled ones
\* may be configured besides.
Configured(chats, names, first) ==
    chats \subseteq Chats /\ names \in (SUBSET Hosts) \ {{}} /\ first \in names

Init ==
    /\ \E chats \in SUBSET Chats, names \in SUBSET Hosts, first \in Hosts :
          /\ Configured(chats, names, first)
          /\ allowed = chats /\ hosts = names /\ default = first
    /\ online = {}
    /\ screen = [m \in Messages |-> Unused]
    /\ waking = {}
    /\ updates = <<>>
    /\ running = FALSE
    /\ asked = {}

(***************************************************************************)
(* Faces and buttons.                                                      *)
(***************************************************************************)
Plain(chat) == [kind |-> "plain", chat |-> chat, host |-> NoHost, action |-> Nothing]

\* _status_text with _keyboard: the buttons fit the state at this moment.
Keyboard(chat, h) == [kind |-> IF h \in online THEN "power" ELSE "wake",
                      chat |-> chat, host |-> h, action |-> Nothing]

\* _ask_confirm, and the same keyboard in _command_from_message.
Question(chat, h, a) == [kind |-> "confirm", chat |-> chat, host |-> h, action |-> a]

Data(kind, h, a) == [kind |-> kind, host |-> h, action |-> a]

\* The callback data of the buttons of a face.
Buttons(face) ==
    CASE face.kind = "power" -> {Data("a", face.host, a) : a \in Actions} \cup {Data("s", face.host, Nothing)}
      [] face.kind = "wake" -> {Data("w", face.host, Nothing), Data("s", face.host, Nothing)}
      [] face.kind = "confirm" -> {Data("y", face.host, face.action), Data("n", NoHost, Nothing)}
      [] OTHER -> {}

\* A message gets a face. A question is asked once it is on a screen.
Show(m, face) ==
    /\ screen' = [screen EXCEPT ![m] = face]
    /\ asked' = IF face.kind = "confirm"
                THEN asked \cup {<<face.chat, face.host, face.action>>} ELSE asked

\* Telegram refuses, or the reply is a new message that never gets a button.
NotShown == UNCHANGED <<screen, asked>>

(***************************************************************************)
(* The users.                                                              *)
(***************************************************************************)
Send(u) ==
    /\ Len(updates) < MaxQueue
    /\ updates' = Append(updates, u)
    /\ UNCHANGED <<configVars, online, screen, waking, running, asked>>

UserTypes(chat) == \E kind \in Typed, h \in Hosts \cup {NoHost}, a \in Actions :
    Send([kind |-> kind, chat |-> chat, host |-> h,
          action |-> IF kind = "/power" THEN a ELSE Nothing, message |-> NoMessage])

UserTaps(m) == \E b \in Buttons(screen[m]) :
    Send([kind |-> b.kind, chat |-> screen[m].chat, host |-> b.host,
          action |-> b.action, message |-> m])

(***************************************************************************)
(* The handlers.                                                           *)
(***************************************************************************)
\* The update that is handled. _resolve_host fills in the default host.
Current == Head(updates)
Host == IF Current.host = NoHost THEN default ELSE Current.host

\* The messages a handler can answer in: the one that was tapped, or a new one.
Place == IF Current.message # NoMessage THEN {Current.message}
         ELSE {m \in Messages : screen[m] = Unused}

\* `respond`: edit_message_text of a button, reply_text of a command.
Respond(face) == NotShown \/ \E m \in Place : Show(m, face)

\* Mutant of Authorized: only the commands are filtered.
AuthorizedTyped == Current.kind \in Typed => Current.chat \in allowed

\* filters.Chat on every command, and the check in on_button.
Authorized == Current.chat \in allowed

\* Mutant of KnownHost: whatever the button names.
AnyHost == Host \in Hosts

\* _resolve_host of a command, host_by_name of a button.
KnownHost == Host \in hosts

\* An update of these kinds is next and no handler is at work.
Takes(kinds) == updates # <<>> /\ ~running /\ Current.kind \in kinds

\* The handler ends, and what it never touches.
Done ==
    /\ updates' = Tail(updates)
    /\ running' = FALSE
    /\ UNCHANGED <<configVars, online>>

\* A chat that is not allowed is not answered.
Ignored ==
    /\ Takes(Typed \cup Tapped) /\ ~Authorized
    /\ NotShown
    /\ Done /\ UNCHANGED waking

\* query.answer() raises, as for a tap that is too old: on_button has done nothing.
AnswerFails ==
    /\ Takes(Tapped)
    /\ NotShown
    /\ Done /\ UNCHANGED waking

\* "Unknown host", or "That host is no longer configured".
UnknownHost ==
    /\ Takes((Typed \cup Tapped) \ {"n"}) /\ Authorized /\ ~KnownHost
    /\ Respond(Plain(Current.chat))
    /\ Done /\ UNCHANGED waking

Cancelled ==
    /\ Takes({"n"}) /\ Authorized
    /\ Respond(Plain(Current.chat))
    /\ Done /\ UNCHANGED waking

\* cmd_status, and the Refresh button.
ShowsStatus ==
    /\ Takes({"/status", "s"}) /\ Authorized /\ KnownHost
    /\ Respond(Keyboard(Current.chat, Host))
    /\ Done /\ UNCHANGED waking

\* _wake without a watcher: the host is online already, no packet could be sent, or
\* the "Waking" message was refused.
WakesNot ==
    /\ Takes({"/wake", "w"}) /\ Authorized /\ KnownHost
    /\ Respond(Plain(Current.chat))
    /\ Done /\ UNCHANGED waking

\* The packet is sent, and the "Waking" message gets a watcher.
Wakes ==
    /\ Takes({"/wake", "w"}) /\ Authorized /\ KnownHost
    /\ Host \notin online
    /\ \E m \in Place : Show(m, Plain(Current.chat)) /\ waking' = waking \cup {<<m, Host>>}
    /\ Done

\* _watch_wake ends: the message gets the keyboard of its host. Two watchers of one
\* message and host share an entry, which stays until the last of them.
WakeReported(m, h) ==
    /\ <<m, h>> \in waking
    /\ waking' \in {waking, waking \ {<<m, h>>}}
    /\ NotShown \/ Show(m, Keyboard(screen[m].chat, h))
    /\ UNCHANGED <<configVars, online, updates, running>>

\* A destructive action asks first.
Asks ==
    /\ Takes({"/power", "a"}) /\ Authorized /\ KnownHost
    /\ IsDestructive(Current.action)
    /\ Respond(Question(Current.chat, Host, Current.action))
    /\ Done /\ UNCHANGED waking

\* Mutant of Confirmed: a destructive action needs no question.
ConfirmedAlways == TRUE

\* Any other action runs at once, and so does a "Yes".
Confirmed == Current.kind = "y" \/ ~IsDestructive(Current.action)

\* _run_command evaluates the state again, whatever the button was made for.
Refused ==
    /\ Takes({"/power", "a", "y"}) /\ Authorized /\ KnownHost /\ Confirmed
    /\ Host \notin online
    /\ Respond(Plain(Current.chat))
    /\ Done /\ UNCHANGED waking

Runs ==
    /\ Takes({"/power", "a", "y"}) /\ Authorized /\ KnownHost /\ Confirmed
    /\ Host \in online
    /\ running' = TRUE
    /\ UNCHANGED <<configVars, online, screen, waking, updates, asked>>

\* _run_command reports, in whatever way it ended.
RunEnds ==
    /\ running
    /\ Respond(Plain(Current.chat))
    /\ Done /\ UNCHANGED waking

(***************************************************************************)
(* The hosts and the hub process.                                          *)
(***************************************************************************)
HostChanges(h) ==
    /\ online' = IF h \in online THEN online \ {h} ELSE online \cup {h}
    /\ UNCHANGED <<configVars, screen, waking, updates, running, asked>>

\* The hub stops or is killed, and starts with any configuration. What it had
\* fetched and confirmed to Telegram is lost, what it had not confirmed comes
\* again, the update at work included. The screens stay.
HubRestarts ==
    /\ \E chats \in SUBSET Chats, names \in SUBSET Hosts, first \in Hosts :
          /\ Configured(chats, names, first)
          /\ allowed' = chats /\ hosts' = names /\ default' = first
    /\ \E k \in 0..Len(updates) : updates' = SubSeq(updates, k + 1, Len(updates))
    /\ online' = {}
    /\ waking' = {}
    /\ running' = FALSE
    /\ UNCHANGED <<screen, asked>>

HandlerStep ==
    \/ Ignored \/ AnswerFails \/ UnknownHost \/ Cancelled \/ ShowsStatus
    \/ WakesNot \/ Wakes \/ Asks \/ Refused \/ Runs \/ RunEnds

Next ==
    \/ \E chat \in Chats : UserTypes(chat)
    \/ \E m \in Messages : UserTaps(m)
    \/ \E m \in Messages, h \in Hosts : WakeReported(m, h)
    \/ HandlerStep
    \/ \E h \in Hosts : HostChanges(h)
    \/ HubRestarts

Spec == Init /\ [][Next]_vars

(***************************************************************************)
(* Properties.                                                             *)
(***************************************************************************)
\* A shutdown or a restart runs only when the very chat has been shown the question
\* about this host and this action (bot.py:405-411, 448-468): neither a stale
\* button, nor another default host after a restart, nor an update that Telegram
\* delivers again can get past the question.
ConfirmedFirst ==
    running /\ IsDestructive(Current.action) => <<Current.chat, Host, Current.action>> \in asked

\* A command that runs comes from a chat and goes to a host of the configuration
\* that is in force now, however old the button that was tapped (bot.py:379-397).
WithinConfiguration ==
    running => Current.chat \in allowed /\ Host \in hosts

\* Whatever a message is made to show, it is shown to a chat that is allowed and
\* speaks of a host that is configured at that moment: this goes for the answer to an
\* old button and for the edit of a wake watcher, which comes WAKE_TIMEOUT after the
\* checks of the update that started it (bot.py:570-616).
AnswersWithinConfiguration ==
    [][\A m \in Messages : screen'[m] # screen[m] =>
          screen'[m].chat \in allowed /\ screen'[m].host \in hosts \cup {NoHost}]_vars
=============================================================================
