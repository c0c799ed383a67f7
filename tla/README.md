# PC-wakeup in TLA+

PC-wakeup (`pcwake`) wakes and controls a PC from a Telegram chat. A **hub** on an
always-on Pi runs the Telegram bot and a client of a Mosquitto broker beside it; an
**agent** on each PC is another client of that broker. This directory holds TLA+
modules translated from `src/src/pcwake`, TLC configurations that check them on
small instances, and TLAPS proofs for every value of the constants.
Paths below are relative to `src/src/pcwake` unless they start with `docs/`.

## 1. The system

| Component | State | Operations | What is hard | What makes it correct | Where |
|---|---|---|---|---|---|
| Wire protocol, `common/protocol.py` | none | four actions, their two classifications, acks, command ids | the classification decides the order of acting and acknowledging | the tables themselves | `Protocol`, `CommandSet` |
| Hub command handler, `hub/bot.py` `_run_command`, `hub/state.py` `PendingAcks` | the future per command id | gate, register, publish, await, report | three awaits on a loop shared with the message pump; two timeouts | one truthful outcome, no waiter lost or leaked | `HubCommands` |
| Hub broker session, `hub/mqtt.py` | `_connected`, subscriptions | connect, subscribe, pump, publish, reconnect | "connected" before subscribed; PUBACK lost; a delay that only grows | every answer reaches the handler that waits; a stale presence has an end | `HubCommands`, `CommandPath`, `Presence`, `HubLink` |
| Agent executor, `agent/client.py` `_on_message`, `_execute` | threads, `_lock`, paho's outbox | perform then ack, ack then perform | threads, exceptions in threads, suspend in the middle of a call, the process being killed by its own action | at most one action at a time, at most once, never after a refusal | `AgentExecutor` |
| Agent presence, `agent/client.py` `_on_connect`, `stop` | connection, last will, retained topic | online, offline, will | takeovers, half-open connections, broker crash | the topic does not lie for good | `Presence` |
| Host status and wake, `hub/state.py` `HostStatus`, `hub/bot.py` `_wake`, `_watch_wake` | presence, reachability, wake deadline, waiter events | apply_presence, resolve, wake, watch | overlapping wakes on one deadline; state read before and used after an await | no wake missed, none falsely reported | `HostStatus`, `WakeWatch` |
| Chat interface, `hub/bot.py` handlers | none: callback data of old messages | commands, buttons, confirmation | taps of any age, restarts with another configuration, redelivered updates | nothing destructive unasked, nothing outside the configuration | `BotUI` |
| Probe, `hub/probe.py`, `_probe_loop` | `reachable` | ping each host | overlapping probes write out of order; a ping that ends as it is killed; a probe that raises | a wrong result does not last | `Probe`, and with the session `HubView` |
| Power backends, `agent/power.py`, `linux.py`, `win.py` | none | preflight, perform | helper timeouts after the action has begun; exceptions that are no `PowerActionError` | the outcome reported is the one that happened | `PowerBackends` |
| Configuration, `common/config.py` | none after start | load | - | what it guarantees of a configuration | an operator of `BotUI` |
| wol, doctor, logging, argument parsing | none | formatting, one datagram, reports | - | - | not modelled |

The hub's handlers, its message pump, its probe loop and its wake watchers are
coroutines of one event loop: a step of a model is the code between two awaits.
Hub and agent share nothing but the broker; the agent's paho thread and its command
threads share the lock and the client. Mosquitto, Telegram, the network and the
operating systems are external and are modelled from how the code relies on them:
they may drop, delay and, where QoS 1 allows it, duplicate.

## 2. The modules

* **`Protocol`, `CommandSet`**: the actions, `IsDestructive`, `TakesHostDown`,
  acknowledgements, and the set of commands with their actions.
* **`HubCommands`**: `_run_command` and `PendingAcks` beside the session of
  `HubMqtt`. One action per stretch between awaits: `RefuseUnavailable` (the gate),
  `Issue` (register, then publish), `PublishConfirmed`, `PublishFails`,
  `AnswerArrives`, `AnswerTimesOut`; the session goes `down`, `connected`, `ack`,
  `pumping` as `_session` subscribes. Alone, it faces a broker that may do anything. `Tell` is the reply to the user:
  an outcome, or `silent` where Telegram refuses it and the handler ends in `on_error`, which only logs, or where the hub stops.
* **`PowerBackends`**: what `preflight` and `perform` of the Linux and the Windows backend can come to, as sets
  of outcomes over `run_command`. An outcome says how the call ends (returned, failed with a
  `PowerActionError`, raised something else) and, separately, whether the operating system has taken the action:
  after a helper's timeout the two need not agree. Helpers may be installed or not, and come and go between the two calls.
* **`AgentExecutor`**: one thread per command through `queued` (waiting for the
  lock), `performing` or `preflighting`, `flushing` (waiting for the ack to leave),
  `reporting`, and out; and the machine below it, which suspends in the middle of a
  call, resumes, goes down, or has its power change vetoed. Its preflight and perform take an outcome of
  `PowerBackends` for the agent's `Platform`.
* **`CommandPath`**: the two composed with the broker: `uplink`, `accepted` (PUBACK on
  its way), `inbox`, `downlink`. Commands are not retained and the agent's session is
  clean, so a command for an absent agent is dropped; acknowledgements come twice
  when their PUBACK is lost.
* **`CommandPromise`**: what a user is promised about a command with no network in
  sight. `CommandPath` implements it under `asked <- what has left the hub`,
  `said <- published`. `Kept` and `KeptByStep` say what the promise comes to in every state and in every step.
* **`HostStatus`, `WakeWatch`**: `resolve()` and `apply_presence()` as operators over
  presence, reachability and the wake window; `_wake`, any number of watchers, the
  pump and the probe loop as actions. Time is counted in ticks towards
  `WakeTimeout`, the deadline and each watcher's `wait_for` separately.
* **`WakePromise`**: what a `/wake` is to a user, with no watcher, event, probe or shared window: given up only
  after its own `WakeTimeout`, a success only if the host was seen online during it; its report may fail (`unreported`). `WakeWatch` implements it
  under `Standing` (what each stage comes to) and `Watched` (how far a watcher's own timer has run).
* **`Probe`**: one host's `reachable` and everybody who writes it: the loop, the handler of a `/status` or button,
  and wake watchers. A prober is `idle`, `pinging` or `reaping` (it has killed its ping and waits for the
  process). Whether the one packet is answered is settled when the ping starts, so its result can be
  outdated when it is written. A host may have no ip (`hasIp`): then `_probe` returns at once (`NothingToPing`) and nothing is learnt of it. The sweep over the other hosts is the interval `0..OtherHosts` that is added to the loop's sleep.
* **`HubLink`**: `HubMqtt.run` with its reconnect delay and what the hub believes of one status topic: `asleep`,
  `connecting`, `hanging` (an attempt that the broker does not answer), `live`, `dead` (lost, and not noticed yet).
* **`HubView`**: the two composed by `HostStatus.resolve`, outside a wake, with a clock that stands still while the hub's
  event loop has something to do, and `calm`, the time since host, agent, broker, network, hub or a ping was last disturbed.
* **`Presence`**: any number of agents under one host name, the connection the broker
  holds, its will, the unread packets on it, the retained message, what is saved on
  disk, and the hub's feed.
* **`BotUI`**: users, the queue of updates, the faces of messages, the handlers of
  commands and buttons, and a hub that restarts with another configuration. The
  update a command runs for stays at the head of the queue until it ends, because
  that is what Telegram may deliver again after a crash.
* **`MC...`** modules give the constants their values.
* **`...Proofs`** modules hold the theorems (section 5).

Operators with a comment "Mutant of X" are plausible mistakes in X (a missing check,
a swapped order, a missing reset). No specification uses them; each is there to be put
in the place of X, and then breaks a property: that is how we know that the property
looks at the code it claims to look at.

## 3. The runs

| Run | What it asks | Bounds |
|---|---|---|
| `command_path` | the safety of a command: one truthful outcome, a yes that is performed or corrected, a native backend's no that is true, threads that only move on; the refinement of `CommandPromise` | two commands, a lock and a sleep, on Windows; one acknowledgement in the hub's queue |
| `command_answered` | nothing performed after a refusal of preflight; every handler ends, with its outcome on the screen unless Telegram refuses it; every thread comes to its end and the lock comes free; `CommandPromise` with its fairness | one sleep, on Linux; two acknowledgements queued |
| `command_not_sent`, `command_yes_kept`, `command_answer_discarded` | statements of the code's comments that do not hold (section 6) | one shutdown |
| `command_refused` | the documented accuracy of a lock's acknowledgement (does not hold) | one lock, on Linux |
| `wake_watch` | no wake missed, none falsely reported, no event leaked, no window left open; every wake comes to its end and no host reads as waking for good; a wake that is alone keeps its window; each keeps the promise of `WakePromise` | three wakes, a timeout of one tick |
| `wake_overlap` | the window of a wake beside another one (does not hold) | two wakes |
| `presence` | the topic does not lie for good, the hub follows it and believes the truth about the host that is there; safety and liveness | two agents, two messages queued for the hub |
| `presence_sleep` | the documented parting "offline" of a sleep (does not hold) | one agent |
| `hub_view` | how long presence, reachability and the shown state can be wrong, for a host with an ip and one without | loop, handler and one watcher; loop sleep 1, ping 1, other hosts 0..1, delays 1 and 2, keepalive and connection attempt 1 |
| `bot_ui` | nothing destructive unasked; nothing done, and nothing answered, outside the configuration in force | one chat that may or may not be allowed, two hosts, one message, a lock and a shutdown, two updates |

Why these bounds are enough to be interesting. A lock and a sleep are one action of each
order of acting and acknowledging, and two threads are enough to compete for the lock;
commands do not know of one another otherwise. One acknowledgement in the queue suffices for
a duplicate, because the copy can be sent after the original was read. The hazards of the
wakes are between two of them (one ends while another opens its window or waits); the third
makes the event list hold more than the two. `command_path` runs the Windows backends, whose
lock and sleep either succeed or fail: with the outcomes of the Linux helpers two commands are too
many states for a run of minutes. These outcomes are in `command_answered` and
`command_refused`, and the proofs are for either platform. In `hub_view` three probers are enough for
an outdated result to be written between two others, and two delays for one that has reached its limit; both
lags are tight there: with either of them shorter by one tick TLC finds a violation. Two agents are enough for one to take the
connection from the other, and for a will to come after the newer connection. In `bot_ui` one message is
enough for a stale button, since every face it had can have left a tap in the queue; its
two hosts make the default matter. What holds for every size is proved (section 5).

`Commands`, `Wakes`, `Agents`, `Chats`, `Hosts`, `Messages` are the populations of one behaviour;
`MaxDownlink`, `MaxFeed`, `MaxQueue` bound queues that are unbounded in the code. No run
turns the check for deadlock off: every model has an environment that can always move.

`WakeTimeout`, `ProbeInterval`, `PingTimeout`, `OtherHosts`, `ReconnectMin`, `ReconnectMax`, `Keepalive` and
`ConnectTimeout` are times of the code in ticks, and `MaxCalm` stops the count of calm when both lags are over.

## 4. Fairness

* `HandlerFairness` (`CommandPath`): the two timeouts of the command handler, and nothing
  else. They are timers of the hub's event loop (aiomqtt's PUBACK wait at bot.py:507,
  `wait_for` at bot.py:515), so they fire whatever broker, network and agent do. The network
  is not assumed to be fair to anyone.
* `ThreadFairness` (`CommandPath`): a thread of the agent that can step does. The waits in it have timeouts
  (`ACK_FLUSH_TIMEOUT`, `COMMAND_TIMEOUT`) or end with the resume; `CommandFinishes` lets a thread stay for as long as the PC does not
  come up again. It also says that a thread gives the lock back, by whichever exception, suspend or kill it ends: a lock
  that is kept would stop every later command, and the one command of `command_answered` suffices to see it.
* `hub_view` needs no fairness: its properties are bounds. Instead `Tick` is disabled while a timer has run out, a
  message is there to be handled or a healthy PC's answer is due, which is an event loop that is never late (it has no
  blocking call: ping, broker and Telegram are awaited). A loop that is late by some time adds it to the lags.
* `FairSpec` of `WakeWatch`: time passes, Telegram's reply comes or fails, and a watcher that
  can step does (timers and tasks of the same loop; `_spawn` keeps a reference to each
  task, bot.py:77-82). The host need not come up and the pump need not run.
* `FairSpec` of `Presence`: the broker reads what is on a connection and notices one whose
  client is gone (MQTT's keepalive, protocol.py:30-32), including one whose PC sleeps; the hub
  reads its feed. Agents, PCs, links and the hub's reconnections are not fair. A link that stays
  and a subscribed hub are premises of `GoneIsSeen` and `ThereIsSeen`, stated in them.

## 5. What is proved

All proofs are for any constants that satisfy the named assumptions: `MaxDownlink`, `MaxFeed`,
`MaxQueue` and `WakeTimeout` are positive, the times of `HubView` are natural numbers and those of a timer that is awaited
in a loop are positive, `Platform` is one of the two, sentinels (`NoCommand`, `Nobody`, `NoMessage`, `NoHost`) are not
members of the sets they stand beside, and actions are the protocol's.

* **`CommandPathProofs`**. `PathInv` is inductive (theorem `PathInvariant`). `AtMostOnce` alone is not: it
  needs to know that a command that is in a thread is not on the connection any more (`InOnePlace`)
  and how far its thread has come (`InItsStage`), together `OneWay`. `VerdictIsTrue` needs `NothingInvented`: every
  acknowledgement under way, in paho's outbox, in the hub's feed or in a future, was published
  by the agent. From it `TypeCorrect`, `ExecutedAtMostOnce`, `VerdictCorrect`, `AckPrecedesDown`;
  `CommandsGoOneWay` is `OneWay` itself.
  `OutcomeIsFinal`, `RefusalIsFinal` and `ThreadsOnlyAdvance` (no thread goes back to an earlier stage) are action
  properties on top of it. `YesMeansDoneOrCorrected` and `NativeNoIsTrue` need `Honest`: what a thread has said so far,
  and whether its call was taken, at each of its stages, including one that was cut short.
  `PathKeepsPromise` shows step by step that each action of the path is a step of `CommandPromise` or a stutter, and
  `PathIsHubAndAgent` that the path is made of its halves: every behaviour of it is one of `HubCommands` and one of
  `AgentExecutor` with their unconstrained environments.
* **`CommandPromiseProofs`**. `PromiseKept` and `PromiseKeptByStep` prove the consequences from the promise alone;
  `PathKeepsConsequences` carries them over to the path by the refinement and nothing else.
* **`HubCommandsProofs`, `AgentExecutorProofs`**. The halves alone: `HubWaiters` (a waiter exists exactly while
  the handler needs it, against a broker that may do anything) and `AgentSerialised` (exactly the
  thread that holds the lock is in the critical section). `PreflightExact`, in the latter, is about the power
  backends alone: preflight refuses an action that needs a helper exactly when perform, with the same
  helpers, could only fail and would do nothing. `CommandPathProofs` uses their steps: every
  step of the path is a step of each half or leaves it alone.
* **`WakeWatchProofs`**. The four safety properties of a wake are inductive together with `Seen`: an
  event is set only for a wake that saw the host online, and a wake under way on an online host has seen it: `NoWakeMissed`, `WaitersExact`,
  `WindowClosedOnline`, `SuccessJustified`. `WindowKeptAlone` needs to know whose the open window is: `WindowHasOwner` says that
  the latest wake is still under way, and that its watcher's timer does not end before the window. `WakesKeepPromise` maps every step to one of
  `WakePromise` or a stutter; it rests on `Seen` where a watcher succeeds, and on the watcher's own timer, not
  the shared window, where it gives up.
* **`HubViewProofs`**. The lags themselves are not inductive. `ViewInv` is: while the session is not up to date (`LinkInTime`), or a
  ping is outdated or `reachable` wrong (`ProbesInTime`), the calm so far and the time left until it is
  looked at again stay below the lag together; `Tick` adds to the one what it takes from the other. From it
  `PresenceInTime` (a stale presence lasts at most the longer of keepalive and connection attempt and one maximal
  sleep), `ReachabilityInTime` (at most one period of the loop and two ping timeouts) and `ShownInTime` (what both say is shown).
  For a host without an ip `NeverPinged` says that there is no probe result, and so no "agent not running". `ViewIsWakeWatch`:
  between wakes every behaviour of `HubView` is one of `WakeWatch`, whose pump and probe loop are therefore free enough.
* **`PresenceProofs`**. `PresenceInv` adds `WireInv` to the three properties: what is on the wire of a live connection,
  and that a DISCONNECT is the last thing left only after "offline" was retained. From it
  `NoFalseOnlineLeft`, `NoFalseOfflineLeft`, `HubInStep`. `HubBelievesTruth` also needs `UnsetInv`: while
  the topic has no status nothing is queued for the hub, and a belief it may still have is from before a crash of the broker.
* **`BotUIProofs`**. `UIInv`: what any screen asks and any waiting "Yes" names was asked, and the command at work
  has passed its checks. From it `DestructiveOnlyConfirmed` and `CommandsWithinConfiguration`. `AnswersStayWithin`, an
  action property, needs `WatchersWithin`: a wake watcher edits a message only under the configuration its wake was
  checked against, because a restart, the only change of configuration, leaves no watcher.

**Model-checked only**: liveness under fairness (`EveryCommandAnswered`, `CommandFinishes`, `KeepsFairPromise`, `EveryWakeEnds`,
`GoneIsSeen`, `ThereIsSeen`), which is outside the prover.

## 6. Where code and comments disagree

1. **"Command not sent" although it was** (bot.py:510, run `command_not_sent`). `publish_command` also raises when only the PUBACK
   is missing.
2. **The answer that nobody can get** (mqtt.py:99-105, run `command_answer_discarded`). `_connected` is set before
   `pcwake/+/ack` is subscribed to; a command published in between is answered to no subscriber.
3. **Acknowledged and never performed** (agent/client.py:293, run `command_yes_kept`). Without a connection `wait_for_publish`'s
   exception is caught but `is_published` raises again; the thread ends, paho sends the yes later. This is as far as it
   goes: `YesKeptOrCorrected` (proved) says that only a thread that was cut short leaves a yes open.
4. **The window of the other wake** (bot.py:592, run `wake_overlap`). The first watcher to end clears the deadline
   that a later wake has set. The later wake is shown wrongly for that time and loses nothing else:
   it is watched for its own time all the same (`KeepsWakePromise`, proved).
5. **Sleep is not announced** (docs/TROUBLESHOOTING.md:278, run `presence_sleep`). The document says the agent
   publishes its own offline status on `/sleep`; only `stop()` does, and a suspend does not call it.
6. **"Failed" although it was done** (agent/power.py:111, run `command_refused`). A helper that has not returned in time counts as
   a failure; the comment calls a lock's acknowledgement accurate (agent/client.py:225-226). What is wrong is what the agent
   says: with the times of the code the hub gives up (`ACK_TIMEOUT`, 10 s) before the helper's timeout (15 s), and has said
   "It may still have worked" by then. Only helper programs can do that: where the backend makes a system call a
   no is true (`NoIsTrueIfNative`, proved).

More things to know, which no run refutes:

* "Every path here ends in a visible outcome" (bot.py:474) and "Acknowledged, refused, or timed out, never silence"
  (docs/ROADMAP.md:121-123) hold as far as Telegram takes the reply. `respond` is awaited without protection in all six
  places, and an exception of it ends in `on_error` (bot.py:141), which only logs. `HubCommands` lets it fail, and
  `EveryCommandAnswered` and `FairPromise` say what is left: the handler ends, the waiter is gone, and the outcome is shown or
  nothing is.
* The same with a wake. The comment at bot.py:564-567 wants nobody to look at "Waking..." for ever. The message says so for good if
  its edit is refused (suppressed, bot.py:611), if the probe before it raises (bot.py:597), or if the hub stops.
  `EveryWakeEnds` says that the wake ends, and that the *host* does not go on reading as waking.
* docs/SETUP.md:234-236 and 304-306 say that a PC reads as offline between boot and logon, when it is on and its agent is not running.
  The code shows that only of a host without an ip; with one it shows "Powered on, agent not running", as
  docs/TROUBLESHOOTING.md:91-92 expects. `ShownFollows` has both cases.
* The delay of `HubMqtt.run` is never taken back to `RECONNECT_MIN`, because its `else` (mqtt.py:85) is reached only by a
  `_session` that returns normally, and none does; `LinkLag` therefore has `ReconnectMax` in it.
* A ping that runs but cannot do its work exits with an error that `is_reachable` reads as "no answer" (probe.py:68),
  not as "no information"; `Probe` has it as a host whose answers get lost (`patchy`), of which `ShownFollows`
  asserts nothing.

## 7. What is not modelled

Text, rendering, `/help` and `/remote`; the JSON encoding and the validation of names and topics; the agent's
info message, which only decorates `/status`; the warning of `_note_connection`, which changes nothing but the log;
the dry-run backend, which takes no action; the self-check of the probe at startup, which writes a log line; broker accounts and ACLs;
reading and checking the TOML; the RuntimeError of a command id that collides with one in flight (bot.py:497-504); the wake-on-LAN datagram (sent or not); the
doctor; logging.

Three simplifications to keep in mind. Timeouts of hub and agent are not ordered: the models let a helper's timeout come
before the hub's, which the values of the code do not, so they contain more behaviours than the program. A helper that returns success
is taken to have done its work; one that exits 0 without doing it (`loginctl` with no locker present) is not told apart.
And the bounds on `reachable` are about a host that has an ip; of one without, nothing is ever known. `PROJECT.json` lists every component with its status, and the hazards no
property covers with the reason.

## 8. State of the plan

Done, in this order: the command path with its promise, the wake, presence, the chat interface; the power
backends below the executor; reachability, the reconnecting session and what the user is shown. Every invariant
and every action property of the passing runs, and the two refinements without their fairness, are theorems.

What could follow:
1. Presence and the command path on one broker connection: what the gate of `_run_command` knows when it lets a
   command through. Today `CommandPath` lets the status topic report anything at any time, which includes
   it, and `HubView` takes the topic as given, which `Presence` explains.
2. `HubView` inside a wake window, that is `WakeWatch` over `Probe` instead of over arbitrary results.
