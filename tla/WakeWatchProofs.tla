-------------------------- MODULE WakeWatchProofs --------------------------
(***************************************************************************)
(* Proofs about WakeWatch, for any number of overlapping wakes and any     *)
(* WAKE_TIMEOUT.                                                           *)
(***************************************************************************)
EXTENDS WakeWatch, TLAPS

\* The host is online exactly when that is what was heard of it last.
LEMMA OnlineIffHeard ==
  \A p, r, win : Resolve(p, r, win) = "online" <=> p = "online"
  BY DEF Resolve

LEMMA TypeStep == ASSUME TypeOK, [Next]_vars PROVE TypeOK'
<1> USE WakeTimeoutAssumption DEF TypeOK, Stage, Ended, NoWindow, Enter
<1>1. ASSUME NEW w \in Wakes, WakeDeclined(w) \/ WakeSent(w) \/ Replied(w) PROVE TypeOK'
  BY <1>1 DEF WakeDeclined, WakeSent, Replied
<1>2. ASSUME NEW w \in Wakes, WatchStarts(w) PROVE TypeOK'
  BY <1>2 DEF WatchStarts, LeaveWatch
<1>3. ASSUME NEW w \in Wakes, WatchSees(w) \/ WatchTimesOut(w) PROVE TypeOK'
  BY <1>3 DEF WatchSees, WatchTimesOut, LeaveWatch
<1>4. ASSUME NEW w \in Wakes, WatchProbes(w) \/ WatchReports(w) PROVE TypeOK'
  BY <1>4 DEF WatchProbes, WatchReports
<1>5. ASSUME NEW p \in Presence, HandleStatus(p) PROVE TypeOK'
  BY <1>5 DEF HandleStatus, WindowAfter
<1>6. CASE ProbeLoop
  BY <1>6 DEF ProbeLoop
<1>7. CASE Tick
  <2>1. window' \in {NoWindow} \cup 0..WakeTimeout
    BY <1>7 DEF Tick
  <2>2. \A n \in 0..WakeTimeout : n > 0 => n - 1 \in 0..WakeTimeout
    OBVIOUS
  <2>3. left' \in [Wakes -> 0..WakeTimeout]
    BY <1>7, <2>2 DEF Tick
  <2> QED
    BY <1>7, <2>1, <2>3 DEF Tick
<1>8. CASE HubRestarts
  <2>1. presence' \in Presence \cup {Unheard} /\ reachable' \in Reachability
    BY <1>8 DEF HubRestarts, Reachability
  <2>2. stage' \in [Wakes -> Stage]
    BY <1>8 DEF HubRestarts
  <2> QED
    BY <1>8, <2>1, <2>2 DEF HubRestarts
<1>9. CASE UNCHANGED vars
  BY <1>9 DEF vars
<1> QED
  BY <1>1, <1>2, <1>3, <1>4, <1>5, <1>6, <1>7, <1>8, <1>9 DEF Next, WatcherStep

\* What makes the safety properties inductive: an event is set only for a wake that
\* saw the host online, and a wake under way on an online host has seen it.
Active == {"replying", "spawned", "watching"}
Seen ==
    /\ fired \subseteq appeared
    /\ \A w \in Wakes : presence = "online" /\ stage[w] \in Active => w \in appeared

WakeInv ==
    TypeOK /\ OnlineClosesWindow /\ NoMissedOnline /\ WaitersAreWatching
    /\ SuccessIsReal /\ Seen

LEMMA WakeStep == ASSUME WakeInv, [Next]_vars PROVE WakeInv'
<1>0. TypeOK'
  BY TypeStep DEF WakeInv
<1>a. State = "online" <=> presence = "online"
  BY OnlineIffHeard DEF State
<1> USE <1>a DEF WakeInv, TypeOK, OnlineClosesWindow, NoMissedOnline, WaitersAreWatching,
                 SuccessIsReal, Seen, Active, NoWindow, Enter
<1>1. ASSUME NEW w \in Wakes, WakeDeclined(w) \/ WakeSent(w) \/ Replied(w) PROVE WakeInv'
  BY <1>0, <1>1 DEF WakeDeclined, WakeSent, Replied
<1>2. ASSUME NEW w \in Wakes, WatchStarts(w) PROVE WakeInv'
  BY <1>0, <1>2 DEF WatchStarts, LeaveWatch
<1>3. ASSUME NEW w \in Wakes, WatchSees(w) \/ WatchTimesOut(w) PROVE WakeInv'
  BY <1>0, <1>3 DEF WatchSees, WatchTimesOut, LeaveWatch
<1>4. ASSUME NEW w \in Wakes, WatchProbes(w) \/ WatchReports(w) PROVE WakeInv'
  BY <1>0, <1>4 DEF WatchProbes, WatchReports
<1>5. ASSUME NEW p \in Presence, HandleStatus(p) PROVE WakeInv'
  <2>1. /\ presence' = p
        /\ window' = IF p = "online" THEN NoWindow ELSE window
        /\ fired' = IF p = "online" /\ presence # "online" THEN fired \cup waiters ELSE fired
        /\ UNCHANGED <<stage, waiters>>
    BY <1>5, OnlineIffHeard DEF HandleStatus, WindowAfter, State
  <2>2. /\ p = "online" => \A w \in Wakes : stage[w] \in Active => w \in appeared'
        /\ appeared \subseteq appeared'
    BY <1>5 DEF HandleStatus, Ended
  <2> QED
    BY <1>0, <2>1, <2>2
<1>6. CASE ProbeLoop
  BY <1>0, <1>6 DEF ProbeLoop
<1>7. CASE Tick
  BY <1>0, <1>7 DEF Tick
<1>8. CASE HubRestarts
  BY <1>0, <1>8 DEF HubRestarts, Ended, Unheard
<1>9. CASE UNCHANGED vars
  BY <1>0, <1>9 DEF vars
<1> QED
  BY <1>1, <1>2, <1>3, <1>4, <1>5, <1>6, <1>7, <1>8, <1>9 DEF Next, WatcherStep

LEMMA AlwaysWakeInv == Spec => []WakeInv
<1>1. Init => WakeInv
  BY WakeTimeoutAssumption
  DEF Init, WakeInv, TypeOK, OnlineClosesWindow, NoMissedOnline, WaitersAreWatching,
      SuccessIsReal, Seen, Active, NoWindow, Unheard, Unprobed, Reachability, Stage, Ended
<1>2. WakeInv /\ [Next]_vars => WakeInv'
  BY WakeStep
<1> QED
  BY <1>1, <1>2, PTL DEF Spec

\* Every variable keeps its type.
THEOREM WakeTypeCorrect == Spec => []TypeOK
<1>1. WakeInv => TypeOK
  BY DEF WakeInv
<1> QED
  BY <1>1, AlwaysWakeInv, PTL

\* The pump and the watchers never lose a wake-up: the check when the watcher
\* starts and the event together leave no gap.
THEOREM NoWakeMissed == Spec => []NoMissedOnline
<1>1. WakeInv => NoMissedOnline
  BY DEF WakeInv
<1> QED
  BY <1>1, AlwaysWakeInv, PTL

\* No event leaks in _online_waiters, and none is taken out too early.
THEOREM WaitersExact == Spec => []WaitersAreWatching
<1>1. WakeInv => WaitersAreWatching
  BY DEF WakeInv
<1> QED
  BY <1>1, AlwaysWakeInv, PTL

\* An online host has no open wake window.
THEOREM WindowClosedOnline == Spec => []OnlineClosesWindow
<1>1. WakeInv => OnlineClosesWindow
  BY DEF WakeInv
<1> QED
  BY <1>1, AlwaysWakeInv, PTL

\* A wake that is reported as successful was.
THEOREM SuccessJustified == Spec => []SuccessIsReal
<1>1. WakeInv => SuccessIsReal
  BY DEF WakeInv
<1> QED
  BY <1>1, AlwaysWakeInv, PTL

\* Only the event of a watcher that has begun to wait is ever set.
FiredHaveWaited == \A w \in fired : stage[w] \notin {"none", "replying", "spawned"}

LEMMA FiredStep == ASSUME WakeInv, FiredHaveWaited, [Next]_vars PROVE FiredHaveWaited'
<1> USE DEF WakeInv, TypeOK, FiredHaveWaited, Enter
<1>1. ASSUME NEW w \in Wakes, WakeDeclined(w) \/ WakeSent(w) \/ Replied(w)
      PROVE  FiredHaveWaited'
  BY <1>1 DEF WakeDeclined, WakeSent, Replied
<1>2. ASSUME NEW w \in Wakes, WatcherStep(w) PROVE FiredHaveWaited'
  BY <1>2 DEF WatcherStep, WatchStarts, WatchSees, WatchTimesOut, WatchProbes, WatchReports,
              LeaveWatch
<1>3. ASSUME NEW p \in Presence, HandleStatus(p) PROVE FiredHaveWaited'
  <2>1. fired' \subseteq fired \cup waiters /\ stage' = stage
    BY <1>3 DEF HandleStatus
  <2> QED BY <2>1 DEF WaitersAreWatching
<1>4. CASE ProbeLoop \/ Tick \/ UNCHANGED vars
  BY <1>4 DEF ProbeLoop, Tick, vars
<1>5. CASE HubRestarts
  BY <1>5 DEF HubRestarts
<1> QED BY <1>1, <1>2, <1>3, <1>4, <1>5 DEF Next

\* w owns the open window: it is under way, and its timer does not end before it.
Owns(w) ==
    UnderWay(w) /\ w \notin fired /\ (stage[w] = "watching" => left[w] >= window)

LEMMA OwnerStep ==
  ASSUME WakeInv, FiredHaveWaited, WindowHasOwner, [Next]_vars PROVE WindowHasOwner'
<1>a. State = "online" <=> presence = "online"
  BY OnlineIffHeard DEF State
<1> SUFFICES ASSUME window' > 0 PROVE \E w \in Wakes : Owns(w)'
  BY DEF WindowHasOwner, Owns
<1>b. window > 0 => \E w \in Wakes : Owns(w)
  BY DEF WindowHasOwner, Owns
<1> USE WakeTimeoutAssumption DEF WakeInv, TypeOK, UnderWay, Owns, Enter, NoWindow
<1>1. ASSUME NEW w \in Wakes, WakeSent(w) PROVE Owns(w)'
  BY <1>1 DEF WakeSent, FiredHaveWaited
<1>2. ASSUME NEW w \in Wakes, WakeDeclined(w) \/ Replied(w), NEW u \in Wakes, Owns(u)
      PROVE  Owns(u)'
  BY <1>2 DEF WakeDeclined, Replied
<1>3. ASSUME NEW w \in Wakes, WatcherStep(w), NEW u \in Wakes, Owns(u), window > 0
      PROVE  Owns(u)'
  <2>1. CASE WatchStarts(w)
    BY <1>3, <2>1 DEF WatchStarts, LeaveWatch
  <2>2. CASE WatchSees(w) \/ WatchTimesOut(w)
    BY <2>2 DEF WatchSees, WatchTimesOut, LeaveWatch
  <2>3. CASE WatchProbes(w) \/ WatchReports(w)
    BY <1>3, <2>3 DEF WatchProbes, WatchReports
  <2> QED BY <1>3, <2>1, <2>2, <2>3 DEF WatcherStep
<1>4. ASSUME NEW p \in Presence, HandleStatus(p), NEW u \in Wakes, Owns(u)
      PROVE  Owns(u)'
  <2>1. window' = IF p = "online" THEN NoWindow ELSE window
    BY <1>4 DEF HandleStatus, WindowAfter
  <2>2. p # "online"
    BY <2>1
  <2>3. fired' = fired /\ UNCHANGED <<stage, left>>
    BY <1>4, <2>2, OnlineIffHeard DEF HandleStatus
  <2> QED BY <1>4, <2>1, <2>2, <2>3
<1>5. ASSUME Tick, NEW u \in Wakes, Owns(u)
      PROVE  Owns(u)'
  <2>1. window' = window - 1 /\ window > 0 /\ window \in Int
    BY <1>5 DEF Tick
  <2>2. stage[u] = "watching" => left'[u] = left[u] - 1 /\ left[u] >= window /\ left[u] \in Nat
    BY <1>5, <2>1 DEF Tick
  <2> QED BY <1>5, <2>1, <2>2 DEF Tick
<1>6. CASE HubRestarts
  BY <1>6 DEF HubRestarts
<1>7. ASSUME ProbeLoop \/ UNCHANGED vars, NEW u \in Wakes, Owns(u) PROVE Owns(u)'
  BY <1>7 DEF ProbeLoop, vars
<1>8. \/ \E w \in Wakes : WakeSent(w)
      \/ HubRestarts
      \/ window > 0
  BY DEF Next, WakeDeclined, Replied, WatcherStep, WatchStarts, WatchSees, WatchTimesOut,
         WatchProbes, WatchReports, LeaveWatch, HandleStatus, WindowAfter, ProbeLoop, Tick, vars
<1>9. CASE window > 0
  <2>1. PICK u \in Wakes : Owns(u)
    BY <1>b, <1>9
  <2> QED BY <1>1, <1>2, <1>3, <1>4, <1>5, <1>6, <1>7, <1>9, <2>1 DEF Next
<1> QED BY <1>1, <1>6, <1>8, <1>9

\* A wake that is alone keeps its window until the host comes online or the time is
\* up: the finally of _watch_wake can only do harm where two wakes overlap.
THEOREM WindowKeptAlone == Spec => WindowHonouredAlone
<1>1. Init => FiredHaveWaited /\ WindowHasOwner
  BY DEF Init, FiredHaveWaited, WindowHasOwner, NoWindow
<1>2. WakeInv /\ FiredHaveWaited /\ WindowHasOwner /\ [Next]_vars
        => FiredHaveWaited' /\ WindowHasOwner'
  BY FiredStep, OwnerStep
<1>3. ASSUME WakeInv, FiredHaveWaited, WindowHasOwner, [Next]_vars,
             window > 0, window' = NoWindow, ~Overlapping, presence' # "online", ~HubRestarts
      PROVE  FALSE
  <2>a. State = "online" <=> presence = "online"
    BY OnlineIffHeard DEF State
  <2>1. PICK u \in Wakes : Owns(u)
    BY <1>3 DEF WindowHasOwner, Owns
  <2>2. \A w \in Wakes : UnderWay(w) => w = u
    BY <1>3, <2>1 DEF Overlapping, Owns
  <2> USE <1>3, <2>a, WakeTimeoutAssumption DEF WakeInv, TypeOK, NoWindow
  <2>3. ASSUME NEW w \in Wakes, WatcherStep(w) PROVE FALSE
    <3>1. CASE WatchStarts(w)
      BY <3>1 DEF WatchStarts, LeaveWatch, OnlineClosesWindow
    <3>2. CASE WatchSees(w)
      BY <3>2, <2>1, <2>2 DEF WatchSees, UnderWay, Owns
    <3>3. CASE WatchTimesOut(w)
      BY <3>3, <2>1, <2>2 DEF WatchTimesOut, UnderWay, Owns
    <3>4. CASE WatchProbes(w) \/ WatchReports(w)
      BY <3>4 DEF WatchProbes, WatchReports
    <3> QED BY <2>3, <3>1, <3>2, <3>3, <3>4 DEF WatcherStep
  <2>4. ASSUME NEW p \in Presence, HandleStatus(p) PROVE FALSE
    BY <2>4 DEF HandleStatus, WindowAfter
  <2>5. ASSUME NEW w \in Wakes, WakeDeclined(w) \/ WakeSent(w) \/ Replied(w) PROVE FALSE
    BY <2>5 DEF WakeDeclined, WakeSent, Replied
  <2>6. CASE ProbeLoop \/ Tick \/ UNCHANGED vars
    BY <2>6 DEF ProbeLoop, Tick, vars
  <2> QED BY <2>3, <2>4, <2>5, <2>6 DEF Next
<1>4. WakeInv /\ FiredHaveWaited /\ WindowHasOwner /\ [Next]_vars
        => [window > 0 /\ window' = NoWindow /\ ~Overlapping
               => presence' = "online" \/ HubRestarts]_vars
  BY <1>3
<1> QED
  BY <1>1, <1>2, <1>4, AlwaysWakeInv, PTL DEF Spec, WindowHonouredAlone

(***************************************************************************)
(* WakeWatch implements WakePromise.                                       *)
(***************************************************************************)
Standings ==
    {"none", "refused", "waking", "unwatched", "succeeded", "failed", "reported", "unreported"}

LEMMA StandingType ==
  /\ TypeOK => Standing \in [Wakes -> Standings] /\ Watched \in [Wakes -> 0..WakeTimeout]
  /\ TypeOK' => Standing' \in [Wakes -> Standings] /\ Watched' \in [Wakes -> 0..WakeTimeout]
<1>1. \A n \in 0..WakeTimeout : WakeTimeout - n \in 0..WakeTimeout
  BY WakeTimeoutAssumption
<1> QED
  BY <1>1, WakeTimeoutAssumption DEF TypeOK, Stage, Ended, Standing, Watched, Standings

\* One wake moves on, to the stage t.
LEMMA OneStands ==
  ASSUME TypeOK, TypeOK', NEW w \in Wakes, NEW t \in Stage, Enter(w, t)
  PROVE  /\ t \in {"declined", "unsent"} => Standing' = [Standing EXCEPT ![w] = "refused"]
         /\ t \in {"replying", "spawned", "watching"} => Standing' = [Standing EXCEPT ![w] = "waking"]
         /\ t = "unreplied" => Standing' = [Standing EXCEPT ![w] = "unwatched"]
         /\ t = "came_up" => Standing' = [Standing EXCEPT ![w] = "succeeded"]
         /\ t \in {"timed_out", "probed"} => Standing' = [Standing EXCEPT ![w] = "failed"]
         /\ t \in {"reported", "unreported"} => Standing' = [Standing EXCEPT ![w] = t]
         /\ t # "watching" /\ left' = left => Watched' = [Watched EXCEPT ![w] = 0]
         /\ t # "watching" /\ left' = [left EXCEPT ![w] = 0]
              => Watched' = [Watched EXCEPT ![w] = 0]
<1>1. /\ \A v \in Wakes : v # w => stage'[v] = stage[v]
      /\ stage'[w] = t
  BY DEF TypeOK, Enter
<1>2. \A v \in Wakes : v # w => Standing'[v] = Standing[v]
  BY <1>1 DEF Standing, TypeOK, Stage, Ended
<1>3. left' \in {left, [left EXCEPT ![w] = 0]}
        => \A v \in Wakes : v # w => Watched'[v] = Watched[v]
  <2> SUFFICES ASSUME left' \in {left, [left EXCEPT ![w] = 0]}, NEW v \in Wakes, v # w
               PROVE  Watched'[v] = Watched[v]
    OBVIOUS
  <2>1. left'[v] = left[v]
    BY DEF TypeOK
  <2> QED BY <1>1, <2>1 DEF Watched
<1>4. /\ t \in {"declined", "unsent"} => Standing'[w] = "refused"
      /\ t \in {"replying", "spawned", "watching"} => Standing'[w] = "waking"
      /\ t = "unreplied" => Standing'[w] = "unwatched"
      /\ t = "came_up" => Standing'[w] = "succeeded"
      /\ t \in {"timed_out", "probed"} => Standing'[w] = "failed"
      /\ t \in {"reported", "unreported"} => Standing'[w] = t
      /\ t # "watching" => Watched'[w] = 0
  BY <1>1 DEF Standing, Watched
<1>5. /\ Standing \in [Wakes -> Standings] /\ Standing' \in [Wakes -> Standings]
      /\ Watched \in [Wakes -> 0..WakeTimeout] /\ Watched' \in [Wakes -> 0..WakeTimeout]
  BY StandingType
<1>6. \A x : Standing'[w] = x => Standing' = [Standing EXCEPT ![w] = x]
  BY <1>2, <1>5
<1>7. left' \in {left, [left EXCEPT ![w] = 0]} /\ Watched'[w] = 0 => Watched' = [Watched EXCEPT ![w] = 0]
  BY <1>3, <1>5
<1> QED
  BY <1>4, <1>6, <1>7

\* Where a wake stands to the promise.
LEMMA Stands ==
  ASSUME TypeOK, NEW w \in Wakes
  PROVE  /\ stage[w] = "none" => Standing[w] = "none"
         /\ stage[w] \in {"replying", "spawned", "watching"} => Standing[w] = "waking"
         /\ stage[w] = "came_up" => Standing[w] = "succeeded"
         /\ stage[w] \in {"timed_out", "probed"} => Standing[w] = "failed"
         /\ stage[w] \in {"replying", "spawned", "watching", "came_up", "timed_out", "probed"}
              <=> Standing[w] \in {"waking", "succeeded", "failed"}
         /\ stage[w] # "watching" => Watched[w] = 0
         /\ stage[w] = "watching" => Watched[w] = WakeTimeout - left[w]
  BY DEF TypeOK, Stage, Ended, Standing, Watched

LEMMA WakePromiseStep ==
  ASSUME WakeInv, WakeInv', [Next]_vars
  PROVE  [Promised!Next]_(Promised!promiseVars)
<1>a. State = "online" <=> presence = "online"
  BY OnlineIffHeard DEF State
<1>b. /\ TypeOK /\ TypeOK'
      /\ Standing \in [Wakes -> Standings] /\ Watched \in [Wakes -> 0..WakeTimeout]
      /\ Standing' \in [Wakes -> Standings] /\ Watched' \in [Wakes -> 0..WakeTimeout]
  BY StandingType DEF WakeInv
<1> USE DEF Promised!Become
\* A step that is none to the promise.
<1>c. ASSUME stage' = stage, left' = left, appeared' = appeared
      PROVE  UNCHANGED Promised!promiseVars
  BY <1>c DEF Promised!promiseVars, Standing, Watched
<1>d. ASSUME NEW w \in Wakes, Standing' = [Standing EXCEPT ![w] = Standing[w]],
             Watched' = [Watched EXCEPT ![w] = Watched[w]], appeared' = appeared
      PROVE  UNCHANGED Promised!promiseVars
  BY <1>b, <1>d DEF Promised!promiseVars
<1>1. ASSUME NEW w \in Wakes, WakeDeclined(w) PROVE Promised!Refuse(w)
  <2>1. \E t \in {"declined", "unsent"} : Enter(w, t) /\ t \in Stage
    BY <1>1 DEF WakeDeclined, Stage, Ended
  <2>2. /\ Standing' = [Standing EXCEPT ![w] = "refused"]
        /\ Watched' = [Watched EXCEPT ![w] = 0]
        /\ Standing[w] = "none" /\ Watched[w] = 0 /\ appeared' = appeared
    BY <1>b, <1>1, <2>1, OneStands, Stands DEF WakeDeclined
  <2> QED
    BY <1>b, <2>2 DEF Promised!Refuse
<1>2. ASSUME NEW w \in Wakes, WakeSent(w) PROVE Promised!Begin(w)
  <2>1. Enter(w, "replying") /\ "replying" \in Stage
    BY <1>2 DEF WakeSent, Stage
  <2>2. /\ Standing' = [Standing EXCEPT ![w] = "waking"]
        /\ Watched' = [Watched EXCEPT ![w] = 0]
        /\ Standing[w] = "none" /\ Watched[w] = 0 /\ appeared' = appeared
    BY <1>b, <1>2, <2>1, OneStands, Stands DEF WakeSent
  <2> QED
    BY <1>b, <2>2 DEF Promised!Begin
<1>3. ASSUME NEW w \in Wakes, Replied(w)
      PROVE  Promised!GoUnwatched(w) \/ UNCHANGED Promised!promiseVars
  <2>1. Standing[w] = "waking" /\ Watched[w] = 0 /\ UNCHANGED <<left, appeared>>
    BY <1>b, <1>3, Stands DEF Replied
  <2>2. CASE Enter(w, "spawned")
    <3>1. "spawned" \in Stage
      BY DEF Stage
    <3> QED
      BY <1>b, <1>d, <2>1, <2>2, <3>1, OneStands
  <2>3. CASE Enter(w, "unreplied")
    <3>1. "unreplied" \in Stage
      BY DEF Stage, Ended
    <3>2. Standing' = [Standing EXCEPT ![w] = "unwatched"] /\ Watched' = [Watched EXCEPT ![w] = 0]
      BY <1>b, <2>1, <2>3, <3>1, OneStands
    <3> QED
      BY <1>b, <2>1, <3>2 DEF Promised!GoUnwatched
  <2> QED
    BY <1>3, <2>2, <2>3 DEF Replied
\* A watcher that ends well has seen the host.
<1>4. ASSUME NEW w \in Wakes, LeaveWatch(w, "came_up"), stage[w] \in {"spawned", "watching"},
             w \in appeared, UNCHANGED appeared
      PROVE  Promised!Succeed(w)
  <2>1. Enter(w, "came_up") /\ "came_up" \in Stage
    BY <1>4 DEF LeaveWatch, Stage
  <2>2. /\ Standing' = [Standing EXCEPT ![w] = "succeeded"]
        /\ Watched' = [Watched EXCEPT ![w] = 0]
        /\ Standing[w] = "waking"
    <3>1. left' = [left EXCEPT ![w] = 0]
      BY <1>4 DEF LeaveWatch
    <3>2. "came_up" # "watching"
      OBVIOUS
    <3>3. Watched' = [Watched EXCEPT ![w] = 0]
      BY <1>b, <2>1, <3>1, <3>2, OneStands
    <3>4. Standing' = [Standing EXCEPT ![w] = "succeeded"]
      BY <1>b, <2>1, OneStands
    <3>5. Standing[w] = "waking"
      BY <1>b, <1>4, Stands
    <3> QED BY <3>3, <3>4, <3>5
  <2> QED
    BY <1>4, <2>2 DEF Promised!Succeed
<1>5. ASSUME NEW w \in Wakes, WatchStarts(w)
      PROVE  Promised!Succeed(w) \/ UNCHANGED Promised!promiseVars
  <2>1. CASE State = "online"
    <3>1. w \in appeared
      BY <1>a, <1>5, <2>1 DEF WatchStarts, WakeInv, Seen, Active
    <3> QED
      BY <1>4, <1>5, <2>1, <3>1 DEF WatchStarts
  <2>2. CASE State # "online"
    <3>1. /\ stage[w] = "spawned" /\ Enter(w, "watching") /\ "watching" \in Stage
          /\ left' = [left EXCEPT ![w] = WakeTimeout] /\ appeared' = appeared
      BY <1>5, <2>2 DEF WatchStarts, Stage
    <3>2. Standing' = [Standing EXCEPT ![w] = "waking"] /\ Standing[w] = "waking" /\ Watched[w] = 0
      BY <1>b, <3>1, OneStands, Stands
    <3>3. \A v \in Wakes : Watched'[v] = Watched[v]
      BY <1>b, <3>1, WakeTimeoutAssumption DEF TypeOK, Enter, Watched
    <3>4. Watched' = [Watched EXCEPT ![w] = Watched[w]]
      BY <1>b, <3>3
    <3> QED
      BY <1>b, <1>d, <3>1, <3>2, <3>4
  <2> QED
    BY <2>1, <2>2
<1>6. ASSUME NEW w \in Wakes, WatchSees(w) PROVE Promised!Succeed(w)
  <2>1. w \in appeared
    BY <1>6 DEF WatchSees, WakeInv, Seen
  <2> QED
    BY <1>4, <1>6, <2>1 DEF WatchSees
\* A watcher times out when its own timer has run down.
<1>7. ASSUME NEW w \in Wakes, WatchTimesOut(w) PROVE Promised!GiveUp(w)
  <2>1. Enter(w, "timed_out") /\ "timed_out" \in Stage
    BY <1>7 DEF WatchTimesOut, LeaveWatch, Stage
  <2>2. stage[w] = "watching" /\ left[w] = 0 /\ appeared' = appeared
    BY <1>7 DEF WatchTimesOut
  <2>3. left' = [left EXCEPT ![w] = 0]
    BY <1>7 DEF WatchTimesOut, LeaveWatch
  <2>4. "timed_out" # "watching"
    OBVIOUS
  <2>5. Watched' = [Watched EXCEPT ![w] = 0]
    BY <1>b, <2>1, <2>3, <2>4, OneStands
  <2>6. Standing' = [Standing EXCEPT ![w] = "failed"]
    BY <1>b, <2>1, OneStands
  <2>7. Standing[w] = "waking" /\ Watched[w] = WakeTimeout - left[w]
    BY <1>b, <2>2, Stands
  <2>8. Watched[w] = WakeTimeout
    BY <2>2, <2>7, WakeTimeoutAssumption
  <2> QED
    BY <2>2, <2>5, <2>6, <2>7, <2>8 DEF Promised!GiveUp
\* The end of a watcher, with a report or without.
<1>e. ASSUME NEW w \in Wakes, NEW t \in {"reported", "unreported"}, Enter(w, t),
             stage[w] \in {"came_up", "timed_out", "probed"}, UNCHANGED <<left, appeared>>
      PROVE  Promised!Report(w)
  <2>1. t \in Stage
    BY DEF Stage, Ended
  <2>2. /\ Standing' = [Standing EXCEPT ![w] = t]
        /\ Watched' = [Watched EXCEPT ![w] = 0]
        /\ Standing[w] \in {"succeeded", "failed"} /\ Watched[w] = 0
    BY <1>b, <1>e, <2>1, OneStands, Stands
  <2> QED
    BY <1>b, <1>e, <2>2 DEF Promised!Report
<1>8. ASSUME NEW w \in Wakes, WatchProbes(w)
      PROVE  Promised!Report(w) \/ UNCHANGED Promised!promiseVars
  <2>1. stage[w] = "timed_out" /\ UNCHANGED <<left, appeared>>
    BY <1>8 DEF WatchProbes
  <2>2. CASE Enter(w, "probed")
    <3>1. "probed" \in Stage
      BY DEF Stage
    <3> QED
      BY <1>b, <1>d, <2>1, <2>2, <3>1, OneStands, Stands
  <2>3. CASE Enter(w, "unreported")
    BY <1>e, <2>1, <2>3
  <2> QED
    BY <1>8, <2>2, <2>3 DEF WatchProbes
<1>9. ASSUME NEW w \in Wakes, WatchReports(w) PROVE Promised!Report(w)
  <2>1. stage[w] \in {"came_up", "probed"} /\ UNCHANGED <<left, appeared>>
    BY <1>9 DEF WatchReports
  <2>2. PICK t \in {"reported", "unreported"} : Enter(w, t)
    BY <1>9 DEF WatchReports
  <2> QED
    BY <1>e, <2>1, <2>2
<1>10. ASSUME NEW p \in Presence, HandleStatus(p)
       PROVE  Promised!Appears \/ UNCHANGED Promised!promiseVars
  <2>1. UNCHANGED <<stage, left>>
    BY <1>10 DEF HandleStatus
  <2>2. Standing' = Standing /\ Watched' = Watched
    BY <2>1 DEF Standing, Watched
  <2>3. {w \in Wakes : stage[w] \notin {"none"} \cup Ended}
          = {w \in Wakes : Standing[w] \in {"waking", "succeeded", "failed"}}
    BY <1>b, Stands DEF TypeOK, Stage, Ended
  <2>4. CASE p = "online"
    BY <1>10, <2>2, <2>3, <2>4 DEF HandleStatus, Promised!Appears
  <2>5. CASE p # "online"
    BY <1>c, <1>10, <2>1, <2>5 DEF HandleStatus
  <2> QED
    BY <2>4, <2>5
<1>11. ASSUME Tick PROVE Promised!Wait
  <2>1. Standing' = Standing /\ appeared' = appeared
    BY <1>11 DEF Tick, Standing
  <2>2. ASSUME NEW w \in Wakes, Watched'[w] # Watched[w]
        PROVE  Standing[w] = "waking" /\ Watched'[w] = Watched[w] + 1
    <3>1. stage'[w] = stage[w]
          /\ left'[w] = IF stage[w] = "watching" /\ left[w] > 0 THEN left[w] - 1 ELSE left[w]
      BY <1>11 DEF Tick
    <3>2. stage[w] = "watching"
      BY <2>2, <3>1 DEF Watched
    <3>3. Watched'[w] = WakeTimeout - left'[w] /\ Watched[w] = WakeTimeout - left[w]
      BY <3>1, <3>2 DEF Watched
    <3>4. left[w] \in Int /\ WakeTimeout \in Int
      BY <1>b, WakeTimeoutAssumption DEF TypeOK
    <3> QED
      BY <1>b, <2>2, <3>1, <3>2, <3>3, <3>4, Stands
  <2> QED
    BY <1>b, <2>1, <2>2 DEF Promised!Wait
<1>12. ASSUME HubRestarts PROVE Promised!Stop
  <2>1. \A w \in Wakes : stage'[w] =
          IF stage[w] \in {"none"} \cup Ended THEN stage[w] ELSE "unreported"
    BY <1>12 DEF HubRestarts
  <2>2. \A w \in Wakes : Standing'[w] =
          IF Standing[w] \in {"waking", "succeeded", "failed"} THEN "unreported" ELSE Standing[w]
    BY <1>b, <2>1 DEF Standing, TypeOK, Stage, Ended
  <2>3. \A w \in Wakes : Watched'[w] = 0
    BY <1>b, <2>1 DEF Watched, TypeOK, Stage, Ended
  <2> QED
    BY <1>b, <1>12, <2>2, <2>3 DEF HubRestarts, Promised!Stop
<1>13. CASE ProbeLoop \/ UNCHANGED vars
  BY <1>c, <1>13 DEF ProbeLoop, vars
<1> QED
  BY <1>1, <1>2, <1>3, <1>5, <1>6, <1>7, <1>8, <1>9, <1>10, <1>11, <1>12, <1>13
  DEF Next, WatcherStep, Promised!Next

\* Any number of overlapping wakes, with whatever they do to the window, the state and
\* the waiters they share, keep the promise of each.
THEOREM WakesKeepPromise == Spec => KeepsWakePromise
<1>1. Init => Promised!Init
  BY DEF Init, Promised!Init, Standing, Watched
<1>2. WakeInv /\ WakeInv' /\ [Next]_vars => [Promised!Next]_(Promised!promiseVars)
  BY WakePromiseStep
<1> QED
  BY <1>1, <1>2, AlwaysWakeInv, PTL DEF Spec, KeepsWakePromise, Promised!Promise
=============================================================================
