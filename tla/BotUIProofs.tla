---------------------------- MODULE BotUIProofs ----------------------------
(***************************************************************************)
(* Proofs about BotUI. What the screens and the waiting updates carry is   *)
(* what was asked: that is the invariant that outlives handlers, stale     *)
(* buttons and restarts, and it makes every "Yes" answer a question.       *)
(***************************************************************************)
EXTENDS BotUI, SequenceTheorems, TLAPS

\* What a record with a chat, a host and an action asks was on a screen.
Asked(r) == r.host \in Hosts /\ <<r.chat, r.host, r.action>> \in asked

\* A question on a screen, and a "Yes" that waits, are about what was asked.
FacesAsked == \A m \in Messages : screen[m].kind = "confirm" => Asked(screen[m])
YesAsked == \A i \in 1..Len(updates) : updates[i].kind = "y" => Asked(updates[i])

\* The command at work has passed every check of its handler.
RunningChecked ==
    running => /\ updates # <<>>
               /\ Current.kind \in {"/power", "a", "y"}
               /\ Authorized /\ KnownHost /\ Confirmed

\* A message that a watcher will edit was sent.
WatchedSent == \A w \in waking : screen[w[1]] # Unused

UIInv == TypeOK /\ FacesAsked /\ YesAsked /\ RunningChecked /\ WatchedSent

\* What is on a screen stays a face.
SentStaysSent == \A m \in Messages : screen[m] # Unused => screen'[m] # Unused

(***************************************************************************)
(* Lemmas about the operators.                                             *)
(***************************************************************************)
\* An update at the head of the queue is one of its elements, and Tail has no other.
LEMMA QueueHead ==
    ASSUME NEW S, NEW q \in Seq(S), q # <<>>
    PROVE  /\ Len(q) \in Nat \ {0} /\ Head(q) = q[1] /\ Head(q) \in S
           /\ Tail(q) \in Seq(S)
           /\ Len(Tail(q)) = Len(q) - 1
           /\ \A i \in 1..Len(Tail(q)) : i + 1 \in 1..Len(q) /\ Tail(q)[i] = q[i + 1]
<1>1. Len(q) \in Nat \ {0} /\ Head(q) = q[1] /\ Head(q) \in S
  BY EmptySeq, ElementOfSeq
<1>2. Tail(q) \in Seq(S) /\ Len(Tail(q)) = Len(q) - 1
  BY <1>1, HeadTailProperties
<1>3. \A i \in 1..Len(Tail(q)) : Tail(q)[i] = q[i + 1]
  BY <1>1, HeadTailProperties
<1> QED
  BY <1>1, <1>2, <1>3

\* What a suffix of a queue holds, the queue holds.
LEMMA QueueSuffix ==
    ASSUME NEW S, NEW q \in Seq(S), NEW k \in 0..Len(q)
    PROVE  LET t == SubSeq(q, k + 1, Len(q)) IN
           /\ t \in Seq(S)
           /\ \A i \in 1..Len(t) : i + k \in 1..Len(q) /\ t[i] = q[i + k]
<1>1. Len(q) \in Nat
  BY LenProperties
<1>2. q = [i \in 1..Len(q) |-> q[i]] /\ \A i \in 1..Len(q) : q[i] \in S
  BY LenProperties, ElementOfSeq
<1>3. SubSeq(q, k + 1, Len(q)) = [i \in 1..(Len(q) - k) |-> q[i + k]]
  BY <1>1
<1> QED
  BY <1>1, <1>2, <1>3

\* A button says what its message shows.
LEMMA ButtonsOfAFace ==
    ASSUME NEW face \in Face \cup {Unused}, NEW b \in Buttons(face)
    PROVE  /\ face \in Face
           /\ b.kind \in Tapped /\ b.host \in Hosts \cup {NoHost} /\ b.action \in Actions \cup {Nothing}
           /\ b.kind = "y" => face.kind = "confirm" /\ b.host = face.host /\ b.action = face.action
BY DEF Buttons, Data, Face, Unused, Tapped

\* The host of the update that is handled.
LEMMA HostOfCurrent ==
    ASSUME TypeOK, updates # <<>>
    PROVE  /\ Current \in Update
           /\ Host \in Hosts
           /\ Current.kind = "y" /\ YesAsked => Asked(Current) /\ Host = Current.host
<1>1. Current \in Update /\ Current = updates[1] /\ Len(updates) \in Nat \ {0}
  BY QueueHead DEF TypeOK, Current
<1>2. Host \in Hosts
  BY <1>1 DEF TypeOK, Host, Update
<1>3. Current.kind = "y" /\ YesAsked => Asked(Current)
  BY <1>1 DEF YesAsked
<1> QED
  BY <1>1, <1>2, <1>3, SentinelAssumption DEF Asked, Host

\* A message that gets a face keeps the screens well formed, and what they ask asked.
LEMMA ShowKeeps ==
    ASSUME UIInv, NEW m \in Messages, NEW face \in Face,
           face.kind = "confirm" => face.host \in Hosts /\ face.action \in Actions,
           Show(m, face)
    PROVE  /\ screen' \in [Messages -> Face \cup {Unused}]
           /\ asked' \subseteq Chats \X Hosts \X Actions
           /\ asked \subseteq asked'
           /\ FacesAsked' /\ SentStaysSent /\ screen'[m] # Unused
<1>1. screen' \in [Messages -> Face \cup {Unused}]
  BY DEF UIInv, TypeOK, Show
<1>2. asked \subseteq asked' /\ asked' \subseteq Chats \X Hosts \X Actions
  BY DEF UIInv, TypeOK, Show, Face
<1>3. ASSUME NEW n \in Messages, screen'[n].kind = "confirm" PROVE Asked(screen[n])'
  <2>1. CASE n = m
    BY <1>3, <2>1 DEF UIInv, TypeOK, Show, Asked
  <2>2. CASE n # m
    BY <1>2, <1>3, <2>2 DEF UIInv, TypeOK, FacesAsked, Show, Asked
  <2> QED
    BY <2>1, <2>2
<1>4. SentStaysSent /\ screen'[m] # Unused
  BY DEF UIInv, TypeOK, Show, SentStaysSent, Face, Unused
<1> QED
  BY <1>1, <1>2, <1>3, <1>4 DEF FacesAsked

\* So does every response of a handler.
LEMMA RespondKeeps ==
    ASSUME UIInv, updates # <<>>, NEW face \in Face,
           face.kind = "confirm" => face.host \in Hosts /\ face.action \in Actions,
           Respond(face)
    PROVE  /\ screen' \in [Messages -> Face \cup {Unused}]
           /\ asked' \subseteq Chats \X Hosts \X Actions
           /\ asked \subseteq asked'
           /\ FacesAsked' /\ SentStaysSent
<1>1. CASE NotShown
  BY <1>1 DEF NotShown, UIInv, TypeOK, FacesAsked, Asked, SentStaysSent
<1>2. ASSUME NEW m \in Place, Show(m, face)
      PROVE  /\ screen' \in [Messages -> Face \cup {Unused}]
             /\ asked' \subseteq Chats \X Hosts \X Actions
             /\ asked \subseteq asked'
             /\ FacesAsked' /\ SentStaysSent
  <2>1. m \in Messages
    BY HostOfCurrent DEF UIInv, Place, Update
  <2> QED
    BY <1>2, <2>1, ShowKeeps
<1> QED
  BY <1>1, <1>2 DEF Respond

\* A handler that ends takes its update out of the queue and leaves the others.
LEMMA DoneKeeps ==
    ASSUME UIInv, updates # <<>>, Done, asked \subseteq asked'
    PROVE  /\ updates' \in Seq(Update) /\ running' = FALSE
           /\ YesAsked' /\ RunningChecked'
           /\ UNCHANGED <<configVars, online>>
<1>1. /\ Len(updates) \in Nat \ {0}
      /\ Tail(updates) \in Seq(Update) /\ Len(Tail(updates)) = Len(updates) - 1
      /\ \A i \in 1..Len(Tail(updates)) :
            i + 1 \in 1..Len(updates) /\ Tail(updates)[i] = updates[i + 1]
  BY QueueHead DEF UIInv, TypeOK
<1>2. updates' = Tail(updates) /\ running' = FALSE /\ UNCHANGED <<configVars, online>>
  BY DEF Done
<1>3. ASSUME NEW i \in 1..Len(updates'), updates'[i].kind = "y" PROVE Asked(updates[i])'
  <2>1. Asked(updates[i + 1]) /\ updates'[i] = updates[i + 1]
    BY <1>1, <1>2, <1>3 DEF UIInv, YesAsked
  <2> QED
    BY <2>1 DEF Asked
<1> QED
  BY <1>1, <1>2, <1>3 DEF YesAsked, RunningChecked

\* A handler that answers, ends and leaves `waking` alone keeps the invariant.
LEMMA AnswerKeeps ==
    ASSUME UIInv, updates # <<>>, NEW face \in Face,
           face.kind = "confirm" => face.host \in Hosts /\ face.action \in Actions,
           Respond(face), Done, UNCHANGED waking
    PROVE  UIInv'
<1>1. /\ screen' \in [Messages -> Face \cup {Unused}]
      /\ asked' \subseteq Chats \X Hosts \X Actions
      /\ asked \subseteq asked'
      /\ FacesAsked' /\ SentStaysSent
  BY RespondKeeps
<1>2. /\ updates' \in Seq(Update) /\ running' = FALSE
      /\ YesAsked' /\ RunningChecked'
      /\ UNCHANGED <<configVars, online>>
  BY <1>1, DoneKeeps
<1>3. TypeOK'
  BY <1>1, <1>2 DEF UIInv, TypeOK, configVars
<1>4. WatchedSent'
  BY <1>1 DEF UIInv, TypeOK, WatchedSent, SentStaysSent
<1> QED
  BY <1>1, <1>2, <1>3, <1>4 DEF UIInv

\* The faces that handlers show.
LEMMA FacesShown ==
    ASSUME NEW chat \in Chats, NEW h \in Hosts
    PROVE  /\ Plain(chat) \in Face /\ Plain(chat).kind # "confirm"
           /\ Keyboard(chat, h) \in Face /\ Keyboard(chat, h).kind # "confirm"
           /\ \A a \in Actions : Question(chat, h, a) \in Face
BY DEF Plain, Keyboard, Question, Face

(***************************************************************************)
(* The invariant.                                                          *)
(***************************************************************************)
LEMMA UIInvInit == Init => UIInv
<1> SUFFICES ASSUME Init PROVE UIInv
  OBVIOUS
<1>1. TypeOK
  BY EmptySeq DEF Init, TypeOK, Configured
<1>2. FacesAsked /\ YesAsked /\ RunningChecked /\ WatchedSent
  BY EmptySeq DEF Init, FacesAsked, YesAsked, RunningChecked, Unused, WatchedSent
<1> QED
  BY <1>1, <1>2 DEF UIInv

LEMMA SendKeeps ==
    ASSUME UIInv, NEW u \in Update, u.kind = "y" => Asked(u), Send(u)
    PROVE  UIInv'
<1>1. /\ updates' \in Seq(Update) /\ updates' # <<>>
      /\ Len(updates) \in Nat /\ Len(updates') = Len(updates) + 1
      /\ updates'[Len(updates')] = u
      /\ \A i \in 1..Len(updates) : updates'[i] = updates[i]
  BY AppendProperties, LenProperties, EmptySeq DEF UIInv, TypeOK, Send
<1>2. UNCHANGED <<allowed, hosts, default, online, screen, waking, running, asked>>
  BY DEF Send, configVars
<1>3. TypeOK' /\ FacesAsked' /\ WatchedSent'
  BY <1>1, <1>2 DEF UIInv, TypeOK, FacesAsked, Asked, WatchedSent
<1>4. YesAsked'
  <2> SUFFICES ASSUME NEW i \in 1..Len(updates'), updates'[i].kind = "y"
               PROVE  Asked(updates[i])'
    BY DEF YesAsked
  <2>1. CASE i = Len(updates')
    <3>1. Asked(u)' <=> Asked(u)
      BY <1>2 DEF Asked
    <3> QED
      BY <1>1, <1>2, <2>1, <3>1 DEF Asked
  <2>2. CASE i # Len(updates')
    <3>1. i \in 1..Len(updates) /\ updates'[i] = updates[i]
      BY <1>1, <2>2
    <3> QED
      BY <1>2, <3>1 DEF UIInv, YesAsked, Asked
  <2> QED
    BY <2>1, <2>2
<1>5. RunningChecked'
  <2> SUFFICES ASSUME running PROVE RunningChecked'
    BY <1>2 DEF RunningChecked
  <2>1. updates # <<>> /\ Head(updates) = updates[1] /\ Len(updates) \in Nat \ {0}
    BY QueueHead DEF UIInv, TypeOK, RunningChecked
  <2>2. Head(updates') = updates'[1]
    BY <1>1, QueueHead
  <2>3. Current' = Current
    BY <1>1, <2>1, <2>2 DEF Current
  <2> QED
    BY <1>1, <1>2, <2>3 DEF UIInv, RunningChecked, Authorized, KnownHost, Host, Confirmed
<1> QED
  BY <1>3, <1>4, <1>5 DEF UIInv

LEMMA HandlerKeeps == UIInv /\ HandlerStep => UIInv'
<1> SUFFICES ASSUME UIInv, HandlerStep PROVE UIInv'
  OBVIOUS
<1>1. updates # <<>>
  BY DEF HandlerStep, Ignored, AnswerFails, UnknownHost, Cancelled, ShowsStatus, WakesNot,
         Wakes, Asks, Refused, Runs, RunEnds, Takes, UIInv, RunningChecked
<1>2. Current \in Update /\ Current.chat \in Chats /\ Host \in Hosts
  BY <1>1, HostOfCurrent DEF UIInv, Update
<1>3. Plain(Current.chat) \in Face /\ Plain(Current.chat).kind # "confirm"
  BY <1>2, FacesShown
<1>4. CASE Ignored \/ AnswerFails \/ UnknownHost \/ Cancelled \/ WakesNot \/ Refused \/ RunEnds
  <2>1. Respond(Plain(Current.chat)) /\ Done /\ UNCHANGED waking
    BY <1>4 DEF Ignored, AnswerFails, UnknownHost, Cancelled, WakesNot, Refused, RunEnds, Respond
  <2> QED
    BY <1>1, <1>3, <2>1, AnswerKeeps
<1>5. CASE ShowsStatus
  <2>1. Respond(Keyboard(Current.chat, Host)) /\ Done /\ UNCHANGED waking
    BY <1>5 DEF ShowsStatus
  <2>2. Keyboard(Current.chat, Host) \in Face /\ Keyboard(Current.chat, Host).kind # "confirm"
    BY <1>2, FacesShown
  <2> QED
    BY <1>1, <2>1, <2>2, AnswerKeeps
<1>6. CASE Wakes
  <2>1. PICK m \in Place : Show(m, Plain(Current.chat)) /\ waking' = waking \cup {<<m, Host>>}
    BY <1>6 DEF Wakes
  <2>2. Respond(Plain(Current.chat)) /\ Done
    BY <1>6, <2>1 DEF Wakes, Respond
  <2>3. m \in Messages
    BY <1>2 DEF Place, Update
  <2>4. /\ screen' \in [Messages -> Face \cup {Unused}]
        /\ asked' \subseteq Chats \X Hosts \X Actions
        /\ asked \subseteq asked'
        /\ FacesAsked' /\ SentStaysSent
    BY <1>1, <1>3, <2>2, RespondKeeps
  <2>5. /\ updates' \in Seq(Update) /\ running' = FALSE
        /\ YesAsked' /\ RunningChecked'
        /\ UNCHANGED <<configVars, online>>
    BY <1>1, <2>2, <2>4, DoneKeeps
  <2>6. waking' \subseteq Messages \X Hosts
    BY <1>2, <2>1, <2>3 DEF UIInv, TypeOK
  <2>7. TypeOK'
    BY <2>4, <2>5, <2>6 DEF UIInv, TypeOK, configVars
  <2>8. screen'[m] # Unused
    BY <1>3, <2>1, <2>3, ShowKeeps
  <2>9. WatchedSent'
    BY <1>2, <2>1, <2>3, <2>4, <2>8 DEF UIInv, TypeOK, WatchedSent, SentStaysSent
  <2> QED
    BY <2>4, <2>5, <2>7, <2>9 DEF UIInv
<1>7. CASE Asks
  <2>1. /\ IsDestructive(Current.action)
        /\ Respond(Question(Current.chat, Host, Current.action)) /\ Done /\ UNCHANGED waking
    BY <1>7 DEF Asks
  <2>2. Current.action \in Actions
    BY <1>2, <2>1 DEF Update, IsDestructive, Nothing
  <2>3. /\ Question(Current.chat, Host, Current.action) \in Face
        /\ Question(Current.chat, Host, Current.action).host = Host
        /\ Question(Current.chat, Host, Current.action).action = Current.action
    BY <1>2, <2>2, FacesShown DEF Question
  <2> QED
    BY <1>1, <1>2, <2>1, <2>2, <2>3, AnswerKeeps
<1>8. CASE Runs
  <2>1. /\ Takes({"/power", "a", "y"}) /\ Authorized /\ KnownHost /\ Confirmed
        /\ running' = TRUE
        /\ UNCHANGED <<allowed, hosts, default, online, screen, waking, updates, asked>>
    BY <1>8 DEF Runs, configVars
  <2> QED
    BY <1>1, <2>1 DEF UIInv, TypeOK, FacesAsked, YesAsked, RunningChecked, Asked, Takes, Current,
                      Authorized, KnownHost, Host, Confirmed, WatchedSent
<1> QED
  BY <1>4, <1>5, <1>6, <1>7, <1>8 DEF HandlerStep

LEMMA UIInvStep == UIInv /\ [Next]_vars => UIInv'
<1> SUFFICES ASSUME UIInv, [Next]_vars PROVE UIInv'
  OBVIOUS
<1>1. CASE HandlerStep
  BY <1>1, HandlerKeeps
<1>2. ASSUME NEW chat \in Chats, UserTypes(chat) PROVE UIInv'
  <2>1. PICK kind \in Typed, h \in Hosts \cup {NoHost}, a \in Actions :
           Send([kind |-> kind, chat |-> chat, host |-> h,
                 action |-> IF kind = "/power" THEN a ELSE Nothing, message |-> NoMessage])
    BY <1>2 DEF UserTypes
  <2>2. /\ [kind |-> kind, chat |-> chat, host |-> h,
            action |-> IF kind = "/power" THEN a ELSE Nothing, message |-> NoMessage] \in Update
        /\ kind # "y"
    BY DEF Update, Typed
  <2> QED
    BY <2>1, <2>2, SendKeeps
<1>3. ASSUME NEW m \in Messages, UserTaps(m) PROVE UIInv'
  <2>1. PICK b \in Buttons(screen[m]) :
           Send([kind |-> b.kind, chat |-> screen[m].chat, host |-> b.host,
                 action |-> b.action, message |-> m])
    BY <1>3 DEF UserTaps
  <2>2. screen[m] \in Face \cup {Unused}
    BY DEF UIInv, TypeOK
  <2>3. /\ screen[m] \in Face
        /\ b.kind \in Tapped /\ b.host \in Hosts \cup {NoHost} /\ b.action \in Actions \cup {Nothing}
        /\ b.kind = "y" => screen[m].kind = "confirm" /\ b.host = screen[m].host
                           /\ b.action = screen[m].action
    BY <2>2, ButtonsOfAFace
  <2> DEFINE u == [kind |-> b.kind, chat |-> screen[m].chat, host |-> b.host,
                   action |-> b.action, message |-> m]
  <2>4. u \in Update
    BY <2>3 DEF Update, Face
  <2>5. u.kind = "y" => Asked(u)
    BY <2>3 DEF UIInv, FacesAsked, Asked
  <2> QED
    BY <2>1, <2>4, <2>5, SendKeeps
<1>4. ASSUME NEW m \in Messages, NEW h \in Hosts, WakeReported(m, h) PROVE UIInv'
  <2>1. /\ waking' \subseteq waking /\ screen[m] # Unused
        /\ UNCHANGED <<allowed, hosts, default, online, updates, running>>
    BY <1>4 DEF WakeReported, configVars, UIInv, WatchedSent
  <2>2. /\ screen' \in [Messages -> Face \cup {Unused}]
        /\ asked' \subseteq Chats \X Hosts \X Actions
        /\ asked \subseteq asked'
        /\ FacesAsked' /\ SentStaysSent
    <3>1. CASE NotShown
      BY <3>1 DEF NotShown, UIInv, TypeOK, FacesAsked, Asked, SentStaysSent
    <3>2. CASE Show(m, Keyboard(screen[m].chat, h))
      <4>1. screen[m].chat \in Chats
        BY <2>1 DEF UIInv, TypeOK, Face
      <4>2. Keyboard(screen[m].chat, h) \in Face /\ Keyboard(screen[m].chat, h).kind # "confirm"
        BY <4>1, FacesShown
      <4> QED
        BY <3>2, <4>2, ShowKeeps
    <3> QED
      BY <1>4, <3>1, <3>2 DEF WakeReported
  <2>3. TypeOK' /\ YesAsked' /\ RunningChecked'
    BY <2>1, <2>2 DEF UIInv, TypeOK, YesAsked, Asked, RunningChecked, Current, Authorized,
                      KnownHost, Host, Confirmed
  <2>4. WatchedSent'
    BY <2>1, <2>2 DEF UIInv, TypeOK, WatchedSent, SentStaysSent
  <2> QED
    BY <2>2, <2>3, <2>4 DEF UIInv
<1>5. ASSUME NEW h \in Hosts, HostChanges(h) PROVE UIInv'
  BY <1>5 DEF HostChanges, configVars, UIInv, TypeOK, FacesAsked, YesAsked, Asked, RunningChecked,
              Current, Authorized, KnownHost, Host, Confirmed, WatchedSent
<1>6. CASE HubRestarts
  <2>1. PICK k \in 0..Len(updates) : updates' = SubSeq(updates, k + 1, Len(updates))
    BY <1>6 DEF HubRestarts
  <2>2. /\ updates' \in Seq(Update)
        /\ \A i \in 1..Len(updates') : i + k \in 1..Len(updates) /\ updates'[i] = updates[i + k]
    BY <2>1, QueueSuffix DEF UIInv, TypeOK
  <2>3. TypeOK'
    BY <1>6, <2>2 DEF HubRestarts, Configured, UIInv, TypeOK
  <2>4. FacesAsked' /\ RunningChecked' /\ WatchedSent'
    BY <1>6 DEF HubRestarts, UIInv, FacesAsked, Asked, RunningChecked, WatchedSent
  <2>5. YesAsked'
    BY <1>6, <2>2 DEF HubRestarts, UIInv, YesAsked, Asked
  <2> QED
    BY <2>3, <2>4, <2>5 DEF UIInv
<1>7. CASE UNCHANGED vars
  BY <1>7 DEF vars, configVars, UIInv, TypeOK, FacesAsked, YesAsked, Asked, RunningChecked,
              Current, Authorized, KnownHost, Host, Confirmed, WatchedSent
<1> QED
  BY <1>1, <1>2, <1>3, <1>4, <1>5, <1>6, <1>7 DEF Next

\* The inductive invariant of the user interface, for any chats, hosts and messages.
THEOREM UIInvariant == Spec => []UIInv
<1>1. Init => UIInv
  BY UIInvInit
<1>2. UIInv /\ [Next]_vars => UIInv'
  BY UIInvStep
<1> QED
  BY <1>1, <1>2, PTL DEF Spec

\* Every variable has its type, and the default host is always configured
\* (config.py:91-95).
THEOREM UITypeCorrect == Spec => []TypeOK
<1>1. UIInv => TypeOK
  BY DEF UIInv
<1> QED
  BY <1>1, UIInvariant, PTL

\* No shutdown and no restart runs that the same chat was not asked about, for this
\* host and this action (bot.py:405-411).
THEOREM DestructiveOnlyConfirmed == Spec => []ConfirmedFirst
<1>1. UIInv => ConfirmedFirst
  BY HostOfCurrent DEF UIInv, ConfirmedFirst, RunningChecked, Confirmed, Asked
<1> QED
  BY <1>1, UIInvariant, PTL

\* A command that runs is within the configuration in force (bot.py:379-397).
THEOREM CommandsWithinConfiguration == Spec => []WithinConfiguration
<1>1. UIInv => WithinConfiguration
  BY DEF UIInv, WithinConfiguration, RunningChecked, Authorized, KnownHost
<1> QED
  BY <1>1, UIInvariant, PTL

(***************************************************************************)
(* What is shown, and to whom.                                             *)
(***************************************************************************)
\* The edit that a watcher will make is for an allowed chat and a configured host:
\* the configuration that its update was checked against is still in force.
WatchersWithin ==
    \A w \in waking : screen[w[1]].chat \in allowed /\ w[2] \in hosts

\* What m is made to show, if it changes.
Within(m) == screen'[m] # screen[m] =>
    screen'[m].chat \in allowed /\ screen'[m].host \in hosts \cup {NoHost}

LEMMA ShownWithin ==
    ASSUME TypeOK, NEW m \in Messages, NEW n \in Messages, NEW face, Show(m, face),
           face.chat \in allowed, face.host \in hosts \cup {NoHost}
    PROVE  Within(n)
<1>1. screen'[n] = IF n = m THEN face ELSE screen[n]
  BY DEF TypeOK, Show
<1> QED
  BY <1>1 DEF Within

LEMMA RespondWithin ==
    ASSUME UIInv, updates # <<>>, NEW n \in Messages, NEW face, Respond(face),
           face.chat \in allowed, face.host \in hosts \cup {NoHost}
    PROVE  Within(n)
<1>1. CASE NotShown
  BY <1>1 DEF NotShown, Within
<1>2. ASSUME NEW m \in Place, Show(m, face) PROVE Within(n)
  <2>1. m \in Messages
    BY HostOfCurrent DEF UIInv, Place, Update
  <2> QED
    BY <1>2, <2>1, ShownWithin DEF UIInv
<1> QED
  BY <1>1, <1>2 DEF Respond

LEMMA HandlerWithin == ASSUME UIInv, HandlerStep, NEW n \in Messages PROVE Within(n)
<1>1. updates # <<>>
  BY DEF HandlerStep, Ignored, AnswerFails, UnknownHost, Cancelled, ShowsStatus, WakesNot,
         Wakes, Asks, Refused, Runs, RunEnds, Takes, UIInv, RunningChecked
<1>2. CASE Ignored \/ AnswerFails \/ Runs
  BY <1>2 DEF Ignored, AnswerFails, Runs, NotShown, Within
<1>3. CASE UnknownHost \/ Cancelled \/ WakesNot \/ Refused \/ RunEnds
  <2>1. Authorized /\ Respond(Plain(Current.chat))
    BY <1>3 DEF UnknownHost, Cancelled, WakesNot, Refused, RunEnds, UIInv, RunningChecked
  <2> QED
    BY <1>1, <2>1, RespondWithin DEF Authorized, Plain
<1>4. CASE Wakes
  <2>1. Authorized /\ Respond(Plain(Current.chat))
    BY <1>4 DEF Wakes, Respond
  <2> QED
    BY <1>1, <2>1, RespondWithin DEF Authorized, Plain
<1>5. CASE ShowsStatus
  <2>1. Authorized /\ KnownHost /\ Respond(Keyboard(Current.chat, Host))
    BY <1>5 DEF ShowsStatus
  <2> QED
    BY <1>1, <2>1, RespondWithin DEF Authorized, KnownHost, Keyboard
<1>6. CASE Asks
  <2>1. Authorized /\ KnownHost /\ Respond(Question(Current.chat, Host, Current.action))
    BY <1>6 DEF Asks
  <2> QED
    BY <1>1, <2>1, RespondWithin DEF Authorized, KnownHost, Question
<1> QED
  BY <1>2, <1>3, <1>4, <1>5, <1>6 DEF HandlerStep

LEMMA StepWithin ==
  ASSUME UIInv, WatchersWithin, [Next]_vars, NEW n \in Messages PROVE Within(n)
<1>1. CASE HandlerStep
  BY <1>1, HandlerWithin
<1>2. ASSUME NEW m \in Messages, NEW h \in Hosts, WakeReported(m, h) PROVE Within(n)
  <2>1. screen[m].chat \in allowed /\ h \in hosts
    BY <1>2 DEF WakeReported, WatchersWithin
  <2>2. CASE NotShown
    BY <2>2 DEF NotShown, Within
  <2>3. CASE Show(m, Keyboard(screen[m].chat, h))
    BY <2>1, <2>3, ShownWithin DEF Keyboard, UIInv
  <2> QED
    BY <1>2, <2>2, <2>3 DEF WakeReported
<1>3. CASE UNCHANGED screen
  BY <1>3 DEF Within
<1> QED
  BY <1>1, <1>2, <1>3 DEF Next, UserTypes, UserTaps, Send, HostChanges, HubRestarts, vars

\* A restart, the only step that changes the configuration, leaves no watcher; every
\* other step shows the messages that are watched to allowed chats only.
LEMMA WatchersStayWithin ==
  ASSUME UIInv, WatchersWithin, [Next]_vars PROVE WatchersWithin'
<1>1. CASE HubRestarts
  BY <1>1 DEF HubRestarts, WatchersWithin
<1>2. CASE waking' \subseteq waking /\ UNCHANGED configVars
  <2> SUFFICES ASSUME NEW w \in waking' PROVE screen'[w[1]].chat \in allowed' /\ w[2] \in hosts'
    BY DEF WatchersWithin
  <2>1. w \in waking /\ w[1] \in Messages
    BY <1>2 DEF UIInv, TypeOK
  <2> QED
    BY <1>2, <2>1, StepWithin DEF WatchersWithin, Within, configVars
<1>3. CASE Wakes
  <2>1. PICK m \in Place : Show(m, Plain(Current.chat)) /\ waking' = waking \cup {<<m, Host>>}
    BY <1>3 DEF Wakes
  <2>2. Authorized /\ KnownHost /\ updates # <<>> /\ UNCHANGED configVars
    BY <1>3 DEF Wakes, Takes, Done
  <2>3. m \in Messages /\ screen' = [screen EXCEPT ![m] = Plain(Current.chat)]
    BY <2>1, <2>2, HostOfCurrent DEF UIInv, Place, Update, Show
  <2>4. screen'[m].chat \in allowed /\ Host \in hosts
    BY <2>2, <2>3 DEF UIInv, TypeOK, Plain, Authorized, KnownHost
  <2> SUFFICES ASSUME NEW w \in waking' PROVE screen'[w[1]].chat \in allowed' /\ w[2] \in hosts'
    BY DEF WatchersWithin
  <2>5. CASE w = <<m, Host>>
    BY <2>2, <2>4, <2>5 DEF configVars
  <2>6. CASE w \in waking
    <3>1. w[1] \in Messages
      BY <2>6 DEF UIInv, TypeOK
    <3> QED
      BY <2>2, <2>6, <3>1, StepWithin DEF WatchersWithin, Within, configVars
  <2> QED
    BY <2>1, <2>5, <2>6
<1> QED
  BY <1>1, <1>2, <1>3 DEF Next, HandlerStep, Ignored, AnswerFails, UnknownHost, Cancelled, ShowsStatus,
     WakesNot, Asks, Refused, Runs, RunEnds, Done, UserTypes, UserTaps, Send, WakeReported, HostChanges, vars

\* Every answer and every edit goes to an allowed chat and is about a configured host,
\* also when the configuration has changed since the message was sent.
THEOREM AnswersStayWithin == Spec => AnswersWithinConfiguration
<1>1. Init => WatchersWithin
  BY DEF Init, WatchersWithin
<1>2. UIInv /\ WatchersWithin /\ [Next]_vars => WatchersWithin'
  BY WatchersStayWithin
<1>3. UIInv /\ WatchersWithin /\ [Next]_vars => [\A m \in Messages : Within(m)]_vars
  BY StepWithin
<1> QED
  BY <1>1, <1>2, <1>3, UIInvariant, PTL DEF Spec, AnswersWithinConfiguration, Within
=============================================================================
