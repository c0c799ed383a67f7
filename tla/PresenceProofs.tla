--------------------------- MODULE PresenceProofs ---------------------------
(***************************************************************************)
(* Proofs about Presence, for any number of agents that share the name and *)
(* any length of the hub's queue.                                          *)
(***************************************************************************)
EXTENDS Presence, SequenceTheorems, TLAPS

(***************************************************************************)
(* What is on the wire.                                                    *)
(***************************************************************************)
\* The two ways in which the agent writes keep the wire one of Wires.
LEMMA Written ==
  /\ Append(<<>>, "online") = <<"online">>
  /\ Append(Append(<<>>, "offline"), "bye") = <<"offline", "bye">>
  /\ Append(Append(<<"online">>, "offline"), "bye") = <<"online", "offline", "bye">>
<1> DEFINE Packet == {"online", "offline", "bye"}
<1>1. Append(<<>>, "online") = <<"online">> /\ Append(<<>>, "offline") = <<"offline">>
  OBVIOUS
<1>2. ASSUME NEW x \in Packet, NEW y \in Packet PROVE Append(<<x>>, y) = <<x, y>>
  <2>1. <<x>> \in Seq(Packet) /\ Len(<<x>>) = 1
    OBVIOUS
  <2>2. Append(<<x>>, y) \in Seq(Packet) /\ <<x, y>> \in Seq(Packet)
    BY <2>1, AppendProperties
  <2>3. Len(Append(<<x>>, y)) = 2 /\ Append(<<x>>, y)[1] = x /\ Append(<<x>>, y)[2] = y
    BY <2>1, AppendProperties
  <2>4. Len(<<x, y>>) = 2 /\ <<x, y>>[1] = x /\ <<x, y>>[2] = y
    OBVIOUS
  <2>5. \A i \in 1..2 : Append(<<x>>, y)[i] = <<x, y>>[i]
    BY <2>3, <2>4
  <2> HIDE DEF Packet
  <2> QED
    BY <2>2, <2>3, <2>4, <2>5, SeqEqual
<1>3. Append(<<"online", "offline">>, "bye") = <<"online", "offline", "bye">>
  <2> DEFINE two == <<"online", "offline">>
             three == <<"online", "offline", "bye">>
  <2>1. two \in Seq(Packet) /\ Len(two) = 2 /\ two[1] = "online" /\ two[2] = "offline"
    OBVIOUS
  <2>2. /\ three \in Seq(Packet) /\ Len(three) = 3
        /\ three[1] = "online" /\ three[2] = "offline" /\ three[3] = "bye"
    OBVIOUS
  <2> HIDE DEF two, three
  <2>3. /\ Append(two, "bye") \in Seq(Packet) /\ Len(Append(two, "bye")) = 3
        /\ Append(two, "bye")[1] = "online" /\ Append(two, "bye")[2] = "offline"
        /\ Append(two, "bye")[3] = "bye"
    <3>1. ASSUME NEW s \in Seq(Packet), NEW p \in Packet, Len(s) = 2
          PROVE  /\ Append(s, p) \in Seq(Packet) /\ Len(Append(s, p)) = 3
                 /\ Append(s, p)[1] = s[1] /\ Append(s, p)[2] = s[2] /\ Append(s, p)[3] = p
      <4> HIDE DEF Packet
      <4>1. Append(s, p) \in Seq(Packet)
        BY <3>1
      <4>2. Len(Append(s, p)) = Len(s) + 1 /\ Append(s, p)[Len(s) + 1] = p
        BY AppendProperties
      <4>3. Len(Append(s, p)) = 3 /\ Append(s, p)[3] = p
        BY <3>1, <4>2
      <4>4. Append(s, p)[1] = s[1]
        BY <3>1
      <4>5. Append(s, p)[2] = s[2]
        BY <3>1
      <4> QED
        BY <4>1, <4>3, <4>4, <4>5
    <3>2. "bye" \in Packet
      OBVIOUS
    <3> QED
      BY <2>1, <3>1, <3>2
  <2>4. \A i \in 1..3 : Append(two, "bye")[i] = three[i]
    BY <2>2, <2>3
  <2>5. Append(two, "bye") = three
    <3> HIDE DEF Packet
    <3> QED
      BY <2>2, <2>3, <2>4, SeqEqual
  <2> QED
    BY <2>5 DEF two, three
<1> QED
  BY <1>1, <1>2, <1>3

\* An empty wire and an empty queue.
LEMMA Empty == <<>> \in Wires /\ <<>> \in Seq(Presence) /\ <<>> # <<"bye">>
  BY DEF Wires

\* What the broker reads next, and what it leaves.
LEMMA ReadOff ==
  ASSUME NEW packets \in Wires, packets # <<>>, Head(packets) # "bye"
  PROVE  /\ Head(packets) \in Presence
         /\ Tail(packets) \in Wires
         /\ packets = <<"online">> => Tail(packets) = <<>> /\ Head(packets) = "online"
         /\ Tail(packets) = <<"bye">> => Head(packets) = "offline"
         /\ Tail(packets) = <<>> => packets = <<"online">>
<1>1. CASE packets = <<"online">>
  <2>1. Tail(packets) = <<>> /\ Head(packets) = "online"
    BY <1>1
  <2> QED
    BY <1>1, <2>1 DEF Wires, Presence
<1>2. CASE packets = <<"online", "offline", "bye">>
  <2>1. Tail(packets) = <<"offline", "bye">> /\ Head(packets) = "online"
    BY <1>2
  <2> QED
    BY <1>2, <2>1 DEF Wires, Presence
<1>3. CASE packets = <<"offline", "bye">>
  <2>1. Tail(packets) = <<"bye">> /\ Head(packets) = "offline"
    BY <1>3
  <2> QED
    BY <1>3, <2>1 DEF Wires, Presence
<1>4. packets # <<"bye">>
  OBVIOUS
<1> QED
  BY <1>1, <1>2, <1>3, <1>4 DEF Wires

(***************************************************************************)
(* The inductive invariant.                                                *)
(***************************************************************************)
\* A connection that is up belongs to a running client, which has written at most
\* its "online" to it, and nothing before its CONNACK; only a closed one carries a
\* DISCONNECT, and by the time it comes next the topic says "offline".
WireInv ==
  /\ holder = Nobody => wire = <<>> /\ ~live
  /\ live => client[holder] \in {"connecting", "connected"}
  /\ live => wire \in {<<>>, <<"online">>}
  /\ live /\ client[holder] = "connecting" => wire = <<>>
  /\ wire = <<"bye">> => retained = "offline"

\* A topic that has no status has never had one since the hub or the broker started:
\* nothing is queued for the hub, and what it may still believe is from before a crash
\* of the broker, to which the next connection of an agent puts an end.
UnsetInv ==
  retained = Unset =>
    /\ feed = <<>>
    /\ holder = Nobody /\ ~forgotten => presence = Unset

PresenceInv ==
  TypeOK /\ WireInv /\ UnsetInv /\ NoFalseOnline /\ NoFalseOffline /\ HubFollowsTopic

LEMMA InitInv == Init => PresenceInv
<1> SUFFICES ASSUME Init PROVE PresenceInv
  OBVIOUS
<1> QED
  BY Empty, NobodyAssumption DEF Init, PresenceInv, TypeOK, WireInv, UnsetInv, NoFalseOnline,
     NoFalseOffline, HubFollowsTopic, Client, Status, Unset, Serving

LEMMA PresenceIsSet == Unset \notin Presence
  BY DEF Presence, Unset

\* A status that the broker publishes reaches a hub that follows the topic.
LEMMA Followed ==
  ASSUME NEW p \in Presence, PresenceInv, Publish(p), session' = session, presence' = presence
  PROVE  HubFollowsTopic' /\ retained' = p /\ feed' \in Seq(Presence)
<1>1. feed \in Seq(Presence)
  BY DEF PresenceInv, TypeOK
<1>2. CASE session = "up"
  <2>1. feed' = Append(feed, p) /\ retained' = p
    BY <1>2 DEF Publish
  <2>2. feed' # <<>> /\ feed'[Len(feed')] = p /\ feed' \in Seq(Presence)
    BY <1>1, <2>1
  <2> QED
    BY <1>2, <2>1, <2>2 DEF HubFollowsTopic
<1>3. CASE session # "up"
  BY <1>1, <1>3 DEF Publish, HubFollowsTopic
<1> QED
  BY <1>2, <1>3

\* The will leaves the topic "offline" and the connection free.
LEMMA WillKeeps ==
  ASSUME PresenceInv, PublishWill,
         UNCHANGED <<agentVars, saved, forgotten, session, presence>>
  PROVE  PresenceInv'
<1>1. "offline" \in Presence
  BY DEF Presence
<1>2. HubFollowsTopic' /\ retained' = "offline" /\ feed' \in Seq(Presence)
  BY <1>1, Followed DEF PublishWill
<1>3. holder' = Nobody /\ live' = FALSE /\ wire' = <<>>
  BY DEF PublishWill
<1> QED
  BY <1>1, <1>2, <1>3, Empty, PresenceIsSet, NobodyAssumption DEF PresenceInv, TypeOK, WireInv,
     UnsetInv, NoFalseOnline, NoFalseOffline, Serving, Status, agentVars

LEMMA BrokerKeeps == ASSUME PresenceInv, BrokerStep PROVE PresenceInv'
<1>0. <<>> # <<"bye">> /\ <<>> # <<"online">>
  OBVIOUS
<1>1. CASE BrokerReadsStatus
  <2>1. wire \in Wires /\ wire # <<>> /\ Head(wire) # "bye" /\ holder \in Agents
    BY <1>1 DEF BrokerReadsStatus, PresenceInv, TypeOK
  <2>2. /\ Head(wire) \in Presence
        /\ Tail(wire) \in Wires
        /\ wire = <<"online">> => Tail(wire) = <<>> /\ Head(wire) = "online"
        /\ Tail(wire) = <<"bye">> => Head(wire) = "offline"
        /\ Tail(wire) = <<>> => wire = <<"online">>
    BY <2>1, ReadOff
  <2>3. /\ Publish(Head(wire))
        /\ wire' = Tail(wire)
        /\ UNCHANGED <<client, machine, holder, live, saved, forgotten, session, presence>>
    BY <1>1 DEF BrokerReadsStatus, agentVars
  <2>4. HubFollowsTopic' /\ retained' = Head(wire) /\ feed' \in Seq(Presence)
    BY <2>2, <2>3, Followed
  <2>5. TypeOK'
    BY <2>2, <2>3, <2>4 DEF PresenceInv, TypeOK, Status
  <2>6. WireInv'
    BY <2>1, <2>2, <2>3, <2>4, <1>0, NobodyAssumption DEF PresenceInv, WireInv
  <2>7. NoFalseOnline' /\ NoFalseOffline'
    BY <2>1, <2>2, <2>3, <2>4, NobodyAssumption
       DEF PresenceInv, WireInv, UnsetInv, NoFalseOnline, NoFalseOffline, Serving
  <2>8. UnsetInv'
    BY <2>2, <2>4, PresenceIsSet DEF UnsetInv
  <2> QED
    BY <2>4, <2>5, <2>6, <2>7, <2>8 DEF PresenceInv
<1>2. CASE BrokerReadsBye
  BY <1>2, <1>0, NobodyAssumption DEF BrokerReadsBye, PresenceInv, TypeOK, WireInv, UnsetInv, NoFalseOnline,
     NoFalseOffline, HubFollowsTopic, Serving, Wires, Unset, agentVars, hubVars
<1>3. CASE BrokerNotices
  BY <1>3, WillKeeps DEF BrokerNotices
<1>4. CASE KeepaliveExpires
  BY <1>4, WillKeeps DEF KeepaliveExpires
<1>5. CASE BrokerSaves
  BY <1>5 DEF BrokerSaves, PresenceInv, TypeOK, WireInv, UnsetInv, NoFalseOnline,
     NoFalseOffline, HubFollowsTopic, Serving, agentVars, hubVars
<1>6. CASE BrokerCrashes
  BY <1>6, Empty, NobodyAssumption DEF BrokerCrashes, PresenceInv, TypeOK, WireInv,
     UnsetInv, NoFalseOnline, NoFalseOffline, HubFollowsTopic, Serving, agentVars
<1> QED
  BY <1>1, <1>2, <1>3, <1>4, <1>5, <1>6 DEF BrokerStep

LEMMA AcceptKeeps == ASSUME PresenceInv, NEW a \in Agents, BrokerAccepts(a) PROVE PresenceInv'
<1>0. <<>> # <<"bye">>
  OBVIOUS
<1>1. "offline" \in Presence
  BY DEF Presence
<1>2. HubFollowsTopic' /\ retained' \in Status /\ feed' \in Seq(Presence)
  <2>1. CASE holder = Nobody
    BY <2>1 DEF BrokerAccepts, PresenceInv, TypeOK, HubFollowsTopic
  <2>2. CASE holder # Nobody
    BY <2>2, <1>1, Followed DEF BrokerAccepts, Status
  <2> QED
    BY <2>1, <2>2
<1>3. /\ client' = [client EXCEPT ![a] = "connecting"]
      /\ holder' = a /\ live' /\ wire' = <<>> /\ ~forgotten'
      /\ UNCHANGED <<machine, saved, session, presence>>
  BY DEF BrokerAccepts
<1>4. client'[a] = "connecting" /\ client' \in [Agents -> Client]
  BY <1>3 DEF PresenceInv, TypeOK, Client
<1>5. forgotten' = FALSE /\ live' = TRUE
  BY DEF BrokerAccepts
<1>6. UnsetInv'
  <2>1. retained' = Unset => retained = Unset /\ feed' = feed
    BY <1>1, PresenceIsSet DEF BrokerAccepts, Publish
  <2> QED
    BY <1>3, <2>1, NobodyAssumption DEF PresenceInv, UnsetInv
<1> QED
  BY <1>0, <1>2, <1>3, <1>4, <1>5, <1>6, NobodyAssumption
     DEF PresenceInv, TypeOK, WireInv, NoFalseOnline, NoFalseOffline, Serving, Wires

LEMMA AgentKeeps == ASSUME PresenceInv, NEW a \in Agents, AgentStep(a) PROVE PresenceInv'
<1>0. /\ <<>> # <<"bye">> /\ <<>> # <<"online">> /\ <<"online">> # <<"bye">>
      /\ <<"offline", "bye">> # <<"bye">> /\ <<"online", "offline", "bye">> # <<"bye">>
      /\ <<"offline", "bye">> # <<>> /\ <<"online", "offline", "bye">> # <<>>
  OBVIOUS
<1> USE NobodyAssumption DEF PresenceInv, TypeOK, WireInv, UnsetInv, NoFalseOnline, NoFalseOffline,
        HubFollowsTopic, Serving, Client, brokerVars, hubVars
<1>1. CASE AgentStarts(a)
  BY <1>1 DEF AgentStarts
<1>2. CASE BrokerAccepts(a)
  BY <1>2, AcceptKeeps
<1>3. CASE OnConnect(a)
  <2>1. wire = <<>> /\ wire' = <<"online">> /\ client' = [client EXCEPT ![a] = "connected"]
    BY <1>3, Written DEF OnConnect
  <2>2. wire' \in Wires
    BY <2>1 DEF Wires
  <2> QED
    BY <1>0, <1>3, <2>1, <2>2 DEF OnConnect
<1>4. CASE OnDisconnect(a)
  BY <1>4 DEF OnDisconnect
<1>5. CASE LinkBreaks(a)
  BY <1>5 DEF LinkBreaks
<1>6. CASE AgentDies(a)
  BY <1>6 DEF AgentDies
<1>7. CASE Stop(a)
  <2>1. CASE Serving(a)
    <3>1. wire \in {<<>>, <<"online">>} /\ wire' = Append(Append(wire, "offline"), "bye") /\ ~live'
      BY <1>7, <2>1 DEF Stop
    <3>2. wire' \in {<<"offline", "bye">>, <<"online", "offline", "bye">>}
      BY <3>1, Written
    <3>3. wire' \in Wires /\ wire' # <<"bye">> /\ wire' # <<>>
      BY <3>2, <1>0 DEF Wires
    <3>4. live' = FALSE
      BY <1>7, <2>1 DEF Stop
    <3> QED
      BY <1>7, <2>1, <3>3, <3>4 DEF Stop
  <2>2. CASE ~Serving(a)
    BY <1>7, <2>2 DEF Stop
  <2> QED
    BY <2>1, <2>2
<1>8. CASE Sleeps(a) \/ Resumes(a)
  BY <1>8 DEF Sleeps, Resumes
<1> QED
  BY <1>1, <1>2, <1>3, <1>4, <1>5, <1>6, <1>7, <1>8 DEF AgentStep

LEMMA HubKeeps == ASSUME PresenceInv, HubStep PROVE PresenceInv'
<1>1. CASE HubSubscribes
  <2>1. CASE retained = Unset
    BY <1>1, <2>1 DEF HubSubscribes, PresenceInv, TypeOK, WireInv, UnsetInv, NoFalseOnline,
       NoFalseOffline, HubFollowsTopic, Serving, agentVars, brokerVars
  <2>2. CASE retained # Unset
    <3>1. retained \in Presence
      BY <2>2 DEF PresenceInv, TypeOK, Status
    <3>2. feed' = <<retained>>
      BY <1>1, <2>2 DEF HubSubscribes
    <3>3. feed' \in Seq(Presence) /\ feed' # <<>> /\ feed'[Len(feed')] = retained
      BY <3>1, <3>2
    <3> QED
      BY <1>1, <3>3 DEF HubSubscribes, PresenceInv, TypeOK, WireInv, UnsetInv, NoFalseOnline,
         NoFalseOffline, HubFollowsTopic, Serving, agentVars, brokerVars
  <2> QED
    BY <2>1, <2>2
<1>2. CASE HubReads
  <2>1. feed \in Seq(Presence) /\ feed # <<>>
    BY <1>2 DEF HubReads, PresenceInv, TypeOK
  <2>2. presence' = Head(feed) /\ feed' = Tail(feed)
    BY <1>2 DEF HubReads
  <2>3. presence' \in Presence /\ feed' \in Seq(Presence)
    BY <2>1, <2>2
  <2>4. feed[Len(feed)] = IF feed' = <<>> THEN presence' ELSE feed'[Len(feed')]
    <3>1. CASE Len(feed) = 1
      BY <2>1, <2>2, <3>1
    <3>2. CASE Len(feed) # 1
      <4>0. Len(feed) \in Nat \ {0}
        BY <2>1, EmptySeq, ZenonT(30)
      <4>1. Len(feed) \in Nat /\ Len(feed) > 1
        <5>1. \A n \in Nat \ {0} : n # 1 => n \in Nat /\ n > 1
          OBVIOUS
        <5> QED
          BY <3>2, <4>0, <5>1, Zenon
      <4>2. Len(feed') = Len(feed) - 1 /\ feed' # <<>>
        <5>1. Len(feed') = Len(feed) - 1
          BY <2>1, <2>2, HeadTailProperties
        <5>2. Len(<<>>) = 0
          OBVIOUS
        <5> QED
          BY <4>1, <5>1, <5>2
      <4>3. feed'[Len(feed) - 1] = feed[Len(feed)]
        BY <2>1, <2>2, <4>1, <4>2, HeadTailProperties
      <4> QED
        BY <4>2, <4>3
    <3> QED
      BY <3>1, <3>2
  <2> QED
    BY <1>2, <2>1, <2>3, <2>4 DEF HubReads, PresenceInv, TypeOK, WireInv, UnsetInv, NoFalseOnline,
       NoFalseOffline, HubFollowsTopic, Serving, Status, agentVars, brokerVars
<1>3. CASE HubSessionEnds
  BY <1>3 DEF HubSessionEnds, PresenceInv, TypeOK, WireInv, UnsetInv, NoFalseOnline,
     NoFalseOffline, HubFollowsTopic, Serving, Status, agentVars, brokerVars
<1> QED
  BY <1>1, <1>2, <1>3 DEF HubStep

LEMMA NextKeeps == PresenceInv /\ [Next]_vars => PresenceInv'
<1> SUFFICES ASSUME PresenceInv, [Next]_vars PROVE PresenceInv'
  OBVIOUS
<1>1. CASE UNCHANGED vars
  BY <1>1 DEF PresenceInv, TypeOK, WireInv, UnsetInv, NoFalseOnline, NoFalseOffline, HubFollowsTopic,
     Serving, vars, agentVars, brokerVars, hubVars
<1> QED
  BY <1>1, AgentKeeps, BrokerKeeps, HubKeeps DEF Next

LEMMA Invariance == Spec => []PresenceInv
  BY InitInv, NextKeeps, PTL DEF Spec

(***************************************************************************)
(* The theorems.                                                           *)
(***************************************************************************)
\* Every variable keeps its type; on the wire there is never anything but what
\* _on_connect and stop() write, in their order.
THEOREM PresenceTypeCorrect == Spec => []TypeOK
<1>1. PresenceInv => TypeOK
  BY DEF PresenceInv
<1> QED
  BY <1>1, Invariance, PTL

\* Will and parting status: only a crash of the broker leaves a false "online".
THEOREM NoFalseOnlineLeft == Spec => []NoFalseOnline
<1>1. PresenceInv => NoFalseOnline
  BY DEF PresenceInv
<1> QED
  BY <1>1, Invariance, PTL

\* No will of an old connection, nor a takeover, overwrites a newer "online".
THEOREM NoFalseOfflineLeft == Spec => []NoFalseOffline
<1>1. PresenceInv => NoFalseOffline
  BY DEF PresenceInv
<1> QED
  BY <1>1, Invariance, PTL

\* The hub's view is the topic, up to what is still queued for it.
THEOREM HubInStep == Spec => []HubFollowsTopic
<1>1. PresenceInv => HubFollowsTopic
  BY DEF PresenceInv
<1> QED
  BY <1>1, Invariance, PTL

\* A hub that has read all it was sent believes what is the case.
THEOREM HubBelievesTruth == Spec => []BeliefIsTrue
<1>1. PresenceInv => BeliefIsTrue
  BY DEF PresenceInv, TypeOK, Status, Presence, Unset, UnsetInv, NoFalseOnline, NoFalseOffline,
     HubFollowsTopic, BeliefIsTrue
<1> QED
  BY <1>1, Invariance, PTL
=============================================================================
