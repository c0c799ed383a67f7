----------------------- MODULE CommandPromiseProofs -----------------------
(***************************************************************************)
(* What follows from the promise alone, for any commands and actions: it   *)
(* is no empty one. Whatever implements it inherits these theorems.        *)
(***************************************************************************)
EXTENDS CommandPromise, TLAPS

PromiseTypeOK ==
  /\ asked \subseteq Commands
  /\ said \subseteq Acks
  /\ performed \in [Commands -> Nat]
  /\ told \in [Commands -> {"none", "unavailable", "not_sent", "timeout", "acked", "refused", "silent"}]

\* Of a command that has not left the hub nothing is known but that it was declined.
UnaskedUntouched == \A c \in Commands \ asked :
  /\ told[c] \in {"none", "unavailable"}
  /\ performed[c] = 0
  /\ \A ok \in BOOLEAN : Ack(c, ok) \notin said

\* A command that was declined for want of a host never leaves the hub.
DeclinedStays == \A c \in asked : told[c] # "unavailable"

PromiseInv == PromiseTypeOK /\ UnaskedUntouched /\ DeclinedStays /\ Kept

\* An acknowledgement names its command and its outcome.
LEMMA AckIsFor ==
  \A c, d \in Commands, ok, no \in BOOLEAN :
    /\ Ack(c, ok) \in Acks
    /\ Ack(c, ok) = Ack(d, no) <=> c = d /\ ok = no
  BY DEF Ack, Acks

LEMMA PromiseInvInit == Init => PromiseInv
  BY DEF Init, PromiseInv, PromiseTypeOK, UnaskedUntouched, DeclinedStays, Kept

LEMMA AskKeeps == ASSUME PromiseInv, NEW c \in Commands, Ask(c) PROVE PromiseInv'
  BY DEF Ask, PromiseInv, PromiseTypeOK, UnaskedUntouched, DeclinedStays, Kept

LEMMA DeclineKeeps ==
  ASSUME PromiseInv, NEW c \in Commands, NEW outcome \in {"unavailable", "not_sent", "silent"},
         Decline(c, outcome)
  PROVE  PromiseInv'
  BY DEF Decline, PromiseInv, PromiseTypeOK, UnaskedUntouched, DeclinedStays, Kept

LEMMA TellKeeps ==
  ASSUME PromiseInv, NEW c \in Commands,
         NEW outcome \in {"not_sent", "timeout", "acked", "refused", "silent"}, Tell(c, outcome)
  PROVE  PromiseInv'
  BY DEF Tell, PromiseInv, PromiseTypeOK, UnaskedUntouched, DeclinedStays, Kept

LEMMA SayKeeps ==
  ASSUME PromiseInv, NEW c \in Commands, NEW ok \in BOOLEAN, Say(c, ok)
  PROVE  PromiseInv'
<1>1. \A d \in Commands, no \in BOOLEAN :
        Ack(d, no) \in said' <=> Ack(d, no) \in said \/ (d = c /\ no = ok)
  BY AckIsFor DEF Say
<1>2. PromiseTypeOK'
  BY AckIsFor DEF Say, PromiseInv, PromiseTypeOK
<1>3. UnaskedUntouched' /\ DeclinedStays'
  BY <1>1 DEF Say, PromiseInv, UnaskedUntouched, DeclinedStays
<1>4. Kept'
  BY <1>1 DEF Say, PromiseInv, PromiseTypeOK, DeclinedStays, Kept
<1> QED
  BY <1>2, <1>3, <1>4 DEF PromiseInv

LEMMA PerformKeeps == ASSUME PromiseInv, NEW c \in Commands, Perform(c) PROVE PromiseInv'
<1>1. /\ performed' = [performed EXCEPT ![c] = 1] /\ UNCHANGED <<asked, told>>
      /\ c \in asked /\ performed[c] = 0
      /\ TakesHostDown(ActionOf[c]) => Ack(c, TRUE) \in said
  BY DEF Perform
<1>2. /\ said \subseteq said' /\ said' \subseteq Acks
      /\ \A d \in Commands, ok \in BOOLEAN : Ack(d, ok) \in said' => Ack(d, ok) \in said \/ d = c
  BY AckIsFor DEF Perform, PromiseInv, PromiseTypeOK
<1>3. PromiseTypeOK'
  BY <1>1, <1>2 DEF PromiseInv, PromiseTypeOK
<1>4. UnaskedUntouched' /\ DeclinedStays'
  BY <1>1, <1>2 DEF PromiseInv, PromiseTypeOK, UnaskedUntouched, DeclinedStays
<1>5. Kept'
  <2> SUFFICES ASSUME NEW d \in Commands
               PROVE  /\ performed'[d] <= 1
                      /\ performed'[d] = 1 /\ TakesHostDown(ActionOf[d]) => Ack(d, TRUE) \in said'
                      /\ Ack(d, TRUE) \in said' /\ ~TakesHostDown(ActionOf[d]) => performed'[d] = 1
                      /\ told'[d] = "acked" => Ack(d, TRUE) \in said'
                      /\ told'[d] = "refused" => Ack(d, FALSE) \in said'
                      /\ told'[d] = "unavailable" =>
                            performed'[d] = 0 /\ \A ok \in BOOLEAN : Ack(d, ok) \notin said'
    BY DEF Kept
  <2>1. CASE d = c
    <3>1. performed'[c] = 1 /\ told'[c] = told[c] /\ told[c] # "unavailable"
      BY <1>1 DEF PromiseInv, PromiseTypeOK, DeclinedStays
    <3>2. /\ Ack(c, TRUE) \in said => Ack(c, TRUE) \in said'
          /\ Ack(c, FALSE) \in said => Ack(c, FALSE) \in said'
      BY <1>2
    <3>3. told[c] = "acked" => Ack(c, TRUE) \in said
      BY DEF PromiseInv, Kept
    <3>4. told[c] = "refused" => Ack(c, FALSE) \in said
      BY DEF PromiseInv, Kept
    <3>5. performed'[c] <= 1
      BY <3>1
    <3> QED
      BY <1>1, <2>1, <3>1, <3>2, <3>3, <3>4, <3>5
  <2>2. CASE d # c
    BY <1>1, <1>2, <2>2 DEF PromiseInv, PromiseTypeOK, Kept
  <2> QED
    BY <2>1, <2>2
<1> QED
  BY <1>3, <1>4, <1>5 DEF PromiseInv

LEMMA PromiseInvStep == PromiseInv /\ [Next]_promiseVars => PromiseInv'
<1> SUFFICES ASSUME PromiseInv, [Next]_promiseVars PROVE PromiseInv'
  OBVIOUS
<1>1. CASE UNCHANGED promiseVars
  BY <1>1 DEF promiseVars, PromiseInv, PromiseTypeOK, UnaskedUntouched, DeclinedStays, Kept
<1> QED
  BY <1>1, AskKeeps, DeclineKeeps, SayKeeps, PerformKeeps, TellKeeps DEF Next

LEMMA PromiseInvariant == Promise => []PromiseInv
  BY PromiseInvInit, PromiseInvStep, PTL DEF Promise

\* The promise is kept in every state.
THEOREM PromiseKept == Promise => []Kept
<1>1. PromiseInv => Kept
  BY DEF PromiseInv
<1> QED
  BY <1>1, PromiseInvariant, PTL

\* And by every step: a no is final, and so is what was said and told.
THEOREM PromiseKeptByStep == Promise => KeptByStep
<1> DEFINE ByStep == \A c \in Commands :
        /\ performed'[c] # performed[c] => Ack(c, FALSE) \notin said /\ told[c] # "unavailable"
        /\ \A ok \in BOOLEAN : Ack(c, ok) \in said => Ack(c, ok) \in said'
        /\ told[c] # "none" => told'[c] = told[c]
<1>1. ASSUME PromiseInv, Next PROVE ByStep
  <2>1. ASSUME NEW c \in Commands, Ask(c) PROVE ByStep
    BY <2>1 DEF Ask
  <2>2. ASSUME NEW c \in Commands, NEW outcome, Decline(c, outcome) \/ Tell(c, outcome) PROVE ByStep
    BY <1>1, <2>2 DEF Decline, Tell, PromiseInv, PromiseTypeOK
  <2>3. ASSUME NEW c \in Commands, NEW ok \in BOOLEAN, Say(c, ok) PROVE ByStep
    BY <2>3 DEF Say
  <2>4. ASSUME NEW c \in Commands, Perform(c) PROVE ByStep
    BY <1>1, <2>4 DEF Perform, PromiseInv, PromiseTypeOK, DeclinedStays
  <2> QED
    BY <1>1, <2>1, <2>2, <2>3, <2>4 DEF Next
<1>2. PromiseInv /\ [Next]_promiseVars => [ByStep]_promiseVars
  BY <1>1
<1> QED
  BY <1>2, PromiseInvariant, PTL DEF Promise, KeptByStep
=============================================================================
