------------------------ MODULE SyncParametersProofs ------------------------
(***************************************************************************)
(* What is proved of SyncParameters, for all parameters, clocks and        *)
(* bounds: its types, that an end without changes of its own stays silent, *)
(* that a change made at rest is not acknowledged before it arrived, and   *)
(* that no end stops sending before anything of it arrived.                *)
(***************************************************************************)
EXTENDS SyncParameters, TLAPS

USE NodeAssumption, ClockAssumption, BoundsAssumption DEF Node

LEMMA PeerFacts ==
    \A n \in Node : /\ Peer(n) \in Node /\ Peer(n) # n /\ Peer(Peer(n)) = n
  BY DEF Peer

LEMMA BestIsValue ==
    ASSUME TypeOK, NEW n \in Node, NEW p \in Param, NEW isLocal \in BOOLEAN
    PROVE  BestValue(n, p, isLocal) \in Value
  BY DEF BestValue, TypeOK

-----------------------------------------------------------------------------
(* Types *)

LEMMA InitType == Init => TypeOK
  <1> SUFFICES ASSUME Init PROVE TypeOK
    OBVIOUS
  <1>1. Initial \in Value
    BY DEF Initial, Value
  <1>2. QED
    BY <1>1 DEF Init, TypeOK

LEMMA StepType == TypeOK /\ [Next]_vars => TypeOK'
  <1> SUFFICES ASSUME TypeOK, [Next]_vars PROVE TypeOK'
    OBVIOUS
  <1>1. CASE \E n \in Node, p \in Param : SetLocalValue(n, p)
    <2> PICK n \in Node, p \in Param : SetLocalValue(n, p)
      BY <1>1
    <2>1. [by |-> n, change |-> changes[n] + 1] \in Value
      BY DEF TypeOK, Value
    <2>2. local' \in [Node -> [Param -> Value]]
      BY <2>1 DEF SetLocalValue, TypeOK
    <2>3. QED
      BY <2>2 DEF SetLocalValue, TypeOK
  <1>2. CASE \E n \in Node : Update(n)
    <2> PICK n \in Node : Update(n)
      BY <1>2
    <2>1. Time(n) \in Nat
      BY DEF Time, TypeOK
    <2>2. QED
      BY <2>1 DEF Update, TypeOK, values, environment
  <1>3. CASE \E n \in Node : Send(n)
    <2> PICK n \in Node : Send(n)
      BY <1>3
    <2> DEFINE m == [to |-> Peer(n), now |-> now[n],
                     sync |-> [p \in syncBits[n] |-> BestValue(n, p, FALSE)],
                     ack |-> ackBits[n]]
    <2>1. \A p \in syncBits[n] : BestValue(n, p, FALSE) \in Value
      BY BestIsValue DEF TypeOK
    <2>2. m.to \in Node /\ m.now \in Nat /\ m.ack \subseteq Param
      BY PeerFacts DEF TypeOK
    <2>3. m.sync \in [DOMAIN m.sync -> Value] /\ DOMAIN m.sync \subseteq Param
      BY <2>1 DEF TypeOK
    <2>4. net' = net \cup {m}
      BY DEF Send
    <2> HIDE DEF m
    <2>5. \A x \in net' : /\ x.to \in Node /\ x.now \in Nat /\ x.ack \subseteq Param
                          /\ x.sync \in [DOMAIN x.sync -> Value] /\ DOMAIN x.sync \subseteq Param
      BY <2>2, <2>3, <2>4 DEF TypeOK
    <2>6. QED
      BY <2>5 DEF Send, TypeOK, values, environment
  <1>4. CASE \E n \in Node : \E m \in InTransit(n), again \in BOOLEAN : Receive(n, m, again)
    <2> PICK n \in Node : \E m \in InTransit(n), again \in BOOLEAN : Receive(n, m, again)
      BY <1>4
    <2> PICK m \in InTransit(n), again \in BOOLEAN : Receive(n, m, again)
      OBVIOUS
    <2>1. /\ m \in net /\ m.now \in Nat /\ DOMAIN m.sync \subseteq Param
          /\ \A p \in DOMAIN m.sync : m.sync[p] \in Value
      BY DEF InTransit, TypeOK
    <2>2. now' \in [Node -> Nat] /\ remoteTime' \in [Node -> [Param -> Nat]]
      BY <2>1 DEF Receive, TypeOK
    <2>3. remote' \in [Node -> [Param -> Value]]
      BY <2>1 DEF Receive, TypeOK
    <2>4. needAck' \in [Node -> SUBSET Param] /\ needSync' \in [Node -> SUBSET Param]
      BY <2>1 DEF Receive, Received, StillNeeded, TypeOK
    <2>5. net' \subseteq net
      BY DEF Receive
    <2>6. QED
      BY <2>2, <2>3, <2>4, <2>5 DEF Receive, TypeOK, environment
  <1>5. CASE CalmDown
    BY <1>5 DEF CalmDown, TypeOK, values, needs
  <1>6. CASE \E m \in net : Lose(m)
    BY <1>6 DEF Lose, TypeOK, values, needs, environment
  <1>7. CASE UNCHANGED vars
    BY <1>7 DEF vars, TypeOK, values, needs, environment
  <1>8. QED
    BY <1>1, <1>2, <1>3, <1>4, <1>5, <1>6, <1>7 DEF Next

\* The state is of its types, for all parameters, clocks and bounds.
THEOREM TypesHold == Spec => []TypeOK
  BY InitType, StepType, PTL DEF Spec

-----------------------------------------------------------------------------
(* An end without changes *)

LEMMA InitSilent == Init => SilentEndSendsNothing
  BY PeerFacts DEF Init, SilentEndSendsNothing, Silent, InTransit

LEMMA StepSilent ==
    TypeOK /\ SilentEndSendsNothing /\ [Next]_vars => SilentEndSendsNothing'
  <1> SUFFICES ASSUME TypeOK, SilentEndSendsNothing, [Next]_vars,
                      NEW s \in Node, changes'[s] = 0
               PROVE  Silent(s)'
    BY DEF SilentEndSendsNothing
  <1>1. CASE \E n \in Node, p \in Param : SetLocalValue(n, p)
    <2> PICK n \in Node, p \in Param : SetLocalValue(n, p)
      BY <1>1
    <2>1. n # s /\ changes[s] = 0
      BY DEF SetLocalValue, TypeOK
    <2>2. QED
      BY <2>1, PeerFacts DEF SetLocalValue, SilentEndSendsNothing, Silent, InTransit, TypeOK
  <1> SUFFICES ASSUME changes' = changes, Silent(s)
               PROVE  Silent(s)'
    BY <1>1 DEF Next, Update, Send, Receive, CalmDown, Lose, vars, environment,
                SilentEndSendsNothing
  <1>2. CASE \E n \in Node : Update(n)
    BY <1>2, PeerFacts DEF Update, Silent, InTransit, TypeOK, values
  <1>3. CASE \E n \in Node : Send(n)
    <2> PICK n \in Node : Send(n)
      BY <1>3
    <2> DEFINE m == [to |-> Peer(n), now |-> now[n],
                     sync |-> [p \in syncBits[n] |-> BestValue(n, p, FALSE)],
                     ack |-> ackBits[n]]
    <2>1. net' = net \cup {m}
      BY DEF Send
    <2>2. m.to = Peer(s) => DOMAIN m.sync = {}
      BY PeerFacts DEF Silent
    <2> HIDE DEF m
    <2>3. (\A x \in InTransit(Peer(s)) : DOMAIN x.sync = {})'
      BY <2>1, <2>2 DEF Silent, InTransit
    <2>4. QED
      BY <2>3, PeerFacts DEF Send, Silent, TypeOK, values
  <1>4. CASE \E n \in Node : \E m \in InTransit(n), again \in BOOLEAN : Receive(n, m, again)
    <2> PICK n \in Node : \E m \in InTransit(n), again \in BOOLEAN : Receive(n, m, again)
      BY <1>4
    <2> PICK m \in InTransit(n), again \in BOOLEAN : Receive(n, m, again)
      OBVIOUS
    <2>1. (\A x \in InTransit(Peer(s)) : DOMAIN x.sync = {})'
      BY DEF Receive, Silent, InTransit
    <2>2. needSync'[s] = {} /\ syncBits'[s] = {}
      BY DEF Receive, StillNeeded, Silent, TypeOK
    <2>3. CASE n = Peer(s)
      <3>1. DOMAIN m.sync = {}
        BY <2>3 DEF Silent
      <3>2. needAck'[Peer(s)] = {}
        BY <2>3, <3>1, PeerFacts DEF Receive, Received, Silent, TypeOK
      <3>3. \A p \in Param : remote'[Peer(s)][p] = Initial
        BY <2>3, <3>1, PeerFacts DEF Receive, Silent, TypeOK
      <3>4. QED
        BY <2>1, <2>2, <3>2, <3>3 DEF Silent
    <2>4. CASE n # Peer(s)
      BY <2>1, <2>2, <2>4, PeerFacts DEF Receive, Silent, TypeOK
    <2>5. QED
      BY <2>3, <2>4
  <1>5. CASE CalmDown
    BY <1>5 DEF CalmDown, Silent, InTransit, values, needs
  <1>6. CASE \E m \in net : Lose(m)
    BY <1>6 DEF Lose, Silent, InTransit, values, needs
  <1>7. CASE UNCHANGED vars
    BY <1>7 DEF vars, Silent, InTransit, values, needs
  <1>8. QED
    BY <1>1, <1>2, <1>3, <1>4, <1>5, <1>6, <1>7 DEF Next

\* An end that made no change sends no value and its peer shows nothing received,
\* whatever the link does with the packets.
THEOREM SilentEndsStaySilent == Spec => []SilentEndSendsNothing
  BY InitType, StepType, InitSilent, StepSilent, PTL DEF Spec

-----------------------------------------------------------------------------
(* A controller that changes parameters only at rest                         *)
(*                                                                           *)
(* RareChangesArrive is not inductive: an acknowledgement under way must not *)
(* be one of an earlier change.  The controller waits for rest, so that      *)
(* everything under way, and everything the agent is about to acknowledge,   *)
(* belongs to the last change of the parameter.                              *)

\* No time is 0 but that of a value that was never set.
Ages ==
    /\ \A n \in Node : now[n] > 0 /\ \A p \in Param : localTime[n][p] = 0 => local[n][p] = Initial
    /\ \A m \in net : m.now > 0

Shown(p) == BestValue(Agent, p, TRUE) = local[Controller][p]

\* The change is still to be sent, and nobody is about to say that it arrived.
Unacknowledged(p) ==
    /\ p \in needSync[Controller] /\ p \notin needAck[Agent] \cup ackBits[Agent]
    /\ \A m \in InTransit(Controller) : p \notin m.ack

Rare ==
    patient =>
        /\ changes[Agent] = 0
        /\ \A p \in Param :
              /\ localTime[Agent][p] = 0 /\ remoteTime[Controller][p] = 0
              /\ Shown(p) \/ Unacknowledged(p)
        /\ \A m \in InTransit(Agent) : \A p \in DOMAIN m.sync : m.sync[p] = local[Controller][p]

\* Time goes on from what the clocks show at first.
LEMMA AgesHold == TypeOK /\ Ages /\ [Next]_vars => Ages'
<1> SUFFICES ASSUME TypeOK, Ages, [Next]_vars PROVE Ages'
  OBVIOUS
<1>1. ASSUME NEW n \in Node, NEW p \in Param, SetLocalValue(n, p) PROVE Ages'
  <2>1. now' = now /\ net' = net /\ now[n] > 0
    BY <1>1 DEF SetLocalValue, Ages
  <2>2. ASSUME NEW k \in Node, NEW q \in Param, localTime'[k][q] = 0 PROVE local'[k][q] = Initial
    <3>1. k # n \/ q # p
      BY <1>1, <2>1, <2>2 DEF SetLocalValue, TypeOK
    <3>2. local'[k][q] = local[k][q] /\ localTime'[k][q] = localTime[k][q]
      BY <1>1, <3>1 DEF SetLocalValue, TypeOK
    <3> QED
      BY <2>2, <3>2 DEF Ages
  <2> QED
    BY <2>1, <2>2 DEF Ages
<1>2. ASSUME NEW n \in Node, Update(n) PROVE Ages'
  <2>1. Time(n) > 0
    BY DEF Time, TypeOK
  <2>2. \A k \in Node : now'[k] > 0
    BY <1>2, <2>1 DEF Update, Ages, TypeOK
  <2> QED
    BY <1>2, <2>2 DEF Update, Ages, values
<1>3. ASSUME NEW n \in Node, Send(n) PROVE Ages'
  <2> DEFINE m == [to |-> Peer(n), now |-> now[n],
                   sync |-> [p \in syncBits[n] |-> BestValue(n, p, FALSE)],
                   ack |-> ackBits[n]]
  <2>1. net' = net \cup {m} /\ m.now = now[n]
    BY <1>3 DEF Send
  <2> HIDE DEF m
  <2> QED
    BY <1>3, <2>1 DEF Send, Ages, values
<1>4. ASSUME NEW n \in Node, NEW m \in InTransit(n), NEW again \in BOOLEAN, Receive(n, m, again)
      PROVE Ages'
  <2>1. m \in net /\ net' \subseteq net /\ UNCHANGED <<local, localTime>>
    BY <1>4 DEF InTransit, Receive
  <2>2. \A k \in Node : now'[k] > 0
    BY <1>4, <2>1 DEF Receive, Ages, TypeOK
  <2> QED
    BY <2>1, <2>2 DEF Ages
<1>5. CASE CalmDown \/ (\E m \in net : Lose(m)) \/ UNCHANGED vars
  BY <1>5 DEF CalmDown, Lose, vars, values, Ages
<1> QED
  BY <1>1, <1>2, <1>3, <1>4, <1>5 DEF Next

\* What the controller sends is its own value.
LEMMA ControllerSendsItsOwn ==
  ASSUME TypeOK, Ages, SilentEndSendsNothing, Rare, patient, NEW p \in Param
  PROVE  BestValue(Controller, p, FALSE) = local[Controller][p]
<1>1. remoteTime[Controller][p] = 0 /\ remote[Controller][p] = Initial
  <2>1. Silent(Agent) /\ Peer(Agent) = Controller
    BY DEF Rare, SilentEndSendsNothing, Peer
  <2> QED
    BY <2>1 DEF Rare, Silent
<1>2. localTime[Controller][p] \in Nat
      /\ (localTime[Controller][p] = 0 => local[Controller][p] = Initial)
  BY DEF TypeOK, Ages
<1> QED
  BY <1>1, <1>2 DEF BestValue

\* Rare is kept by every step.
LEMMA RareHolds == TypeOK /\ Ages /\ SilentEndSendsNothing /\ Rare /\ [Next]_vars => Rare'
<1> SUFFICES ASSUME TypeOK, Ages, SilentEndSendsNothing, Rare, [Next]_vars, patient, patient' = patient
             PROVE  Rare'
  BY DEF Rare, Next, SetLocalValue, Update, Send, Receive, CalmDown, Lose, vars, environment
<1>0. /\ changes[Agent] = 0 /\ Silent(Agent)
      /\ \A p \in Param : localTime[Agent][p] = 0 /\ remoteTime[Controller][p] = 0
      /\ \A p \in Param : Shown(p) \/ Unacknowledged(p)
      /\ \A m \in InTransit(Agent) : \A p \in DOMAIN m.sync : m.sync[p] = local[Controller][p]
      /\ Peer(Agent) = Controller /\ Peer(Controller) = Agent
  BY DEF Rare, SilentEndSendsNothing, Peer
<1>1. ASSUME NEW n \in Node, NEW p \in Param, SetLocalValue(n, p) PROVE Rare'
  <2>1. n = Controller /\ AtRest
    BY <1>1 DEF SetLocalValue
  <2>2. /\ changes'[Agent] = changes[Agent] /\ local'[Agent] = local[Agent]
        /\ localTime'[Agent] = localTime[Agent]
        /\ \A q \in Param : q # p => local'[Controller][q] = local[Controller][q]
        /\ needSync'[Controller] = needSync[Controller] \cup {p}
        /\ UNCHANGED <<remote, remoteTime, needAck, ackBits, net>>
    BY <1>1, <2>1 DEF SetLocalValue, TypeOK
  <2>3. net = {} /\ needAck[Agent] = {} /\ ackBits[Agent] = {}
    BY <2>1 DEF AtRest
  <2>4. ASSUME NEW q \in Param PROVE (Shown(q) \/ Unacknowledged(q))'
    <3>1. CASE q = p
      BY <2>2, <2>3, <3>1 DEF Unacknowledged, InTransit
    <3>2. CASE q # p
      BY <1>0, <2>2, <3>2 DEF Shown, BestValue, Unacknowledged, InTransit
    <3> QED
      BY <3>1, <3>2
  <2> QED
    BY <1>0, <2>2, <2>3, <2>4 DEF Rare, InTransit
<1>2. ASSUME NEW n \in Node, Update(n) PROVE Rare'
  <2>1. UNCHANGED <<changes, values, net, needAck, needSync>>
        /\ ackBits'[Agent] \in {ackBits[Agent], needAck[Agent]}
    BY <1>2 DEF Update, environment, TypeOK
  <2>2. \A p \in Param : (Shown(p) \/ Unacknowledged(p))'
    BY <1>0, <2>1 DEF Shown, BestValue, Unacknowledged, InTransit, values
  <2> QED
    BY <1>0, <2>1, <2>2 DEF Rare, InTransit, values
<1>3. ASSUME NEW n \in Node, Send(n) PROVE Rare'
  <2> DEFINE m == [to |-> Peer(n), now |-> now[n],
                   sync |-> [p \in syncBits[n] |-> BestValue(n, p, FALSE)],
                   ack |-> ackBits[n]]
  <2>1. /\ UNCHANGED <<changes, values, needSync>> /\ net' = net \cup {m}
        /\ needAck'[Agent] \subseteq needAck[Agent] /\ ackBits'[Agent] \subseteq ackBits[Agent]
    BY <1>3 DEF Send, environment, TypeOK
  <2>2. m.to = Controller => m.ack = ackBits[Agent]
    BY DEF Peer
  <2>3. m.to = Agent => \A p \in DOMAIN m.sync : m.sync[p] = local[Controller][p]
    BY ControllerSendsItsOwn DEF Peer, TypeOK
  <2> HIDE DEF m
  <2>4. ASSUME NEW p \in Param PROVE (Shown(p) \/ Unacknowledged(p))'
    <3>1. CASE Shown(p)
      BY <2>1, <3>1 DEF Shown, BestValue, values
    <3>2. CASE Unacknowledged(p)
      BY <2>1, <2>2, <3>2 DEF Unacknowledged, InTransit
    <3> QED
      BY <1>0, <3>1, <3>2
  <2>5. \A x \in InTransit(Agent)' : \A p \in DOMAIN x.sync : x.sync[p] = local'[Controller][p]
    BY <1>0, <2>1, <2>3 DEF InTransit, values
  <2> QED
    BY <1>0, <2>1, <2>4, <2>5 DEF Rare, values
<1>4. ASSUME NEW n \in Node, NEW m \in InTransit(n), NEW again \in BOOLEAN, Receive(n, m, again)
      PROVE Rare'
  <2>1. /\ UNCHANGED <<changes, local, localTime, ackBits>> /\ net' \subseteq net
        /\ m \in net /\ m.to = n /\ m.now > 0 /\ m.now \in Nat
    BY <1>4 DEF Receive, environment, InTransit, Ages, TypeOK
  <2>2. CASE n = Agent
    <3>1. /\ \A p \in DOMAIN m.sync : m.sync[p] = local[Controller][p]
          /\ needSync'[Controller] = needSync[Controller]
          /\ needAck'[Agent] = needAck[Agent] \cup DOMAIN m.sync
          /\ remoteTime'[Controller] = remoteTime[Controller]
          /\ \A p \in Param :
                /\ remote'[Agent][p] = IF p \in DOMAIN m.sync THEN m.sync[p] ELSE remote[Agent][p]
                /\ remoteTime'[Agent][p] = IF p \in DOMAIN m.sync THEN m.now ELSE remoteTime[Agent][p]
      BY <1>0, <1>4, <2>2 DEF Receive, Received, TypeOK
    <3>2. ASSUME NEW p \in Param PROVE (Shown(p) \/ Unacknowledged(p))'
      <4>1. CASE p \in DOMAIN m.sync
        <5>1. localTime'[Agent][p] = 0 /\ remoteTime'[Agent][p] = m.now
              /\ remote'[Agent][p] = local[Controller][p]
          BY <1>0, <2>1, <3>1, <4>1
        <5> QED
          BY <5>1, <2>1 DEF Shown, BestValue
      <4>2. CASE p \notin DOMAIN m.sync
        <5>1. Shown(p) => Shown(p)'
          BY <2>1, <3>1, <4>2 DEF Shown, BestValue
        <5>2. Unacknowledged(p) => Unacknowledged(p)'
          BY <2>1, <3>1, <4>2 DEF Unacknowledged, InTransit
        <5> QED
          BY <1>0, <5>1, <5>2
      <4> QED
        BY <4>1, <4>2
    <3> QED
      BY <1>0, <2>1, <3>1, <3>2 DEF Rare, InTransit
  <2>3. CASE n = Controller
    <3>1. /\ DOMAIN m.sync = {}
          /\ needSync'[Controller] = needSync[Controller] \ m.ack
          /\ needAck'[Agent] = needAck[Agent]
          /\ remote'[Agent] = remote[Agent] /\ remoteTime'[Agent] = remoteTime[Agent]
          /\ \A p \in Param : remoteTime'[Controller][p] = remoteTime[Controller][p]
      <4>1. DOMAIN m.sync = {}
        BY <1>0, <2>3 DEF Silent
      <4> QED
        BY <4>1, <1>4, <2>3 DEF Receive, StillNeeded, TypeOK
    <3>2. ASSUME NEW p \in Param PROVE (Shown(p) \/ Unacknowledged(p))'
      <4>1. Shown(p) => Shown(p)'
        BY <2>1, <3>1 DEF Shown, BestValue
      <4>2. Unacknowledged(p) => Unacknowledged(p)'
        BY <2>1, <2>3, <3>1 DEF Unacknowledged, InTransit
      <4> QED
        BY <1>0, <4>1, <4>2
    <3> QED
      BY <1>0, <2>1, <3>1, <3>2 DEF Rare, InTransit
  <2> QED
    BY <2>2, <2>3
<1>5. CASE CalmDown \/ (\E m \in net : Lose(m)) \/ UNCHANGED vars
  <2>1. UNCHANGED <<changes, values, needs>> /\ net' \subseteq net
    BY <1>5 DEF CalmDown, Lose, vars, environment
  <2>2. \A p \in Param : (Shown(p) \/ Unacknowledged(p))'
    BY <1>0, <2>1 DEF Shown, BestValue, Unacknowledged, InTransit, values, needs
  <2> QED
    BY <1>0, <2>1, <2>2 DEF Rare, InTransit, values
<1> QED
  BY <1>1, <1>2, <1>3, <1>4, <1>5 DEF Next

\* A controller that changes a parameter only when the ends are at rest sees no
\* change acknowledged that the agent does not show, however often a packet is
\* sent and acknowledged again.
THEOREM NoAckOfEarlierChange == Spec => []RareChangesArrive
<1>1. Init => Ages /\ Rare
  BY DEF Init, Ages, Rare, Shown, BestValue, InTransit
<1>2. Rare => RareChangesArrive
  BY DEF Rare, RareChangesArrive, Shown, Unacknowledged
<1> QED
  BY InitType, StepType, InitSilent, StepSilent, AgesHold, RareHolds, <1>1, <1>2, PTL DEF Spec
-----------------------------------------------------------------------------
(* Both ends may change the parameter at any time                            *)
(*                                                                           *)
(* AckedHasArrived follows an acknowledgement back to the packet that it is  *)
(* for.  What is sent is a value that somebody set: the bits of a parameter  *)
(* are only there after a change, and of two values with a time neither is   *)
(* the initial one.                                                          *)

\* What has a time was set, and what is to be sent was set at this end.
Dated ==
    \A n \in Node, p \in Param :
        /\ localTime[n][p] > 0 => local[n][p] # Initial
        /\ remoteTime[n][p] > 0 => remote[n][p] # Initial
        /\ p \in needSync[n] \cup syncBits[n] => localTime[n][p] > 0

\* Values under way were set, and what is acknowledged, or is about to be, is there.
Arrived ==
    /\ \A m \in net : /\ \A p \in DOMAIN m.sync : m.sync[p] # Initial
                      /\ \A p \in m.ack : remote[Peer(m.to)][p] # Initial
    /\ \A n \in Node, p \in Param :
          p \in needAck[n] \cup ackBits[n] => remote[n][p] # Initial

Answered == Dated /\ Arrived /\ AckedHasArrived

\* A value that is sent is one that was set.
LEMMA SentWasSet ==
  ASSUME TypeOK, Dated, NEW n \in Node, NEW p \in syncBits[n]
  PROVE  BestValue(n, p, FALSE) # Initial
<1>1. /\ localTime[n][p] \in Nat /\ remoteTime[n][p] \in Nat /\ localTime[n][p] > 0
      /\ local[n][p] # Initial /\ (remoteTime[n][p] > 0 => remote[n][p] # Initial)
  BY DEF TypeOK, Dated
<1> QED
  BY <1>1 DEF BestValue

\* Answered is kept by every step.
LEMMA AnsweredHolds == TypeOK /\ Ages /\ Answered /\ [Next]_vars => Answered'
<1> SUFFICES ASSUME TypeOK, Ages, Answered, [Next]_vars PROVE Answered'
  OBVIOUS
<1>1. ASSUME NEW n \in Node, NEW p \in Param, SetLocalValue(n, p) PROVE Answered'
  <2>1. /\ now[n] > 0 /\ changes[n] \in Nat
        /\ UNCHANGED <<now, remote, remoteTime, needAck, ackBits, syncBits, net>>
    BY <1>1 DEF SetLocalValue, Ages, TypeOK
  <2>2. /\ local'[n][p] = [by |-> n, change |-> changes[n] + 1]
        /\ localTime'[n][p] = now[n] /\ needSync'[n] = needSync[n] \cup {p}
    BY <1>1 DEF SetLocalValue, TypeOK
  <2>3. local'[n][p] # Initial
    BY <2>1, <2>2 DEF Initial
  <2>4. ASSUME NEW k \in Node, NEW q \in Param, k # n \/ q # p
        PROVE  /\ local'[k][q] = local[k][q] /\ localTime'[k][q] = localTime[k][q]
               /\ q \in needSync'[k] <=> q \in needSync[k]
    BY <1>1, <2>4 DEF SetLocalValue, TypeOK
  <2>5. ASSUME NEW k \in Node, NEW q \in Param
        PROVE  /\ localTime'[k][q] > 0 => local'[k][q] # Initial
               /\ remoteTime'[k][q] > 0 => remote'[k][q] # Initial
               /\ q \in needSync'[k] \cup syncBits'[k] => localTime'[k][q] > 0
               /\ local'[k][q] # Initial /\ q \notin needSync'[k] => remote'[Peer(k)][q] # Initial
    <3>1. CASE k = n /\ q = p
      BY <3>1, <2>1, <2>2, <2>3 DEF Answered, Dated
    <3>2. CASE k # n \/ q # p
      BY <3>2, <2>1, <2>4 DEF Answered, Dated, AckedHasArrived
    <3> QED
      BY <3>1, <3>2
  <2>6. Arrived'
    BY <2>1 DEF Answered, Arrived
  <2> QED
    BY <2>5, <2>6 DEF Answered, Dated, AckedHasArrived
<1>2. ASSUME NEW n \in Node, Update(n) PROVE Answered'
  <2>1. \A k \in Node : /\ syncBits'[k] \subseteq syncBits[k] \cup needSync[k]
                       /\ ackBits'[k] \subseteq ackBits[k] \cup needAck[k]
    BY <1>2 DEF Update, TypeOK
  <2>2. UNCHANGED <<local, localTime, remote, remoteTime, needAck, needSync, net>>
    BY <1>2 DEF Update, values
  <2> QED
    BY <2>1, <2>2 DEF Answered, Dated, Arrived, AckedHasArrived
<1>3. ASSUME NEW n \in Node, Send(n) PROVE Answered'
  <2> DEFINE sent == [p \in syncBits[n] |-> BestValue(n, p, FALSE)]
             m == [to |-> Peer(n), now |-> now[n], sync |-> sent, ack |-> ackBits[n]]
  <2>1. net' = net \cup {m} /\ m.to = Peer(n) /\ m.sync = sent /\ m.ack = ackBits[n]
    BY <1>3 DEF Send
  <2>2. \A p \in DOMAIN sent : sent[p] # Initial
    BY SentWasSet DEF Answered
  <2>3. /\ UNCHANGED <<local, localTime, remote, remoteTime, needSync, syncBits>>
        /\ \A k \in Node : needAck'[k] \cup ackBits'[k] \subseteq needAck[k] \cup ackBits[k]
    BY <1>3 DEF Send, values, TypeOK
  <2>4. \A p \in ackBits[n] : p \in Param /\ remote[Peer(Peer(n))][p] # Initial
    BY PeerFacts DEF Answered, Arrived, TypeOK
  <2> HIDE DEF m, sent
  <2>5. Arrived'
    BY <2>1, <2>2, <2>3, <2>4 DEF Answered, Arrived
  <2> QED
    BY <2>3, <2>5 DEF Answered, Dated, AckedHasArrived
<1>4. ASSUME NEW n \in Node, NEW m \in InTransit(n), NEW again \in BOOLEAN, Receive(n, m, again)
      PROVE Answered'
  <2>1. /\ m \in net /\ m.to = n /\ net' \subseteq net
        /\ UNCHANGED <<local, localTime, ackBits, syncBits>>
    BY <1>4 DEF InTransit, Receive
  <2>2. /\ m.ack \subseteq Param /\ m.now > 0 /\ DOMAIN m.sync \subseteq Param
        /\ \A p \in DOMAIN m.sync : m.sync[p] # Initial
        /\ \A p \in m.ack : remote[Peer(n)][p] # Initial
    BY <2>1 DEF TypeOK, Ages, Answered, Arrived
  <2>3. \A p \in Param :
          /\ remote'[n][p] = IF p \in DOMAIN m.sync THEN m.sync[p] ELSE remote[n][p]
          /\ remoteTime'[n][p] = IF p \in DOMAIN m.sync THEN m.now ELSE remoteTime[n][p]
    BY <1>4 DEF Receive, TypeOK
  <2>4. \A k \in Node : k # n => /\ remote'[k] = remote[k] /\ remoteTime'[k] = remoteTime[k]
                                 /\ needSync'[k] = needSync[k] /\ needAck'[k] = needAck[k]
    BY <1>4 DEF Receive, TypeOK
  <2>5. needSync'[n] = needSync[n] \ m.ack /\ needAck'[n] = needAck[n] \cup DOMAIN m.sync
    BY <1>4 DEF Receive, Received, StillNeeded, TypeOK
  \* What was received once stays received.
  <2>6. \A k \in Node, p \in Param : remote[k][p] # Initial => remote'[k][p] # Initial
    BY <2>2, <2>3, <2>4
  <2>7. Dated'
    <3>1. ASSUME NEW k \in Node, NEW p \in Param
          PROVE  /\ localTime'[k][p] > 0 => local'[k][p] # Initial
                 /\ remoteTime'[k][p] > 0 => remote'[k][p] # Initial
                 /\ p \in needSync'[k] \cup syncBits'[k] => localTime'[k][p] > 0
      <4>1. CASE k = n
        BY <4>1, <2>1, <2>2, <2>3, <2>5 DEF Answered, Dated
      <4>2. CASE k # n
        BY <4>2, <2>1, <2>4 DEF Answered, Dated
      <4> QED
        BY <4>1, <4>2
    <3> QED
      BY <3>1 DEF Dated
  <2>8. Arrived'
    <3>1. ASSUME NEW k \in Node, NEW p \in Param, p \in needAck'[k] \cup ackBits'[k]
          PROVE  remote'[k][p] # Initial
      <4>1. CASE k = n /\ p \in DOMAIN m.sync
        BY <4>1, <2>2, <2>3
      <4>2. CASE ~(k = n /\ p \in DOMAIN m.sync)
        BY <4>2, <3>1, <2>1, <2>4, <2>5, <2>6 DEF Answered, Arrived
      <4> QED
        BY <4>1, <4>2
    <3>2. ASSUME NEW o \in net' PROVE /\ \A p \in DOMAIN o.sync : o.sync[p] # Initial
                                     /\ \A p \in o.ack : remote'[Peer(o.to)][p] # Initial
      <4>1. o \in net /\ o.to \in Node /\ Peer(o.to) \in Node /\ o.ack \subseteq Param
        BY <2>1, <3>2, PeerFacts DEF TypeOK
      <4> QED
        BY <4>1, <2>6 DEF Answered, Arrived
    <3> QED
      BY <3>1, <3>2 DEF Arrived
  <2>9. AckedHasArrived'
    <3>1. ASSUME NEW k \in Node, NEW p \in Param, local'[k][p] # Initial, p \notin needSync'[k]
          PROVE  remote'[Peer(k)][p] # Initial
      <4>1. remote[Peer(k)][p] # Initial
        BY <3>1, <2>1, <2>2, <2>4, <2>5 DEF Answered, AckedHasArrived
      <4> QED
        BY <4>1, <2>6, PeerFacts
    <3> QED
      BY <3>1 DEF AckedHasArrived
  <2> QED
    BY <2>7, <2>8, <2>9 DEF Answered
<1>5. CASE CalmDown \/ (\E m \in net : Lose(m)) \/ UNCHANGED vars
  <2>1. net' \subseteq net /\ UNCHANGED <<values, needs>>
    BY <1>5 DEF CalmDown, Lose, vars
  <2> QED
    BY <2>1 DEF values, needs, Answered, Dated, Arrived, AckedHasArrived
<1> QED
  BY <1>1, <1>2, <1>3, <1>4, <1>5 DEF Next

\* Whatever the link does and whoever changes what: SyncContext::receive() clears a bit of
\* mNeedToSendDataAndReceiveAck only after the peer has received a value of that parameter.
THEOREM AcksAreEarned == Spec => []AckedHasArrived
<1>1. Init => TypeOK /\ Ages /\ Answered
  <2>1. Init => Ages
    BY DEF Init, Ages
  <2>2. Init => Answered
    BY DEF Init, Answered, Dated, Arrived, AckedHasArrived
  <2> QED
    BY <2>1, <2>2, InitType
<1>2. TypeOK /\ Ages /\ Answered /\ [Next]_vars => (TypeOK /\ Ages /\ Answered)'
  BY StepType, AgesHold, AnsweredHolds
<1>3. Answered => AckedHasArrived
  BY DEF Answered
<1> QED
  BY <1>1, <1>2, <1>3, PTL DEF Spec
=============================================================================
