--------------------------- MODULE SyncParameters ---------------------------
(***************************************************************************)
(* The state that an agent and its controller share: SyncContext and       *)
(* SyncParameter of libcomms, as AgentStateCourier uses them.              *)
(*                                                                         *)
(* Each end keeps two values of a parameter, its own and the one it last   *)
(* received, with the times it got them.  A change of its own is sent      *)
(* again and again until the other end acknowledges the parameter; which   *)
(* change is acknowledged no packet says.  A packet carries the clock of   *)
(* its sender, and the receiver takes it for its own until it next looks   *)
(* at its clock in update().                                               *)
(***************************************************************************)
EXTENDS Integers, FiniteSets

CONSTANTS
    Agent, Controller,  \* the two ends
    Param,              \* the parameters both ends register, in the same order
    Clock,              \* what the clock of an end shows at first
    MaxChanges,         \* bound: changes, of both ends
    MaxTransit          \* bound: packets under way to one end

Node == {Agent, Controller}

ASSUME NodeAssumption == Agent # Controller
ASSUME ClockAssumption == Clock \in [Node -> Nat \ {0}]
ASSUME BoundsAssumption == {MaxChanges, MaxTransit} \subseteq Nat

VARIABLES
    patient,      \* environment: only the controller changes values, and only at rest
    calm,         \* environment: no packet is lost, delayed or duplicated from now on
    changes,      \* history: changes made
    now,          \* SyncContext::mNow
    local,        \* mLocalValue
    localTime,    \* mLocalTimestamp
    remote,       \* mRemoteValue
    remoteTime,   \* mRemoteTimestamp
    needAck,      \* mNeedToSendAck
    needSync,     \* mNeedToSendDataAndReceiveAck
    ackBits,      \* mAckBits
    syncBits,     \* mSyncBits
    net           \* the packets under way

values == <<local, localTime, remote, remoteTime>>
needs == <<needAck, needSync, ackBits, syncBits>>
environment == <<patient, calm, changes>>
vars == <<environment, now, values, needs, net>>

Peer(n) == IF n = Agent THEN Controller ELSE Agent

\* A value is told by the change that made it.
Initial == [by |-> "nobody", change |-> 0]
Value == [by : Node \cup {"nobody"}, change : Nat]

\* The clocks go on when a value is changed; all else takes no time.
Time(n) == Clock[n] + changes[Agent] + changes[Controller]

InTransit(n) == {m \in net : m.to = n}

\* Nothing is to be sent and nothing is under way.
AtRest ==
    /\ net = {}
    /\ \A n \in Node : needAck[n] \cup needSync[n] \cup ackBits[n] \cup syncBits[n] = {}

Init ==
    /\ patient \in BOOLEAN
    /\ calm = patient
    /\ changes = [n \in Node |-> 0]
    /\ now = Clock
    /\ local = [n \in Node |-> [p \in Param |-> Initial]]
    /\ localTime = [n \in Node |-> [p \in Param |-> 0]]
    /\ remote = [n \in Node |-> [p \in Param |-> Initial]]
    /\ remoteTime = [n \in Node |-> [p \in Param |-> 0]]
    /\ needAck = [n \in Node |-> {}]
    /\ needSync = [n \in Node |-> {}]
    /\ ackBits = [n \in Node |-> {}]
    /\ syncBits = [n \in Node |-> {}]
    /\ net = {}

-----------------------------------------------------------------------------
(* SyncParameter *)

\* bestValue(): the newer value; of two of the same age the one asked for.
\* Mutant: the older one.
OldestValue(n, p, isLocal) ==
    IF localTime[n][p] > remoteTime[n][p] THEN remote[n][p] ELSE local[n][p]

BestValue(n, p, isLocal) ==
    IF localTime[n][p] = remoteTime[n][p]
    THEN IF isLocal THEN local[n][p] ELSE remote[n][p]
    ELSE IF localTime[n][p] > remoteTime[n][p] THEN local[n][p] ELSE remote[n][p]

\* setLocalValue(), from the user interface or the agent.
SetLocalValue(n, p) ==
    /\ changes[Agent] + changes[Controller] < MaxChanges
    /\ patient => n = Controller /\ AtRest
    /\ changes' = [changes EXCEPT ![n] = @ + 1]
    /\ local' = [local EXCEPT ![n][p] = [by |-> n, change |-> changes[n] + 1]]
    /\ localTime' = [localTime EXCEPT ![n][p] = now[n]]
    /\ needSync' = [needSync EXCEPT ![n] = @ \cup {p}]
    /\ UNCHANGED <<patient, calm, now, remote, remoteTime, needAck, ackBits,
                   syncBits, net>>

-----------------------------------------------------------------------------
(* SyncContext *)

\* update(): rescheduleSending() of the channel calls it with the time.
Update(n) ==
    /\ now' = [now EXCEPT ![n] = Time(n)]
    /\ syncBits' = [syncBits EXCEPT ![n] = needSync[n]]
    /\ ackBits' = [ackBits EXCEPT ![n] = needAck[n]]
    /\ UNCHANGED <<environment, values, needAck, needSync, net>>

\* send(), by AgentStateCourier::sendingOpportunity(): what the bits of the last
\* update() say, with the values of now; an acknowledgement is sent once.
Send(n) ==
    /\ syncBits[n] \cup ackBits[n] # {}
    /\ Cardinality(InTransit(Peer(n))) < IF calm THEN 1 ELSE MaxTransit
    /\ net' = net \cup {[to |-> Peer(n), now |-> now[n],
                         sync |-> [p \in syncBits[n] |-> BestValue(n, p, FALSE)],
                         ack |-> ackBits[n]]}
    /\ needAck' = [needAck EXCEPT ![n] = @ \ ackBits[n]]
    /\ ackBits' = [ackBits EXCEPT ![n] = {}]
    /\ UNCHANGED <<environment, now, values, needSync, syncBits>>

\* The parameters of a packet that are acknowledged once it is received.
\* Mutant: those that were sent before are not acknowledged again.
AckedFirstTime(n, m) == {p \in DOMAIN m.sync : m.sync[p] # remote[n][p]}
Received(n, m) == DOMAIN m.sync

\* What is still to be sent: ack() does not tell which change was acknowledged.
\* Mutant: what was received is to be sent as well.
StillNeededEcho(n, m) == (needSync[n] \cup DOMAIN m.sync) \ m.ack
StillNeeded(n, m) == needSync[n] \ m.ack

\* receive(), by AgentStateCourier::dataReceived().
\* again: the packet will arrive once more.
Receive(n, m, again) ==
    /\ m \in InTransit(n)
    /\ again => ~calm
    /\ now' = [now EXCEPT ![n] = m.now]
    /\ remote' = [remote EXCEPT ![n] =
                     [p \in Param |-> IF p \in DOMAIN m.sync THEN m.sync[p] ELSE @[p]]]
    /\ remoteTime' = [remoteTime EXCEPT ![n] =
                     [p \in Param |-> IF p \in DOMAIN m.sync THEN m.now ELSE @[p]]]
    /\ needAck' = [needAck EXCEPT ![n] = @ \cup Received(n, m)]
    /\ needSync' = [needSync EXCEPT ![n] = StillNeeded(n, m)]
    /\ net' = IF again THEN net ELSE net \ {m}
    /\ UNCHANGED <<environment, local, localTime, ackBits, syncBits>>

-----------------------------------------------------------------------------
(* The environment; external *)

Lose(m) ==
    /\ m \in net /\ ~calm
    /\ net' = net \ {m}
    /\ UNCHANGED <<environment, now, values, needs>>

CalmDown ==
    /\ ~calm
    /\ calm' = TRUE
    /\ UNCHANGED <<patient, changes, now, values, needs, net>>

ReceiveAny(n) == \E m \in InTransit(n) : Receive(n, m, FALSE)

Next ==
    \/ \E n \in Node : \/ \E p \in Param : SetLocalValue(n, p)
                       \/ Update(n) \/ Send(n)
                       \/ \E m \in InTransit(n), again \in BOOLEAN : Receive(n, m, again)
    \/ CalmDown
    \/ \E m \in net : Lose(m)

Spec == Init /\ [][Next]_vars

(* The channel reschedules and gives its couriers a turn over and over; the   *)
(* link is bound to deliver only when it is calm.                             *)
Fairness ==
    /\ \A n \in Node : WF_vars(Update(n)) /\ WF_vars(Send(n)) /\ WF_vars(calm /\ ReceiveAny(n))
FairSpec == Spec /\ Fairness

-----------------------------------------------------------------------------
(* Properties *)

\* Every variable has its type.
TypeOK ==
    /\ patient \in BOOLEAN /\ calm \in BOOLEAN
    /\ changes \in [Node -> Nat]
    /\ now \in [Node -> Nat]
    /\ local \in [Node -> [Param -> Value]] /\ remote \in [Node -> [Param -> Value]]
    /\ localTime \in [Node -> [Param -> Nat]] /\ remoteTime \in [Node -> [Param -> Nat]]
    /\ needAck \in [Node -> SUBSET Param] /\ needSync \in [Node -> SUBSET Param]
    /\ ackBits \in [Node -> SUBSET Param] /\ syncBits \in [Node -> SUBSET Param]
    /\ \A m \in net : /\ m.to \in Node /\ m.now \in Nat /\ m.ack \subseteq Param
                     /\ m.sync \in [DOMAIN m.sync -> Value] /\ DOMAIN m.sync \subseteq Param

\* A controller that changes parameters only when the ends are at rest, over a
\* link that loses nothing, sees no change acknowledged that the agent does not
\* show (bestValue(true)), although a packet that is sent again may be
\* acknowledged again.
RareChangesArrive ==
    patient =>
        \A p \in Param :
            p \notin needSync[Controller] =>
                BestValue(Agent, p, TRUE) = local[Controller][p]

\* An end that made no change sends no value, whatever is lost, duplicated or
\* late, so that its peer has nothing to acknowledge and shows nothing received:
\* the value of the peer does not come back to it as a change of this end.
Silent(n) ==
    /\ needSync[n] = {} /\ syncBits[n] = {}
    /\ \A m \in InTransit(Peer(n)) : DOMAIN m.sync = {}
    /\ needAck[Peer(n)] = {}
    /\ \A p \in Param : remote[Peer(n)][p] = Initial

SilentEndSendsNothing == \A n \in Node : changes[n] = 0 => Silent(n)

\* An end stops sending a parameter it has changed only after its peer received a
\* value of it, whatever both change, and whatever is lost, duplicated or late.
AckedHasArrived ==
    \A n \in Node, p \in Param :
        local[n][p] # Initial /\ p \notin needSync[n] => remote[Peer(n)][p] # Initial

\* Once the link is calm the couriers come to rest: every change is acknowledged
\* and acknowledgements do not call forth acknowledgements.
ComesToRest == <>calm => <>[]AtRest

\* When the couriers are at rest, the agent shows the value the controller set.
\* AgentStateCourier.hpp:34-36: in a conflict the value from the controller will
\* override the value from the agent.
ControllerOverrides ==
    AtRest => \A p \in Param :
                  local[Controller][p] # Initial =>
                      BestValue(Agent, p, TRUE) = local[Controller][p]
=============================================================================
