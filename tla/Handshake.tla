----------------------------- MODULE Handshake -----------------------------
(***************************************************************************)
(* The three-way handshake of libcomms (HandshakeState, CommsChannel,      *)
(* CommsSession) between nodes that exchange datagrams: SYN, SYN-ACK and   *)
(* ACK, the duel that decides which of two nodes is the initiator, and the *)
(* sending opportunities of the carrier that drive it.  Datagrams may be   *)
(* lost, reordered and duplicated, and a node may be restarted; sessions   *)
(* live in memory only and nothing in the repository removes one.          *)
(*                                                                         *)
(* The channel is modelled against a Comms that keeps the key store and    *)
(* the address book it is configured with and returns the registered       *)
(* couriers (external here, see the README).  Nonces and session ids come  *)
(* from a random generator and are taken to be different and valid; a      *)
(* session that gets no valid id is a creation that failed.                *)
(***************************************************************************)
EXTENDS Integers, FiniteSets

CONSTANTS Nodes,          \* the nodes, each with an associate entry for the others
          Rank,           \* the order of their full IDs
          MaxRestarts,    \* bound: restarts of one node
          MaxDuplicates   \* bound: datagrams the network delivers twice

ASSUME HandshakeAssumption ==
  /\ Rank \in [Nodes -> Int]
  /\ \A n, p \in Nodes : n # p => Rank[n] # Rank[p]
  /\ MaxRestarts \in Nat /\ MaxDuplicates \in Nat

VARIABLES
  session,     \* CommsSessionDirectory::mByFullID of each node
  pending,     \* CommsChannel::mPendingHandshakes of each node
  network,     \* the datagrams in flight
  life,        \* how often each node has been restarted
  duplicates   \* how many datagrams were delivered twice

vars == <<session, pending, network, life, duplicates>>

-----------------------------------------------------------------------------
(* Sessions and datagrams. *)

Pairs == {e \in Nodes \X Nodes : e[1] # e[2]}
Others(n) == Nodes \ {n}

\* A session is known by the node it lives at, its peer, and the life of the
\* node: its local session id, and what its nonces are made from.
Identities == [at : Nodes, with : Nodes, life : 0..MaxRestarts]
Unknown == [at |-> "nobody"]

Nonce(kind, id) == [kind |-> kind, id |-> id]
Nonces == [kind : {"syn", "synack", "ack"}, id : Identities]

NoSession == [step |-> -1]
Sessions == [id : Identities, initiator : BOOLEAN, step : 0..2, once : BOOLEAN,
             remoteID : Identities \union {Unknown},
             theirNonce : Nonces \union {Unknown}]

\* The constructor of CommsSession, then what Comms::createSession() sets.
CreateSession(n, p, initiator) ==
  [id |-> [at |-> n, with |-> p, life |-> life[n]], initiator |-> initiator,
   step |-> 0, once |-> FALSE, remoteID |-> Unknown, theirNonce |-> Unknown]

-----------------------------------------------------------------------------
(* HandshakeState. *)

ExpectedStepTX(s) ==
  CASE s.initiator /\ s.step = 0  -> "SYN"
    [] s.initiator /\ s.step = 2  -> "ACK"
    [] ~s.initiator /\ s.step = 1 -> "SYN_ACK"
    [] OTHER                      -> "NONE"

ExpectedStepRX(s) ==
  CASE s.initiator /\ s.step = 1             -> "SYN_ACK"
    [] ~s.initiator /\ s.step = 0            -> "SYN"
    [] ~s.initiator /\ s.step = 1 /\ s.once  -> "ACK"
    [] ~s.initiator /\ s.step = 2            -> "ACK"
    [] OTHER                                 -> "NONE"

IsSending(s) == ExpectedStepTX(s) # "NONE"

\* isDone() negates the step it expects: of the four enumerators only SYN is 0.
Established(s) == ~IsSending(s) /\ ExpectedStepRX(s) = "SYN"

HandleTX(s, step) ==
  IF step # "NONE" /\ ExpectedStepTX(s) = step THEN [s EXCEPT !.once = TRUE] ELSE s

HandleRX(s, step) ==
  IF step # "NONE" /\ ExpectedStepRX(s) = step
  THEN [s EXCEPT !.once = FALSE, !.step = @ + 1] ELSE s

-----------------------------------------------------------------------------
(* Sending: CommsChannel::sendHandshake(). *)

Syn(n, p, s) ==
  [from |-> n, to |-> p, step |-> "SYN", id |-> s.id, nonce |-> Nonce("syn", s.id)]
SynAck(n, p, s) ==
  [from |-> n, to |-> p, step |-> "SYN_ACK", id |-> s.id,
   returned |-> s.theirNonce, nonce |-> Nonce("synack", s.id)]
Ack(n, p, s) ==
  [from |-> n, to |-> p, step |-> "ACK", returned |-> s.theirNonce]

\* The datagrams a session sends when it is its turn: none once it is
\* established, a SYN by default, and that only from the initiator.
Outgoing(n, p, s) ==
  IF s = NoSession \/ Established(s) THEN {}
  ELSE CASE ExpectedStepTX(s) = "SYN_ACK" -> {SynAck(n, p, s)}
         [] ExpectedStepTX(s) = "ACK"     -> {Ack(n, p, s)}
         [] OTHER                         -> IF s.initiator THEN {Syn(n, p, s)} ELSE {}

\* The session a handshake is sent from: the one there is, or a new one.
SendingSession(n, p, created) ==
  IF session[n][p] = NoSession /\ p \in created
  THEN CreateSession(n, p, TRUE) ELSE session[n][p]

SendHandshake(n, p, s) ==
  IF Outgoing(n, p, s) = {} THEN s ELSE HandleTX(s, ExpectedStepTX(s))

\* CommsChannel::rescheduleSending(): of the associates a courier wants to
\* send to, those with a session that has something to send, and those without
\* a session; for the latter "due" also says that the honeymoon delay is over.
PendingHandshakes(ss, due) ==
  {p \in due : ss[p] = NoSession \/ (~Established(ss[p]) /\ IsSending(ss[p]))}

-----------------------------------------------------------------------------
(* Receiving: CommsChannel::recieveHandshake(). *)

\* Mutants: a duel both sides win, and one both lose.
WeWinBoth(n, p) == Rank[n] # Rank[p]
WeWinNeither(n, p) == Rank[n] = Rank[p]

\* IDDuel::duel() of our full ID against the sender's.
WeWin(n, p) == Rank[n] > Rank[p]

\* Mutant: a SYN-ACK is accepted whatever nonce it returns.
AcceptsAnySynAck(s, m) == m.step # "ACK" \/ m.returned = Nonce("ack", s.id)

\* The three bodies, recieveSyn(), recieveSynAck() and recieveAck(): what the
\* datagram must hold, and what the session records.
Accepts(s, m) ==
  CASE m.step = "SYN"     -> TRUE
    [] m.step = "SYN_ACK" -> m.returned = Nonce("syn", s.id)
    [] m.step = "ACK"     -> m.returned = Nonce("ack", s.id)

\* Mutants: a SYN-ACK, or a SYN, of which one half is recorded.
RecordedNonceOnly(s, m) ==
  CASE m.step = "ACK"     -> s
    [] m.step = "SYN"     -> [s EXCEPT !.theirNonce = m.nonce, !.remoteID = m.id]
    [] m.step = "SYN_ACK" -> [s EXCEPT !.theirNonce = m.nonce]
RecordedIdOnly(s, m) ==
  IF m.step = "ACK" THEN s ELSE [s EXCEPT !.remoteID = m.id]

Recorded(s, m) ==
  IF m.step = "ACK" THEN s
  ELSE [s EXCEPT !.theirNonce = m.nonce, !.remoteID = m.id]

RecieveStep(s, m) ==
  IF ExpectedStepRX(s) = m.step /\ Accepts(s, m)
  THEN HandleRX(Recorded(s, m), m.step) ELSE s

\* Both sides claim one role: the datagram is dropped, and the loser of the
\* duel takes the other role at the step it is at.
Duel(n, p, s) == IF WeWin(n, p) THEN s ELSE [s EXCEPT !.initiator = ~@]

RecieveHandshake(n, p, s, m) ==
  IF (m.step \in {"SYN", "ACK"}) = s.initiator
  THEN Duel(n, p, s) ELSE RecieveStep(s, m)

-----------------------------------------------------------------------------
Init ==
  /\ session = [n \in Nodes |-> [p \in Others(n) |-> NoSession]]
  /\ pending = [n \in Nodes |-> {}]
  /\ network = {}
  /\ life = [n \in Nodes |-> 0]
  /\ duplicates = 0

\* onCarrierSendingOpportunity(): every pending handshake is sent, then the
\* next ones are scheduled.  A session that is missing may fail to be created
\* (no public key, no valid address, no valid session id).
SendingOpportunity(n, due, created) ==
  LET from == [p \in Others(n) |->
                 IF p \in pending[n] THEN SendingSession(n, p, created) ELSE NoSession]
      sent == [p \in Others(n) |->
                 IF p \in pending[n] THEN SendHandshake(n, p, from[p]) ELSE session[n][p]]
  IN /\ session' = [session EXCEPT ![n] = sent]
     /\ network' = network \union UNION {Outgoing(n, p, from[p]) : p \in Others(n)}
     /\ pending' = [pending EXCEPT ![n] = PendingHandshakes(sent, due)]
     /\ UNCHANGED <<life, duplicates>>

\* A courier asks for it: Courier::reschedule is connected to rescheduleSending().
RescheduleSending(n, due) ==
  /\ pending' = [pending EXCEPT ![n] = PendingHandshakes(session[n], due)]
  /\ UNCHANGED <<session, network, life, duplicates>>

\* The network hands over a datagram, for good or keeping a second copy.
Leaves(m) ==
  \/ network' = network \ {m} /\ UNCHANGED duplicates
  \/ /\ duplicates < MaxDuplicates
     /\ duplicates' = duplicates + 1
     /\ UNCHANGED network

\* A datagram for a session there is.
Recieve(m) ==
  LET n == m.to
      p == m.from
  IN /\ session[n][p] # NoSession
     /\ session' = [session EXCEPT ![n][p] = RecieveHandshake(n, p, @, m)]
     /\ Leaves(m)
     /\ UNCHANGED <<pending, life>>

\* Without a session only a SYN counts: it creates one, with us as the adherent.
RecieveFirst(m) ==
  LET n == m.to
      p == m.from
  IN /\ session[n][p] = NoSession
     /\ m.step = "SYN"
     /\ session' = [session EXCEPT ![n][p] =
                      RecieveHandshake(n, p, CreateSession(n, p, FALSE), m)]
     /\ Leaves(m)
     /\ UNCHANGED <<pending, life>>

\* A datagram is lost, or dropped by a node that has no session for it.
Lose(m) ==
  /\ network' = network \ {m}
  /\ UNCHANGED <<session, pending, life, duplicates>>

\* The process ends and is started again.
Restart(n) ==
  /\ life[n] < MaxRestarts
  /\ life' = [life EXCEPT ![n] = @ + 1]
  /\ session' = [session EXCEPT ![n] = [p \in Others(n) |-> NoSession]]
  /\ pending' = [pending EXCEPT ![n] = {}]
  /\ UNCHANGED <<network, duplicates>>

Next ==
  \/ \E n \in Nodes : \E due, created \in SUBSET Others(n) : SendingOpportunity(n, due, created)
  \/ \E n \in Nodes : \E due \in SUBSET Others(n) : RescheduleSending(n, due)
  \/ \E m \in network : Recieve(m) \/ RecieveFirst(m) \/ Lose(m)
  \/ \E n \in Nodes : Restart(n)

Spec == Init /\ [][Next]_vars

\* A datagram of one kind from one node to another is delivered.
Delivery(e, step) ==
  \E m \in network :
    /\ m.from = e[1] /\ m.to = e[2] /\ m.step = step
    /\ Recieve(m) \/ RecieveFirst(m)

\* A pending handshake is sent, its session created if there is none.
Sends(e) ==
  /\ e[2] \in pending[e[1]]
  /\ \E due \in SUBSET Others(e[1]) : SendingOpportunity(e[1], due, Others(e[1]))

\* Nodes keep getting opportunities with couriers that want to send; handshakes
\* that become pending again and again are sent again and again, and a link
\* that is tried again and again delivers again and again.
Fairness ==
  /\ \A n \in Nodes : WF_vars(SendingOpportunity(n, Others(n), Others(n)))
  /\ \A e \in Pairs : SF_vars(Sends(e))
  /\ \A e \in Pairs, step \in {"SYN", "SYN_ACK", "ACK"} : SF_vars(Delivery(e, step))

FairSpec == Spec /\ Fairness

-----------------------------------------------------------------------------
(* What holds. *)

\* The type invariant: sessions, the pending set and the steps they can reach.
TypeOK ==
  /\ DOMAIN session = Nodes
  /\ \A n \in Nodes : session[n] \in [Others(n) -> Sessions \union {NoSession}]
  /\ \A n \in Nodes : \A p \in Others(n) : session[n][p] # NoSession =>
       session[n][p].id = [at |-> n, with |-> p, life |-> life[n]]
  /\ \A n \in Nodes : pending[n] \subseteq Others(n)
  /\ \A m \in network : <<m.from, m.to>> \in Pairs /\ m.step \in {"SYN", "SYN_ACK", "ACK"}
  /\ life \in [Nodes -> 0..MaxRestarts]
  /\ duplicates \in 0..MaxDuplicates

\* The session id a node answers to and the nonce it returns are taken from one
\* and the same session of the peer, whatever restarts and role changes there
\* were: recieveSyn() and recieveSynAck() record both or neither.
RecordedTogether ==
  \A n \in Nodes : \A p \in Others(n) :
    LET s == session[n][p]
    IN (s # NoSession /\ s.remoteID # Unknown) =>
         /\ s.theirNonce.id = s.remoteID
         /\ s.remoteID.at = p /\ s.remoteID.with = n

\* A reply returns a nonce its addressee has offered, and of the right kind: a
\* SYN-ACK that of a SYN, an ACK that of a SYN-ACK, though one step counter
\* serves both roles and a duel can change the role at any step.
RepliesReturnOffers ==
  \A m \in network :
    /\ m.step = "SYN_ACK" => m.returned \in {Nonce("syn", i) : i \in Identities}
    /\ m.step = "ACK" => m.returned \in {Nonce("synack", i) : i \in Identities}
    /\ m.step # "SYN" => m.returned.id.at = m.to /\ m.returned.id.with = m.from

\* A node that has accepted a SYN-ACK agrees with the peer on the session: as
\* long as the peer has not been restarted since, the peer's session has
\* recorded this very session, not one from before a restart of the node.
AgreedOnSession ==
  \A n \in Nodes : \A p \in Others(n) :
    LET s == session[n][p]
        q == session[p][n]
    IN (s # NoSession /\ s.step = 2 /\ s.remoteID.life = life[p]) =>
         q # NoSession /\ q.remoteID = s.id

\* The duel comes to an end, also after restarts: in the end one of two nodes
\* that both keep trying is the initiator and the other the adherent, for good.
OppositeRoles(n, p) ==
  /\ session[n][p] # NoSession /\ session[p][n] # NoSession
  /\ session[n][p].initiator # session[p][n].initiator
DuelSettles == \A e \in Pairs : <>[]OppositeRoles(e[1], e[2])

\* Between nodes that stay up the first half of the handshake is completed: one
\* side ends up as the adherent that has recorded the session of the other.
Learned(n, p) ==
  /\ OppositeRoles(n, p)
  /\ ~session[n][p].initiator /\ session[n][p].step > 0
  /\ session[n][p].remoteID = session[p][n].id
StaysUp == \A n \in Nodes : life[n] = 0
PeerLearned ==
  []StaysUp => \A e \in Pairs : <>[](Learned(e[1], e[2]) \/ Learned(e[2], e[1]))

-----------------------------------------------------------------------------
(* Why the duel settles: what it needs of states and steps besides fairness. *)

\* The node that should win the duels.
Outranks(n, p) == Rank[n] > Rank[p]

\* It always has something to send: a loser that takes itself for established is
\* told, and rescheduleSending() never drops the winner.
WinnerKeepsSending ==
  \A n \in Nodes : \A p \in Others(n) :
    Outranks(n, p) /\ session[n][p] # NoSession =>
      ~Established(session[n][p]) /\ Outgoing(n, p, session[n][p]) # {}

\* A datagram that its sender sent before it was restarted.
FromEarlierLife(m) == m.step # "ACK" /\ m.id.life < life[m.from]

\* A datagram of the winner gives the two nodes opposite roles, whatever the loser
\* had come to, unless it is one from before a restart of the winner.
DuelDecides ==
  [][\A m \in network :
       Outranks(m.from, m.to) /\ ~FromEarlierLife(m) /\ (Recieve(m) \/ RecieveFirst(m)) =>
         OppositeRoles(m.from, m.to)']_vars

\* Once opposite, the roles stay so until one is restarted, or a datagram arrives
\* that the winner sent before it was.
RolesStand ==
  [][\A n \in Nodes : \A p \in Others(n) :
       Outranks(n, p) /\ OppositeRoles(n, p) /\ ~OppositeRoles(n, p)' /\ life' = life =>
         \E m \in network : m.from = n /\ m.to = p /\ FromEarlierLife(m)]_vars

-----------------------------------------------------------------------------
(* What CommsChannel.cpp says of the handshake, and the code does not do. *)

\* 1. SYN, 2. SYN-ACK, 3. ACK: between nodes that keep trying over a fair link
\* and stay up, both sessions become established (CommsChannel.cpp 336-496).
HandshakeCompletes ==
  []StaysUp => \A e \in Pairs :
    <>(session[e[1]][e[2]] # NoSession /\ Established(session[e[1]][e[2]]))
=============================================================================
