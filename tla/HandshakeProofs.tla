-------------------------- MODULE HandshakeProofs --------------------------
(***************************************************************************)
(* What the handshake guarantees for every set of nodes, every order of    *)
(* their IDs and every number of restarts and duplicated datagrams.        *)
(*                                                                         *)
(* The inductive invariant says what a step of a session stands for: at    *)
(* step 0 nothing is known of the peer, at step 1 the nonce of a SYN of it *)
(* is recorded, at step 2 that of a SYN-ACK, whatever role the session is  *)
(* in by now.  The winner of the duels never gets to step 2, since it is   *)
(* never an initiator beyond step 0; so its answers stay what it recorded, *)
(* which is why the loser can rely on them.  The last section adds that it *)
(* keeps its role as well, and tells it in whatever it sends.              *)
(***************************************************************************)
EXTENDS Handshake, TLAPS

-----------------------------------------------------------------------------
(* The inductive invariant. *)

Knows(n, p, s, kind, lf) ==
  /\ s.remoteID \in Identities
  /\ s.remoteID.at = p /\ s.remoteID.with = n /\ s.remoteID.life <= lf[p]
  /\ s.theirNonce = Nonce(kind, s.remoteID)

GoodSession(n, p, s, lf) ==
  /\ s \in Sessions
  /\ s.id = [at |-> n, with |-> p, life |-> lf[n]]
  /\ s.step = 0 => s.remoteID = Unknown /\ s.theirNonce = Unknown
  /\ s.step = 1 => Knows(n, p, s, "syn", lf)
  /\ s.step = 2 => Knows(n, p, s, "synack", lf)
  /\ Rank[n] > Rank[p] => s.step < 2 /\ (s.initiator => s.step = 0)

Offers(m, kind, lf) ==
  /\ m.id \in Identities
  /\ m.id.at = m.from /\ m.id.with = m.to /\ m.id.life <= lf[m.from]
  /\ m.nonce = Nonce(kind, m.id)

Returns(m, kind) ==
  \E i \in Identities : i.at = m.to /\ i.with = m.from /\ m.returned = Nonce(kind, i)

GoodMessage(m, lf) ==
  /\ m.from \in Nodes /\ m.to \in Nodes /\ m.from # m.to
  /\ \/ m.step = "SYN" /\ Offers(m, "syn", lf)
     \/ m.step = "SYN_ACK" /\ Offers(m, "synack", lf) /\ Returns(m, "syn")
     \/ m.step = "ACK" /\ Returns(m, "synack")

\* A winner still is where it was when it sent a SYN-ACK in its present life.
Stands(m, ss, lf) ==
  (m.step = "SYN_ACK" /\ Rank[m.from] > Rank[m.to] /\ m.id.life = lf[m.from]) =>
    /\ ss[m.from][m.to] # NoSession
    /\ ss[m.from][m.to].step = 1
    /\ ss[m.from][m.to].remoteID = m.returned.id

TypeInv ==
  /\ DOMAIN session = Nodes
  /\ \A n \in Nodes : session[n] \in [Others(n) -> Sessions \union {NoSession}]
  /\ pending \in [Nodes -> SUBSET Nodes]
  /\ \A n \in Nodes : pending[n] \subseteq Others(n)
  /\ life \in [Nodes -> 0..MaxRestarts]
  /\ duplicates \in 0..MaxDuplicates

SessionInv ==
  \A n \in Nodes : \A p \in Others(n) :
    session[n][p] # NoSession => GoodSession(n, p, session[n][p], life)

NetworkInv == \A m \in network : GoodMessage(m, life) /\ Stands(m, session, life)

\* AgreedOnSession, and that the peer is at the step at which it answered.
AgreedInv ==
  \A n \in Nodes : \A p \in Others(n) :
    LET s == session[n][p]
        q == session[p][n]
    IN (s # NoSession /\ s.step = 2 /\ s.remoteID.life = life[p]) =>
         q # NoSession /\ q.step = 1 /\ q.remoteID = s.id

IInv == TypeInv /\ SessionInv /\ NetworkInv /\ AgreedInv

-----------------------------------------------------------------------------
(* Lemmas. *)

\* A session is never the mark for "no session".
LEMMA SessionIsOne ==
  ASSUME NEW s \in Sessions PROVE s # NoSession
BY DEF Sessions, NoSession

\* A new session knows nothing and is fit for either role.
LEMMA NewSessionGood ==
  ASSUME TypeInv, NEW n \in Nodes, NEW p \in Others(n), NEW i \in BOOLEAN
  PROVE  GoodSession(n, p, CreateSession(n, p, i), life)
BY DEF TypeInv, GoodSession, CreateSession, Sessions, Identities, Others

\* Sending moves a session nowhere: it only notes that something was sent.
LEMMA SendKeeps ==
  ASSUME NEW lf \in [Nodes -> 0..MaxRestarts], 
         NEW n \in Nodes, NEW p \in Others(n), NEW s, GoodSession(n, p, s, lf)
  PROVE  /\ GoodSession(n, p, SendHandshake(n, p, s), lf)
         /\ SendHandshake(n, p, s).step = s.step
         /\ SendHandshake(n, p, s).remoteID = s.remoteID
         /\ SendHandshake(n, p, s).id = s.id
<1>1. SendHandshake(n, p, s) \in {s, [s EXCEPT !.once = TRUE]}
  BY DEF SendHandshake, HandleTX
<1>2. s \in Sessions
  BY DEF GoodSession
<1>3. [s EXCEPT !.once = TRUE] \in Sessions
  BY <1>2 DEF Sessions
<1>. QED
  BY <1>1, <1>2, <1>3 DEF GoodSession, Knows, Sessions

\* What a session sends is a good datagram, and an answer returns what it knows.
LEMMA SendGood ==
  ASSUME NEW lf \in [Nodes -> 0..MaxRestarts], 
         NEW n \in Nodes, NEW p \in Others(n), NEW s, GoodSession(n, p, s, lf),
         NEW m \in Outgoing(n, p, s)
  PROVE  /\ GoodMessage(m, lf) /\ m.from = n /\ m.to = p
         /\ m.step = "SYN_ACK" => /\ s.step = 1
                                  /\ m.returned.id = s.remoteID
<1>1. s \in Sessions /\ s.step \in 0..2 /\ s.initiator \in BOOLEAN
  BY DEF GoodSession, Sessions
<1>2. /\ s.id \in Identities /\ s.id.at = n /\ s.id.with = p /\ s.id.life <= lf[n]
  BY <1>1 DEF GoodSession, Sessions
<1>3. CASE m = Syn(n, p, s)
  BY <1>2, <1>3 DEF Syn, GoodMessage, Offers, Others
<1>4. CASE m = SynAck(n, p, s) /\ ExpectedStepTX(s) = "SYN_ACK"
  <2>1. s.step = 1
    BY <1>1, <1>4 DEF ExpectedStepTX
  <2>2. Knows(n, p, s, "syn", lf)
    BY <2>1 DEF GoodSession
  <2>3. m.returned = Nonce("syn", s.remoteID) /\ m.from = n /\ m.to = p
        /\ m.id = s.id /\ m.nonce = Nonce("synack", s.id) /\ m.step = "SYN_ACK"
    BY <1>4, <2>2 DEF SynAck, Knows
  <2>. QED
    BY <1>2, <2>1, <2>2, <2>3 DEF GoodMessage, Offers, Returns, Knows, Nonce, Others
<1>5. CASE m = Ack(n, p, s) /\ ExpectedStepTX(s) = "ACK"
  <2>1. s.step = 2
    BY <1>1, <1>5 DEF ExpectedStepTX
  <2>2. Knows(n, p, s, "synack", lf)
    BY <2>1 DEF GoodSession
  <2>3. m.returned = Nonce("synack", s.remoteID) /\ m.from = n /\ m.to = p /\ m.step = "ACK"
    BY <1>5, <2>2 DEF Ack, Knows
  <2>. QED
    BY <2>2, <2>3 DEF GoodMessage, Returns, Knows, Others
<1>. QED
  BY <1>3, <1>4, <1>5 DEF Outgoing

\* No ACK is ever accepted: what it returns is the nonce of a SYN-ACK.
LEMMA AckRefused ==
  ASSUME NEW lf \in [Nodes -> 0..MaxRestarts], NEW m, GoodMessage(m, lf), m.step = "ACK", NEW s
  PROVE  RecieveStep(s, m) = s
<1>1. PICK i \in Identities : m.returned = Nonce("synack", i)
  BY DEF GoodMessage, Returns
<1>2. ~Accepts(s, m)
  BY <1>1 DEF Accepts, Nonce
<1>. QED
  BY <1>2 DEF RecieveStep

\* The record a session becomes when it moves on by one step.
LEMMA Advance ==
  ASSUME NEW r \in Sessions, r.step \in {0, 1}, NEW t,
         t = [r EXCEPT !.once = FALSE, !.step = @ + 1]
  PROVE  /\ t \in Sessions /\ t.step = r.step + 1 /\ t.id = r.id
         /\ t.initiator = r.initiator
         /\ t.remoteID = r.remoteID /\ t.theirNonce = r.theirNonce
<1>. DEFINE next == r.step + 1
<1>1. next \in 0..2
  OBVIOUS
<1>2. t = [r EXCEPT !.once = FALSE, !.step = next]
  OBVIOUS
<1>. HIDE DEF next
<1>3. t \in Sessions
  BY <1>1, <1>2 DEF Sessions
<1>4. /\ t.step = next /\ t.id = r.id /\ t.initiator = r.initiator
      /\ t.remoteID = r.remoteID /\ t.theirNonce = r.theirNonce
  BY <1>2 DEF Sessions
<1>. QED
  BY <1>3, <1>4 DEF next

\* A SYN that is expected takes the session from step 0 to step 1.
LEMMA AcceptSyn ==
  ASSUME NEW lf \in [Nodes -> 0..MaxRestarts], 
         NEW n \in Nodes, NEW p \in Others(n), NEW s, GoodSession(n, p, s, lf),
         NEW m, GoodMessage(m, lf), m.from = p, m.to = n, m.step = "SYN",
         ExpectedStepRX(s) = "SYN"
  PROVE  /\ s.step = 0
         /\ GoodSession(n, p, RecieveStep(s, m), lf)
         /\ RecieveStep(s, m).step = 1
<1>1. s \in Sessions /\ s.step \in 0..2 /\ s.initiator \in BOOLEAN /\ s.once \in BOOLEAN
  BY DEF GoodSession, Sessions
<1>2. s.step = 0 /\ ~s.initiator
  BY <1>1 DEF ExpectedStepRX
<1>3. /\ m.id \in Identities /\ m.id.at = p /\ m.id.with = n /\ m.id.life <= lf[p]
      /\ m.nonce = Nonce("syn", m.id) /\ m.nonce \in Nonces
  BY DEF GoodMessage, Offers, Nonce, Nonces
<1>. DEFINE r == [s EXCEPT !.theirNonce = m.nonce, !.remoteID = m.id]
            t == [r EXCEPT !.once = FALSE, !.step = @ + 1]
<1>4. r \in Sessions /\ r.step = 0 /\ ~r.initiator
  BY <1>1, <1>2, <1>3 DEF Sessions
<1>5. RecieveStep(s, m) = t
  BY <1>2, <1>4 DEF RecieveStep, Accepts, Recorded, HandleRX, ExpectedStepRX
<1>6. /\ t \in Sessions /\ t.step = 1 /\ t.id = s.id /\ ~t.initiator
      /\ t.remoteID = m.id /\ t.theirNonce = m.nonce
  <2>1. /\ r.id = s.id /\ r.initiator = s.initiator
        /\ r.remoteID = m.id /\ r.theirNonce = m.nonce
    BY <1>1 DEF Sessions
  <2>. HIDE DEF r
  <2>2. /\ t \in Sessions /\ t.step = r.step + 1 /\ t.id = r.id
        /\ t.initiator = r.initiator
        /\ t.remoteID = r.remoteID /\ t.theirNonce = r.theirNonce
    BY <1>4, Advance
  <2>. QED
    BY <1>2, <1>4, <2>1, <2>2
<1>7. GoodSession(n, p, t, lf)
  BY <1>3, <1>6 DEF GoodSession, Knows
<1>. QED
  BY <1>2, <1>5, <1>6, <1>7

\* A SYN-ACK that is accepted takes an initiator from step 1 to step 2, and
\* returns the nonce of that session's SYN; the initiator is the loser.
LEMMA AcceptSynAck ==
  ASSUME NEW lf \in [Nodes -> 0..MaxRestarts], 
         NEW n \in Nodes, NEW p \in Others(n), NEW s, GoodSession(n, p, s, lf),
         NEW m, GoodMessage(m, lf), m.from = p, m.to = n, m.step = "SYN_ACK",
         ExpectedStepRX(s) = "SYN_ACK", Accepts(s, m)
  PROVE  /\ ~(Rank[n] > Rank[p])
         /\ m.returned = Nonce("syn", s.id)
         /\ GoodSession(n, p, RecieveStep(s, m), lf)
         /\ RecieveStep(s, m).remoteID = m.id
<1>1. s \in Sessions /\ s.step \in 0..2 /\ s.initiator \in BOOLEAN /\ s.once \in BOOLEAN
  BY DEF GoodSession, Sessions
<1>2. s.step = 1 /\ s.initiator
  BY <1>1 DEF ExpectedStepRX
<1>3. /\ m.id \in Identities /\ m.id.at = p /\ m.id.with = n /\ m.id.life <= lf[p]
      /\ m.nonce = Nonce("synack", m.id) /\ m.nonce \in Nonces
  BY DEF GoodMessage, Offers, Nonce, Nonces
<1>. DEFINE r == [s EXCEPT !.theirNonce = m.nonce, !.remoteID = m.id]
            t == [r EXCEPT !.once = FALSE, !.step = @ + 1]
<1>4. r \in Sessions /\ r.step = 1 /\ r.initiator
  BY <1>1, <1>2, <1>3 DEF Sessions
<1>5. RecieveStep(s, m) = t
  BY <1>2, <1>4 DEF RecieveStep, Recorded, HandleRX, ExpectedStepRX
<1>6. /\ t \in Sessions /\ t.step = 2 /\ t.id = s.id
      /\ t.remoteID = m.id /\ t.theirNonce = m.nonce
  <2>1. /\ r.id = s.id /\ r.initiator = s.initiator
        /\ r.remoteID = m.id /\ r.theirNonce = m.nonce
    BY <1>1 DEF Sessions
  <2>. HIDE DEF r
  <2>2. /\ t \in Sessions /\ t.step = r.step + 1 /\ t.id = r.id
        /\ t.initiator = r.initiator
        /\ t.remoteID = r.remoteID /\ t.theirNonce = r.theirNonce
    BY <1>4, Advance
  <2>. QED
    BY <1>2, <1>4, <2>1, <2>2
<1>7. ~(Rank[n] > Rank[p])
  BY <1>2 DEF GoodSession
<1>8. GoodSession(n, p, t, lf)
  BY <1>3, <1>6, <1>7 DEF GoodSession, Knows
<1>9. m.returned = Nonce("syn", s.id)
  BY DEF Accepts
<1>. QED
  BY <1>5, <1>6, <1>7, <1>8, <1>9

\* What a datagram does to a session.
LEMMA RecieveGood ==
  ASSUME NEW lf \in [Nodes -> 0..MaxRestarts], 
         NEW n \in Nodes, NEW p \in Others(n), NEW s, GoodSession(n, p, s, lf),
         NEW m, GoodMessage(m, lf), m.from = p, m.to = n,
         NEW t, t = RecieveHandshake(n, p, s, m)
  PROVE  /\ GoodSession(n, p, t, lf)
         /\ (Rank[n] > Rank[p] /\ s.step = 1) => t.step = 1 /\ t.remoteID = s.remoteID
         /\ t.step = 2 => \/ s.step = 2 /\ t.remoteID = s.remoteID
                          \/ /\ ~(Rank[n] > Rank[p]) /\ m.step = "SYN_ACK"
                             /\ t.remoteID = m.id /\ m.returned = Nonce("syn", s.id)
<1>1. s \in Sessions /\ s.step \in 0..2 /\ s.initiator \in BOOLEAN
  BY DEF GoodSession, Sessions
<1>2. CASE t = s
  BY <1>2
<1>3. CASE t = [s EXCEPT !.initiator = ~@] /\ ~WeWin(n, p)
  <2>1. t \in Sessions
    BY <1>1, <1>3 DEF Sessions
  <2>2. /\ t.id = s.id /\ t.step = s.step
        /\ t.remoteID = s.remoteID /\ t.theirNonce = s.theirNonce
    BY <1>1, <1>3 DEF Sessions
  <2>. QED
    BY <1>3, <2>1, <2>2 DEF GoodSession, Knows, WeWin
<1>4. CASE t = RecieveStep(s, m) /\ t # s
  <2>1. ExpectedStepRX(s) = m.step /\ Accepts(s, m)
    BY <1>4 DEF RecieveStep
  <2>2. CASE m.step = "SYN"
    BY <1>4, <2>1, <2>2, AcceptSyn
  <2>3. CASE m.step = "SYN_ACK"
    BY <1>4, <2>1, <2>3, AcceptSynAck
  <2>4. CASE m.step = "ACK"
    BY <1>4, <2>4, AckRefused
  <2>. QED
    BY <2>2, <2>3, <2>4 DEF GoodMessage
<1>. QED
  BY <1>2, <1>3, <1>4 DEF RecieveHandshake, Duel

-----------------------------------------------------------------------------
(* The invariant is inductive. *)

LEMMA InitHolds == Init => IInv
BY HandshakeAssumption
   DEF Init, IInv, TypeInv, SessionInv, NetworkInv, AgreedInv, Others, NoSession

\* A step that only notes what was sent, or creates sessions at step 0, leaves
\* what a winner stands for and what was agreed on.
LEMMA SendingKeeps ==
  ASSUME IInv, UNCHANGED life,
         \A a \in Nodes : \A b \in Others(a) :
           IF session[a][b] # NoSession
           THEN /\ session'[a][b] # NoSession
                /\ session'[a][b].step = session[a][b].step
                /\ session'[a][b].remoteID = session[a][b].remoteID
                /\ session'[a][b].id = session[a][b].id
           ELSE session'[a][b] # NoSession => session'[a][b].step = 0
  PROVE  AgreedInv' /\ \A m \in network : Stands(m, session', life')
<1>1. AgreedInv'
  <2> SUFFICES ASSUME NEW a \in Nodes, NEW b \in Others(a),
                      session'[a][b] # NoSession, session'[a][b].step = 2,
                      session'[a][b].remoteID.life = life'[b]
               PROVE  /\ session'[b][a] # NoSession /\ session'[b][a].step = 1
                      /\ session'[b][a].remoteID = session'[a][b].id
    BY DEF AgreedInv
  <2>1. b \in Nodes /\ a \in Others(b)
    BY DEF Others
  <2>2. session[a][b] # NoSession /\ session[a][b].step = 2
        /\ session[a][b].remoteID.life = life[b] /\ session'[a][b].id = session[a][b].id
    OBVIOUS
  <2>3. /\ session[b][a] # NoSession /\ session[b][a].step = 1
        /\ session[b][a].remoteID = session[a][b].id
    BY <2>2 DEF IInv, AgreedInv
  <2>. QED
    BY <2>1, <2>2, <2>3
<1>2. ASSUME NEW m \in network PROVE Stands(m, session', life')
  <2>1. GoodMessage(m, life) /\ Stands(m, session, life)
    BY DEF IInv, NetworkInv
  <2>2. m.from \in Nodes /\ m.to \in Others(m.from)
    BY <2>1 DEF GoodMessage, Others
  <2>. QED
    BY <2>1, <2>2 DEF Stands
<1>. QED
  BY <1>1, <1>2

\* A sending opportunity.
LEMMA SendingOpportunityKeeps ==
  ASSUME IInv, NEW n \in Nodes, NEW due \in SUBSET Others(n),
         NEW created \in SUBSET Others(n), SendingOpportunity(n, due, created)
  PROVE  IInv'
<1>. DEFINE from == [p \in Others(n) |->
                       IF p \in pending[n] THEN SendingSession(n, p, created) ELSE NoSession]
            sent == [p \in Others(n) |->
                       IF p \in pending[n] THEN SendHandshake(n, p, from[p]) ELSE session[n][p]]
<1>1. /\ session' = [session EXCEPT ![n] = sent]
      /\ network' = network \union UNION {Outgoing(n, p, from[p]) : p \in Others(n)}
      /\ pending' = [pending EXCEPT ![n] = PendingHandshakes(sent, due)]
      /\ life' = life /\ duplicates' = duplicates
  BY Zenon DEF SendingOpportunity
<1>2. TypeInv /\ SessionInv /\ NetworkInv /\ AgreedInv
  BY DEF IInv
<1>3. life \in [Nodes -> 0..MaxRestarts]
  BY <1>2 DEF TypeInv
\* The session a handshake is sent from is good, or there is none.
<1>4. ASSUME NEW p \in Others(n)
      PROVE  from[p] = NoSession \/ GoodSession(n, p, from[p], life)
  <2>1. session[n][p] # NoSession => GoodSession(n, p, session[n][p], life)
    BY <1>2 DEF SessionInv
  <2>2. GoodSession(n, p, CreateSession(n, p, TRUE), life)
    BY <1>2, NewSessionGood
  <2>. QED
    BY <2>1, <2>2 DEF SendingSession
\* What becomes of each session of n.
<1>5. ASSUME NEW p \in Others(n)
      PROVE  /\ sent[p] = NoSession \/ GoodSession(n, p, sent[p], life)
             /\ IF session[n][p] # NoSession
                THEN /\ sent[p] # NoSession
                     /\ sent[p].step = session[n][p].step
                     /\ sent[p].remoteID = session[n][p].remoteID
                     /\ sent[p].id = session[n][p].id
                ELSE sent[p] # NoSession => sent[p].step = 0
  <2>1. CASE p \notin pending[n]
    BY <1>2, <2>1 DEF SessionInv
  <2>2. CASE p \in pending[n] /\ from[p] = NoSession
    <3>1. sent[p] = NoSession
      BY <2>2 DEF SendHandshake, Outgoing
    <3>2. session[n][p] = NoSession
      BY <2>2 DEF SendingSession
    <3>. QED
      BY <3>1, <3>2
  <2>3. CASE p \in pending[n] /\ from[p] # NoSession
    <3>1. GoodSession(n, p, from[p], life)
      BY <1>4, <2>3
    <3>2. /\ GoodSession(n, p, sent[p], life)
          /\ sent[p].step = from[p].step /\ sent[p].remoteID = from[p].remoteID
          /\ sent[p].id = from[p].id
      BY <1>3, <2>3, <3>1, SendKeeps
    <3>3. sent[p] # NoSession
      BY <3>2, SessionIsOne DEF GoodSession
    <3>4. IF session[n][p] # NoSession THEN from[p] = session[n][p] ELSE from[p].step = 0
      BY <2>3 DEF SendingSession, CreateSession
    <3>. HIDE DEF from, sent
    <3>. QED
      BY <3>2, <3>3, <3>4
  <2>. QED
    BY <2>1, <2>2, <2>3
<1>6. \A a \in Nodes : \A b \in Others(a) :
        session'[a][b] = IF a = n THEN sent[b] ELSE session[a][b]
  BY <1>1, <1>2 DEF TypeInv
<1>7. sent \in [Others(n) -> Sessions \union {NoSession}]
  <2>1. \A p \in Others(n) : sent[p] \in Sessions \union {NoSession}
    BY <1>5 DEF GoodSession
  <2>2. sent = [p \in Others(n) |-> sent[p]]
    BY Zenon
  <2>. HIDE DEF sent
  <2>. QED
    BY <2>1, <2>2
<1>. HIDE DEF sent
<1>8. TypeInv'
  <2>1. DOMAIN session' = Nodes
    BY <1>1, <1>2 DEF TypeInv
  <2>2. \A a \in Nodes : session'[a] \in [Others(a) -> Sessions \union {NoSession}]
    BY <1>1, <1>2, <1>7 DEF TypeInv
  <2>3. PendingHandshakes(sent, due) \subseteq Others(n) /\ Others(n) \subseteq Nodes
    BY DEF PendingHandshakes, Others
  <2>4. pending' \in [Nodes -> SUBSET Nodes] /\ \A a \in Nodes : pending'[a] \subseteq Others(a)
    BY <1>1, <1>2, <2>3 DEF TypeInv
  <2>. QED
    BY <1>1, <1>2, <2>1, <2>2, <2>4 DEF TypeInv
<1>9. SessionInv'
  BY <1>1, <1>2, <1>5, <1>6 DEF SessionInv
<1>10. AgreedInv' /\ \A m \in network : Stands(m, session', life')
  <2>1. \A a \in Nodes : \A b \in Others(a) :
           IF session[a][b] # NoSession
           THEN /\ session'[a][b] # NoSession
                /\ session'[a][b].step = session[a][b].step
                /\ session'[a][b].remoteID = session[a][b].remoteID
                /\ session'[a][b].id = session[a][b].id
           ELSE session'[a][b] # NoSession => session'[a][b].step = 0
    BY <1>5, <1>6
  <2>. QED
    BY <1>1, <2>1, SendingKeeps
<1>11. ASSUME NEW p \in Others(n), NEW m \in Outgoing(n, p, from[p])
       PROVE  GoodMessage(m, life) /\ Stands(m, session', life)
  <2>1. from[p] # NoSession /\ GoodSession(n, p, from[p], life)
    BY <1>4, <1>11 DEF Outgoing
  <2>. DEFINE s == from[p]
  <2>2. /\ GoodMessage(m, life) /\ m.from = n /\ m.to = p
        /\ m.step = "SYN_ACK" => s.step = 1 /\ m.returned.id = s.remoteID
    <3>. HIDE DEF from
    <3>. QED
      BY <1>3, <2>1, SendGood
  <2>3. m.step = "SYN_ACK" => /\ session'[n][p] # NoSession
                              /\ session'[n][p].step = 1
                              /\ session'[n][p].remoteID = m.returned.id
    <3> SUFFICES ASSUME m.step = "SYN_ACK"
                 PROVE  /\ session'[n][p] # NoSession
                        /\ session'[n][p].step = 1
                        /\ session'[n][p].remoteID = m.returned.id
      OBVIOUS
    <3>1. p \in pending[n]
      BY <2>1
    <3>2. s.step = 1 /\ m.returned.id = s.remoteID
      BY <2>2
    <3>3. s = session[n][p]
      BY <3>1, <3>2 DEF SendingSession, CreateSession
    <3>4. session'[n][p] = sent[p]
      BY <1>6
    <3>. QED
      BY <1>5, <2>1, <3>2, <3>3, <3>4
  <2>. QED
    BY <2>2, <2>3 DEF Stands
<1>12. NetworkInv'
  <2>1. \A m \in network' : m \in network \/ \E p \in Others(n) : m \in Outgoing(n, p, from[p])
    BY <1>1
  <2>. HIDE DEF from
  <2>. QED
    BY <1>1, <1>2, <1>10, <1>11, <2>1 DEF NetworkInv
<1>. QED
  BY <1>8, <1>9, <1>10, <1>12 DEF IInv

\* A courier's wish to send changes no more than what is pending.
LEMMA RescheduleSendingKeeps ==
  ASSUME IInv, NEW n \in Nodes, NEW due \in SUBSET Others(n), RescheduleSending(n, due)
  PROVE  IInv'
<1>1. PendingHandshakes(session[n], due) \subseteq Others(n) /\ Others(n) \subseteq Nodes
  BY DEF PendingHandshakes, Others
<1>2. TypeInv'
  BY <1>1 DEF IInv, TypeInv, RescheduleSending
<1>3. UNCHANGED <<session, network, life>>
  BY DEF RescheduleSending
<1>. QED
  BY <1>2, <1>3 DEF IInv, SessionInv, NetworkInv, AgreedInv

\* A datagram that reaches a session, be it there already or created by it.
LEMMA DatagramKeeps ==
  ASSUME IInv, NEW m \in network, NEW s, NEW t, GoodSession(m.to, m.from, s, life),
         s = session[m.to][m.from] \/ (session[m.to][m.from] = NoSession /\ s.step = 0
                                       /\ m.step = "SYN"),
         t = RecieveHandshake(m.to, m.from, s, m),
         session' = [session EXCEPT ![m.to][m.from] = t],
         Leaves(m), UNCHANGED <<pending, life>>
  PROVE  IInv'
<1>. DEFINE n == m.to
            p == m.from
<1>1. TypeInv /\ SessionInv /\ NetworkInv /\ AgreedInv
  BY DEF IInv
<1>2. life \in [Nodes -> 0..MaxRestarts] /\ life' = life
  BY <1>1 DEF TypeInv
<1>3. GoodMessage(m, life) /\ Stands(m, session, life)
  BY <1>1 DEF NetworkInv
<1>4. n \in Nodes /\ p \in Nodes /\ n # p /\ p \in Others(n) /\ n \in Others(p)
  BY <1>3 DEF GoodMessage, Others
<1>5. /\ GoodSession(n, p, t, life)
      /\ (Rank[n] > Rank[p] /\ s.step = 1) => t.step = 1 /\ t.remoteID = s.remoteID
      /\ t.step = 2 => \/ s.step = 2 /\ t.remoteID = s.remoteID
                       \/ /\ ~(Rank[n] > Rank[p]) /\ m.step = "SYN_ACK"
                          /\ t.remoteID = m.id /\ m.returned = Nonce("syn", s.id)
  BY <1>2, <1>3, <1>4, RecieveGood
<1>6. t # NoSession /\ t.id = s.id
  BY <1>5, SessionIsOne DEF GoodSession
<1>7. \A a \in Nodes : \A b \in Others(a) :
        session'[a][b] = IF a = n /\ b = p THEN t ELSE session[a][b]
  BY <1>1, <1>4 DEF TypeInv
<1>8. network' \subseteq network /\ duplicates' \in 0..MaxDuplicates
  BY <1>1, HandshakeAssumption DEF Leaves, TypeInv
<1>9. TypeInv'
  <2>1. t \in Sessions
    BY <1>5 DEF GoodSession
  <2>2. \A a \in Nodes : session'[a] \in [Others(a) -> Sessions \union {NoSession}]
    BY <1>1, <1>4, <2>1 DEF TypeInv
  <2>3. DOMAIN session' = Nodes
    BY <1>1 DEF TypeInv
  <2>. QED
    BY <1>1, <1>8, <2>2, <2>3 DEF TypeInv
<1>10. SessionInv'
  BY <1>1, <1>2, <1>5, <1>7 DEF SessionInv
<1>11. ASSUME NEW k \in network PROVE GoodMessage(k, life') /\ Stands(k, session', life')
  <2>1. GoodMessage(k, life) /\ Stands(k, session, life)
    BY <1>1 DEF NetworkInv
  <2>2. k.from \in Nodes /\ k.to \in Others(k.from)
    BY <2>1 DEF GoodMessage, Others
  <2>3. CASE k.from = n /\ k.to = p
    BY <1>2, <1>4, <1>5, <1>6, <1>7, <2>1, <2>3 DEF Stands
  <2>4. CASE ~(k.from = n /\ k.to = p)
    BY <1>2, <1>7, <2>1, <2>2, <2>4 DEF Stands
  <2>. QED
    BY <2>3, <2>4
<1>12. NetworkInv'
  BY <1>8, <1>11 DEF NetworkInv
<1>13. AgreedInv'
  <2> SUFFICES ASSUME NEW a \in Nodes, NEW b \in Others(a),
                      session'[a][b] # NoSession, session'[a][b].step = 2,
                      session'[a][b].remoteID.life = life'[b]
               PROVE  /\ session'[b][a] # NoSession /\ session'[b][a].step = 1
                      /\ session'[b][a].remoteID = session'[a][b].id
    BY DEF AgreedInv
  <2>1. b \in Nodes /\ a \in Others(b) /\ a # b
    BY DEF Others
  <2>. DEFINE A(x, y) == x # NoSession /\ x.step = 1 /\ x.remoteID = y
\* The session that received: it was at step 2 before, or has just been answered.
  <2>2. CASE a = n /\ b = p
    <3>1. session'[a][b] = t /\ session'[b][a] = session[b][a]
      BY <1>7, <2>1, <2>2
    <3>2. CASE s.step = 2 /\ t.remoteID = s.remoteID
      <4>1. s = session[a][b] /\ s # NoSession
        BY <2>2, <3>2, SessionIsOne DEF GoodSession
      <4>2. s.remoteID.life = life[b]
        BY <1>2, <3>1, <3>2
      <4>3. A(session[b][a], s.id)
        BY <1>1, <3>2, <4>1, <4>2 DEF AgreedInv
      <4>. QED
        BY <1>6, <3>1, <4>3
    <3>3. CASE /\ ~(Rank[n] > Rank[p]) /\ m.step = "SYN_ACK"
               /\ t.remoteID = m.id /\ m.returned = Nonce("syn", s.id)
      <4>1. Rank[p] > Rank[n]
        BY <1>4, <3>3, HandshakeAssumption
      <4>2. m.id.life = life[p]
        BY <1>2, <2>2, <3>1, <3>3
      <4>3. A(session[p][n], m.returned.id)
        BY <1>3, <3>3, <4>1, <4>2 DEF Stands
      <4>4. m.returned.id = s.id
        BY <3>3 DEF Nonce
      <4>. QED
        BY <1>6, <2>2, <3>1, <4>3, <4>4
    <3>. QED
      BY <1>5, <3>1, <3>2, <3>3
  <2>3. CASE ~(a = n /\ b = p)
    <3>1. session'[a][b] = session[a][b]
      BY <1>7, <2>3
    <3>2. A(session[b][a], session[a][b].id)
      BY <1>1, <1>2, <3>1 DEF AgreedInv
\* Its peer received: the peer is a winner, and stays where it was.
    <3>3. CASE b = n /\ a = p
      <4>1. GoodSession(a, b, session[a][b], life)
        BY <1>1, <3>1 DEF SessionInv
      <4>2. ~(Rank[a] > Rank[b])
        BY <3>1, <4>1 DEF GoodSession
      <4>3. Rank[n] > Rank[p]
        BY <2>1, <3>3, <4>2, HandshakeAssumption
      <4>4. s = session[n][p] /\ s.step = 1
        BY <3>2, <3>3
      <4>5. session'[b][a] = t
        BY <1>4, <1>7, <3>3
      <4>. QED
        BY <1>5, <1>6, <3>1, <3>2, <3>3, <4>3, <4>4, <4>5
    <3>4. CASE ~(b = n /\ a = p)
      <4>1. session'[b][a] = session[b][a]
        BY <1>7, <2>1, <3>4
      <4>. QED
        BY <3>1, <3>2, <4>1
    <3>. QED
      BY <3>3, <3>4
  <2>. QED
    BY <2>2, <2>3
<1>. QED
  BY <1>9, <1>10, <1>12, <1>13 DEF IInv

LEMMA RecieveKeeps ==
  ASSUME IInv, NEW m \in network, Recieve(m)
  PROVE  IInv'
<1>1. m.to \in Nodes /\ m.from \in Others(m.to)
  BY DEF IInv, NetworkInv, GoodMessage, Others
<1>. DEFINE s == session[m.to][m.from]
            t == RecieveHandshake(m.to, m.from, s, m)
<1>2. GoodSession(m.to, m.from, s, life)
  BY <1>1 DEF Recieve, IInv, SessionInv
<1>3. session' = [session EXCEPT ![m.to][m.from] = t] /\ Leaves(m) /\ UNCHANGED <<pending, life>>
  BY <1>1 DEF Recieve, IInv, TypeInv
<1>. QED
  BY <1>2, <1>3, DatagramKeeps

LEMMA RecieveFirstKeeps ==
  ASSUME IInv, NEW m \in network, RecieveFirst(m)
  PROVE  IInv'
<1>1. m.to \in Nodes /\ m.from \in Others(m.to)
  BY DEF IInv, NetworkInv, GoodMessage, Others
<1>. DEFINE s == CreateSession(m.to, m.from, FALSE)
            t == RecieveHandshake(m.to, m.from, s, m)
<1>2. GoodSession(m.to, m.from, s, life)
  BY <1>1, NewSessionGood DEF IInv
<1>3. session[m.to][m.from] = NoSession /\ s.step = 0 /\ m.step = "SYN"
  BY DEF RecieveFirst, CreateSession
<1>4. session' = [session EXCEPT ![m.to][m.from] = t] /\ Leaves(m) /\ UNCHANGED <<pending, life>>
  BY DEF RecieveFirst
<1>. HIDE DEF s
<1>. QED
  BY <1>2, <1>3, <1>4, DatagramKeeps

LEMMA LoseKeeps ==
  ASSUME IInv, NEW m \in network, Lose(m)
  PROVE  IInv'
BY DEF Lose, IInv, TypeInv, SessionInv, NetworkInv, AgreedInv

\* A restart: what the node offered in an earlier life now is from an earlier
\* life, and no peer takes it for the present one.
LEMMA RestartKeeps ==
  ASSUME IInv, NEW n \in Nodes, Restart(n)
  PROVE  IInv'
<1>1. TypeInv /\ SessionInv /\ NetworkInv /\ AgreedInv
  BY DEF IInv
<1>2. /\ life' \in [Nodes -> 0..MaxRestarts] /\ life'[n] = life[n] + 1
      /\ \A a \in Nodes : a # n => life'[a] = life[a]
      /\ \A a \in Nodes : life[a] \in Nat /\ life[a] <= life'[a]
  BY <1>1, HandshakeAssumption DEF Restart, TypeInv
<1>3. \A a \in Nodes : \A b \in Others(a) :
        session'[a][b] = IF a = n THEN NoSession ELSE session[a][b]
  BY <1>1 DEF Restart, TypeInv
<1>4. TypeInv'
  BY <1>1, <1>2 DEF Restart, TypeInv
<1>5. SessionInv'
  <2> SUFFICES ASSUME NEW a \in Nodes, NEW b \in Others(a), session'[a][b] # NoSession
               PROVE  GoodSession(a, b, session'[a][b], life')
    BY DEF SessionInv
  <2>1. a # n /\ session'[a][b] = session[a][b] /\ b \in Nodes
    BY <1>3 DEF Others
  <2>2. GoodSession(a, b, session[a][b], life)
    BY <1>1, <2>1 DEF SessionInv
  <2>. DEFINE s == session[a][b]
  <2>3. ASSUME s.remoteID \in Identities, s.remoteID.life <= life[b]
        PROVE  s.remoteID.life <= life'[b]
    BY <1>2, <2>1, <2>3, HandshakeAssumption DEF Identities
  <2>. HIDE DEF s
  <2>. QED
    BY <1>2, <2>1, <2>2, <2>3 DEF GoodSession, Knows, s
<1>6. ASSUME NEW m \in network PROVE GoodMessage(m, life') /\ Stands(m, session', life')
  <2>1. GoodMessage(m, life) /\ Stands(m, session, life)
    BY <1>1 DEF NetworkInv
  <2>2. m.from \in Nodes /\ m.to \in Others(m.from)
    BY <2>1 DEF GoodMessage, Others
  <2>3. ASSUME NEW kind, Offers(m, kind, life)
        PROVE  Offers(m, kind, life') /\ m.id.life \in Int /\ m.id.life <= life[m.from]
    BY <1>2, <2>2, <2>3, HandshakeAssumption DEF Offers, Identities
  <2>4. GoodMessage(m, life')
    BY <2>1, <2>3 DEF GoodMessage
  <2>5. Stands(m, session', life')
    <3>1. CASE m.from = n
      <4>1. m.step = "SYN_ACK" => m.id.life # life'[n]
        BY <1>2, <2>1, <2>3, <3>1 DEF GoodMessage
      <4>. QED
        BY <3>1, <4>1 DEF Stands
    <3>2. CASE m.from # n
      BY <1>2, <1>3, <2>1, <2>2, <3>2 DEF Stands
    <3>. QED
      BY <3>1, <3>2
  <2>. QED
    BY <2>4, <2>5
<1>7. NetworkInv'
  BY <1>6 DEF Restart, NetworkInv
<1>8. AgreedInv'
  <2> SUFFICES ASSUME NEW a \in Nodes, NEW b \in Others(a),
                      session'[a][b] # NoSession, session'[a][b].step = 2,
                      session'[a][b].remoteID.life = life'[b]
               PROVE  /\ session'[b][a] # NoSession /\ session'[b][a].step = 1
                      /\ session'[b][a].remoteID = session'[a][b].id
    BY DEF AgreedInv
  <2>1. a # n /\ session'[a][b] = session[a][b] /\ b \in Nodes /\ a \in Others(b)
    BY <1>3 DEF Others
  <2>2. session[a][b].remoteID \in Identities /\ session[a][b].remoteID.life <= life[b]
    <3>1. GoodSession(a, b, session[a][b], life) /\ session[a][b].step = 2
      BY <1>1, <2>1 DEF SessionInv
    <3>. QED
      BY <3>1 DEF GoodSession, Knows
  <2>3. b # n
    BY <1>2, <2>1, <2>2 DEF Identities
  <2>4. session[a][b].remoteID.life = life[b]
    BY <1>2, <2>1, <2>3
  <2>5. /\ session[b][a] # NoSession /\ session[b][a].step = 1
        /\ session[b][a].remoteID = session[a][b].id
    BY <1>1, <2>1, <2>4 DEF AgreedInv
  <2>. QED
    BY <1>3, <2>1, <2>3, <2>5
<1>. QED
  BY <1>4, <1>5, <1>7, <1>8 DEF IInv

\* Every step of the specification keeps the invariant.
LEMMA NextKeeps == IInv /\ [Next]_vars => IInv'
<1> SUFFICES ASSUME IInv, [Next]_vars PROVE IInv'
  OBVIOUS
<1>1. CASE \E n \in Nodes : \E due, created \in SUBSET Others(n) :
             SendingOpportunity(n, due, created)
  BY <1>1, SendingOpportunityKeeps
<1>2. CASE \E n \in Nodes : \E due \in SUBSET Others(n) : RescheduleSending(n, due)
  BY <1>2, RescheduleSendingKeeps
<1>3. CASE \E m \in network : Recieve(m) \/ RecieveFirst(m) \/ Lose(m)
  BY <1>3, RecieveKeeps, RecieveFirstKeeps, LoseKeeps
<1>4. CASE \E n \in Nodes : Restart(n)
  BY <1>4, RestartKeeps
<1>5. CASE UNCHANGED vars
  BY <1>5 DEF vars, IInv, TypeInv, SessionInv, NetworkInv, AgreedInv
<1>. QED
  BY <1>1, <1>2, <1>3, <1>4, <1>5 DEF Next

\* The inductive invariant holds of every behaviour of the handshake.
THEOREM InvariantHolds == Spec => []IInv
BY InitHolds, NextKeeps, PTL DEF Spec

-----------------------------------------------------------------------------
(* What follows from it. *)

\* Sessions, pending handshakes and datagrams always have their types; above
\* all, no session gets beyond step 2.
THEOREM TypeCorrect == Spec => []TypeOK
<1>1. IInv => TypeOK
  BY DEF IInv, TypeInv, SessionInv, NetworkInv, GoodSession, GoodMessage, TypeOK,
         Others, Pairs
<1>. QED
  BY <1>1, InvariantHolds, PTL

\* The session id and the nonce a node has recorded always are from one session
\* of the peer, whatever was restarted, lost or duplicated.
THEOREM RecordsConsistent == Spec => []RecordedTogether
<1>1. IInv => RecordedTogether
  <2> SUFFICES ASSUME IInv, NEW n \in Nodes, NEW p \in Others(n),
                      session[n][p] # NoSession, session[n][p].remoteID # Unknown
               PROVE  /\ session[n][p].theirNonce.id = session[n][p].remoteID
                      /\ session[n][p].remoteID.at = p
                      /\ session[n][p].remoteID.with = n
    BY DEF RecordedTogether
  <2>1. GoodSession(n, p, session[n][p], life) /\ session[n][p].step \in 0..2
    BY DEF IInv, SessionInv, GoodSession, Sessions
  <2>. QED
    BY <2>1 DEF GoodSession, Knows, Nonce
<1>. QED
  BY <1>1, InvariantHolds, PTL

\* A reply in flight always returns a nonce its addressee has offered to the
\* sender, and of the kind the reply is for.
THEOREM RepliesHonest == Spec => []RepliesReturnOffers
<1>1. IInv => RepliesReturnOffers
  <2> SUFFICES ASSUME IInv, NEW m \in network
               PROVE  /\ m.step = "SYN_ACK" => m.returned \in {Nonce("syn", i) : i \in Identities}
                      /\ m.step = "ACK" => m.returned \in {Nonce("synack", i) : i \in Identities}
                      /\ m.step # "SYN" => /\ m.returned.id.at = m.to
                                           /\ m.returned.id.with = m.from
    BY DEF RepliesReturnOffers
  <2>1. GoodMessage(m, life)
    BY DEF IInv, NetworkInv
  <2>2. ASSUME NEW kind, Returns(m, kind)
        PROVE  /\ m.returned \in {Nonce(kind, i) : i \in Identities}
               /\ m.returned.id.at = m.to /\ m.returned.id.with = m.from
    BY <2>2 DEF Returns, Nonce
  <2>3. /\ m.step = "SYN_ACK" => Returns(m, "syn")
        /\ m.step = "ACK" => Returns(m, "synack")
        /\ m.step \in {"SYN", "SYN_ACK", "ACK"}
    BY <2>1 DEF GoodMessage
  <2>. QED
    BY <2>2, <2>3
<1>. QED
  BY <1>1, InvariantHolds, PTL

\* A node that has accepted a SYN-ACK agrees with its peer on the session for as
\* long as the peer is not restarted.
THEOREM SessionAgreed == Spec => []AgreedOnSession
<1>1. IInv => AgreedOnSession
  BY DEF IInv, AgreedInv, AgreedOnSession
<1>. QED
  BY <1>1, InvariantHolds, PTL

-----------------------------------------------------------------------------
(* How the duel settles. *)

\* The winner of the duels keeps the role it was created with: as the initiator it
\* stays at step 0, as the adherent it is at step 1 from its first datagram on.  What
\* it has sent in its present life says which role that is.
Role(s, m) == s.initiator <=> m.step = "SYN"
WinnerInv ==
  \A n \in Nodes : \A p \in Others(n) :
    Rank[n] > Rank[p] /\ session[n][p] # NoSession /\ ~session[n][p].initiator =>
      session[n][p].step = 1
SentInv ==
  \A m \in network :
    Rank[m.from] > Rank[m.to] =>
      /\ m.step # "ACK"
      /\ m.id.life = life[m.from] =>
           session[m.from][m.to] # NoSession /\ Role(session[m.from][m.to], m)

\* Sending changes no role.
LEMMA SendKeepsRole ==
  ASSUME NEW n, NEW p, NEW s \in Sessions
  PROVE  SendHandshake(n, p, s).initiator = s.initiator
BY DEF SendHandshake, HandleTX, Sessions

\* What a winner sends says its role.
LEMMA WinnerSends ==
  ASSUME NEW n \in Nodes, NEW p \in Others(n), Rank[n] > Rank[p],
         NEW s, s # NoSession, GoodSession(n, p, s, life), ~s.initiator => s.step = 1
  PROVE  /\ ~Established(s) /\ Outgoing(n, p, s) # {}
         /\ \A m \in Outgoing(n, p, s) : m.from = n /\ m.to = p /\ m.step # "ACK" /\ Role(s, m)
<1>1. s \in Sessions /\ s.step \in 0..2 /\ s.initiator \in BOOLEAN /\ s.once \in BOOLEAN
  BY DEF GoodSession, Sessions
<1>2. CASE s.initiator
  <2>1. s.step = 0
    BY <1>2 DEF GoodSession
  <2>2. ExpectedStepTX(s) = "SYN"
    BY <1>2, <2>1 DEF ExpectedStepTX
  <2>3. ~Established(s) /\ Outgoing(n, p, s) = {Syn(n, p, s)}
    BY <1>2, <2>2 DEF Established, IsSending, Outgoing
  <2>. QED
    BY <1>2, <2>3 DEF Syn, Role
<1>3. CASE ~s.initiator
  <2>1. ExpectedStepTX(s) = "SYN_ACK"
    BY <1>3 DEF ExpectedStepTX
  <2>2. ~Established(s) /\ Outgoing(n, p, s) = {SynAck(n, p, s)}
    BY <2>1 DEF Established, IsSending, Outgoing
  <2>. QED
    BY <1>3, <2>2 DEF SynAck, Role
<1>. QED
  BY <1>2, <1>3

\* A datagram leaves the winner its role, and gives the loser the role that goes
\* with it, whether it is dropped for a duel or not.
LEMMA RecieveRole ==
  ASSUME NEW n, NEW p, NEW s \in Sessions, NEW m, NEW t \in Sessions,
         t = RecieveHandshake(n, p, s, m)
  PROVE  /\ Rank[n] > Rank[p] => t.initiator = s.initiator
         /\ ~(Rank[n] > Rank[p]) => (t.initiator <=> m.step \notin {"SYN", "ACK"})
<1>. DEFINE claimed == m.step \in {"SYN", "ACK"}
<1>1. s.initiator \in BOOLEAN /\ claimed \in BOOLEAN
  BY DEF Sessions
<1>2. CASE claimed = s.initiator
  <2>1. t = IF Rank[n] > Rank[p] THEN s ELSE [s EXCEPT !.initiator = ~s.initiator]
    BY <1>2 DEF RecieveHandshake, Duel, WeWin
  <2>2. [s EXCEPT !.initiator = ~s.initiator].initiator = ~s.initiator
    BY DEF Sessions
  <2>. HIDE DEF claimed
  <2>3. /\ Rank[n] > Rank[p] => t.initiator = s.initiator
        /\ ~(Rank[n] > Rank[p]) => t.initiator = ~s.initiator
    BY <2>1, <2>2
  <2>4. ~(Rank[n] > Rank[p]) => (t.initiator <=> ~claimed)
    BY <1>2, <2>3
  <2>. QED
    BY <2>3, <2>4 DEF claimed
<1>3. CASE claimed # s.initiator
  <2>1. t = RecieveStep(s, m)
    BY <1>3 DEF RecieveHandshake
  <2>2. t.initiator = s.initiator
    BY <2>1 DEF RecieveStep, HandleRX, Recorded, Sessions
  <2>3. s.initiator <=> ~claimed
    BY <1>1, <1>3
  <2>. HIDE DEF claimed
  <2>4. t.initiator <=> ~claimed
    BY <2>2, <2>3, Zenon
  <2>. QED
    BY <2>2, <2>4 DEF claimed
<1>. QED
  BY <1>2, <1>3

LEMMA InitRoles == Init => WinnerInv /\ SentInv
BY DEF Init, WinnerInv, SentInv, Others

\* Every session that there was is still there, in the same role.
RolesSame ==
  \A a \in Nodes : \A b \in Others(a) :
    session[a][b] # NoSession =>
      session'[a][b] # NoSession /\ session'[a][b].initiator = session[a][b].initiator

LEMMA SendingRoles ==
  ASSUME IInv, WinnerInv, SentInv, NEW n \in Nodes, NEW due \in SUBSET Others(n),
         NEW created \in SUBSET Others(n), SendingOpportunity(n, due, created)
  PROVE  WinnerInv' /\ SentInv' /\ RolesSame
<1>. DEFINE from == [p \in Others(n) |->
                       IF p \in pending[n] THEN SendingSession(n, p, created) ELSE NoSession]
            sent == [p \in Others(n) |->
                       IF p \in pending[n] THEN SendHandshake(n, p, from[p]) ELSE session[n][p]]
            Won(p, s) == Rank[n] > Rank[p] /\ s # NoSession /\ ~s.initiator => s.step = 1
<1>1. /\ session' = [session EXCEPT ![n] = sent]
      /\ network' = network \union UNION {Outgoing(n, p, from[p]) : p \in Others(n)}
      /\ life' = life
  BY Zenon DEF SendingOpportunity
<1>2. TypeInv /\ SessionInv /\ NetworkInv /\ life \in [Nodes -> 0..MaxRestarts]
  BY DEF IInv, TypeInv
\* The session a handshake is sent from, if there is one.
<1>3. ASSUME NEW p \in Others(n), from[p] # NoSession
      PROVE  /\ p \in pending[n] /\ GoodSession(n, p, from[p], life) /\ Won(p, from[p])
             /\ session[n][p] # NoSession => from[p] = session[n][p]
  <2>1. p \in pending[n] /\ from[p] = SendingSession(n, p, created)
    BY <1>3
  <2>2. CASE from[p] = session[n][p]
    BY <1>2, <1>3, <2>1, <2>2 DEF SessionInv, WinnerInv
  <2>3. CASE from[p] = CreateSession(n, p, TRUE) /\ session[n][p] = NoSession
    <3>1. GoodSession(n, p, CreateSession(n, p, TRUE), life)
      BY <1>2, NewSessionGood
    <3>2. CreateSession(n, p, TRUE).initiator
      BY DEF CreateSession
    <3>. QED
      BY <2>1, <2>3, <3>1, <3>2
  <2>. QED
    BY <2>1, <2>2, <2>3 DEF SendingSession
\* What becomes of each session of n.
<1>4. ASSUME NEW p \in Others(n)
      PROVE  /\ Won(p, sent[p])
             /\ session[n][p] # NoSession =>
                  sent[p] # NoSession /\ sent[p].initiator = session[n][p].initiator
             /\ from[p] # NoSession => sent[p] # NoSession /\ sent[p].initiator = from[p].initiator
  <2>1. CASE p \notin pending[n]
    BY <1>3, <2>1 DEF WinnerInv
  <2>2. CASE p \in pending[n] /\ from[p] = NoSession
    BY <2>2 DEF SendHandshake, Outgoing, SendingSession
  <2>3. CASE p \in pending[n] /\ from[p] # NoSession
    <3>1. GoodSession(n, p, from[p], life) /\ Won(p, from[p])
          /\ (session[n][p] # NoSession => from[p] = session[n][p])
          /\ sent[p] = SendHandshake(n, p, from[p])
      BY <1>3, <2>3
    <3>. HIDE DEF from, sent
    <3>2. GoodSession(n, p, sent[p], life) /\ sent[p].step = from[p].step
      BY <1>2, <3>1, SendKeeps
    <3>3. from[p] \in Sessions /\ sent[p] \in Sessions
      BY <3>1, <3>2 DEF GoodSession
    <3>4. sent[p].initiator = from[p].initiator /\ sent[p] # NoSession
      BY <3>1, <3>3, SendKeepsRole, SessionIsOne
    <3>. QED
      BY <2>3, <3>1, <3>2, <3>4
  <2>. QED
    BY <2>1, <2>2, <2>3
<1>5. \A a \in Nodes : \A b \in Others(a) :
        session'[a][b] = IF a = n THEN sent[b] ELSE session[a][b]
  BY <1>1, <1>2 DEF TypeInv
<1>6. \A m \in network' : m \in network \/ \E p \in Others(n) : m \in Outgoing(n, p, from[p])
  BY <1>1
<1>. HIDE DEF from, sent
<1>7. WinnerInv'
  BY <1>4, <1>5 DEF WinnerInv
<1>8. RolesSame
  BY <1>4, <1>5 DEF RolesSame
<1>9. ASSUME NEW m \in network', Rank[m.from] > Rank[m.to]
      PROVE  /\ m.step # "ACK"
             /\ m.id.life = life[m.from] =>
                  session'[m.from][m.to] # NoSession /\ Role(session'[m.from][m.to], m)
  <2>1. CASE m \in network
    <3>1. m.from \in Nodes /\ m.to \in Others(m.from)
      BY <1>2, <2>1 DEF NetworkInv, GoodMessage, Others
    <3>. QED
      BY <1>8, <1>9, <2>1, <3>1 DEF SentInv, RolesSame, Role
  <2>2. CASE \E p \in Others(n) : m \in Outgoing(n, p, from[p])
    <3>1. PICK p \in Others(n) : m \in Outgoing(n, p, from[p])
      BY <2>2
    <3>2. from[p] # NoSession
      BY <3>1 DEF Outgoing
    <3>3. GoodSession(n, p, from[p], life) /\ Won(p, from[p])
      BY <1>3, <3>2
    <3>4. m.from = n /\ m.to = p
      BY <1>2, <3>1, <3>3, SendGood
    <3>5. m.step # "ACK" /\ Role(from[p], m)
      BY <1>9, <3>1, <3>2, <3>3, <3>4, WinnerSends
    <3>6. session'[n][p] # NoSession /\ session'[n][p].initiator = from[p].initiator
      BY <1>4, <1>5, <3>2
    <3>. QED
      BY <3>4, <3>5, <3>6 DEF Role
  <2>. QED
    BY <1>6, <2>1, <2>2
<1>. QED
  BY <1>1, <1>7, <1>8, <1>9 DEF SentInv

\* What a datagram does to the roles: a winner's decides them, unless it is from an
\* earlier life, and no other datagram changes them.
LEMMA DatagramRoles ==
  ASSUME IInv, WinnerInv, SentInv, NEW m \in network, NEW s, NEW t,
         GoodSession(m.to, m.from, s, life),
         s = session[m.to][m.from] \/ (session[m.to][m.from] = NoSession /\ s.step = 0
                                       /\ ~s.initiator /\ m.step = "SYN"),
         t = RecieveHandshake(m.to, m.from, s, m),
         session' = [session EXCEPT ![m.to][m.from] = t],
         Leaves(m), UNCHANGED <<pending, life>>
  PROVE  /\ WinnerInv' /\ SentInv'
         /\ Rank[m.from] > Rank[m.to] /\ ~FromEarlierLife(m) => OppositeRoles(m.from, m.to)'
         /\ \A a \in Nodes : \A b \in Others(a) :
              session[a][b] # NoSession =>
                /\ session'[a][b] # NoSession
                /\ \/ session'[a][b].initiator = session[a][b].initiator
                   \/ a = m.to /\ b = m.from /\ Rank[b] > Rank[a]
<1>. DEFINE n == m.to
            p == m.from
<1>1. TypeInv /\ NetworkInv /\ life \in [Nodes -> 0..MaxRestarts] /\ life' = life
  BY DEF IInv, TypeInv
<1>2. GoodMessage(m, life)
  BY <1>1 DEF NetworkInv
<1>3. n \in Nodes /\ p \in Nodes /\ n # p /\ p \in Others(n) /\ n \in Others(p)
  BY <1>2 DEF GoodMessage, Others
<1>4. s \in Sessions /\ s # NoSession
  BY SessionIsOne DEF GoodSession
<1>5. /\ GoodSession(n, p, t, life)
      /\ (Rank[n] > Rank[p] /\ s.step = 1) => t.step = 1
  BY <1>1, <1>2, <1>3, RecieveGood
<1>6. t \in Sessions /\ t # NoSession
  BY <1>5, SessionIsOne DEF GoodSession
<1>7. /\ Rank[n] > Rank[p] => t.initiator = s.initiator
      /\ ~(Rank[n] > Rank[p]) => (t.initiator <=> m.step \notin {"SYN", "ACK"})
  <2>1. t = RecieveHandshake(n, p, s, m) /\ s \in Sessions /\ t \in Sessions
    BY <1>4, <1>6
  <2>. HIDE DEF n, p
  <2>. QED
    BY <2>1, RecieveRole
<1>8. \A a \in Nodes : \A b \in Others(a) :
        session'[a][b] = IF a = n /\ b = p THEN t ELSE session[a][b]
  BY <1>1, <1>3 DEF TypeInv
<1>9. network' \subseteq network
  BY DEF Leaves
<1>10. Rank[p] > Rank[n] <=> ~(Rank[n] > Rank[p])
  BY <1>3, HandshakeAssumption
\* A winner that had no session is an adherent that has accepted the SYN.
<1>11. Rank[n] > Rank[p] /\ ~t.initiator => t.step = 1
  <2> SUFFICES ASSUME Rank[n] > Rank[p], ~t.initiator PROVE t.step = 1
    OBVIOUS
  <2>1. CASE s = session[n][p]
    BY <1>3, <1>4, <1>5, <1>7, <2>1 DEF WinnerInv
  <2>2. CASE session[n][p] = NoSession /\ s.step = 0 /\ ~s.initiator /\ m.step = "SYN"
    <3>1. t = RecieveStep(s, m) /\ ExpectedStepRX(s) = "SYN"
      BY <1>4, <2>2 DEF RecieveHandshake, ExpectedStepRX, Sessions
    <3>. QED
      BY <1>1, <1>2, <1>3, <2>2, <3>1, AcceptSyn
  <2>. QED
    BY <2>1, <2>2
<1>12. WinnerInv'
  BY <1>8, <1>11 DEF WinnerInv
<1>13. SentInv'
  <2> SUFFICES ASSUME NEW k \in network, Rank[k.from] > Rank[k.to]
               PROVE  /\ k.step # "ACK"
                      /\ k.id.life = life[k.from] =>
                           session'[k.from][k.to] # NoSession /\ Role(session'[k.from][k.to], k)
    BY <1>1, <1>9 DEF SentInv
  <2>1. k.from \in Nodes /\ k.to \in Others(k.from)
    BY <1>1 DEF NetworkInv, GoodMessage, Others
  <2>2. /\ k.step # "ACK"
        /\ k.id.life = life[k.from] =>
             session[k.from][k.to] # NoSession /\ Role(session[k.from][k.to], k)
    BY DEF SentInv
  <2>3. CASE k.from = n /\ k.to = p
    <3>1. session'[k.from][k.to] = t
      BY <1>3, <1>8, <2>3
    <3>2. k.id.life = life[k.from] => s = session[n][p]
      BY <2>2, <2>3
    <3>3. t.initiator = s.initiator
      BY <1>7, <2>3
    <3>. QED
      BY <1>6, <2>2, <2>3, <3>1, <3>2, <3>3 DEF Role
  <2>4. CASE ~(k.from = n /\ k.to = p)
    BY <1>8, <2>1, <2>2, <2>4
  <2>. QED
    BY <2>3, <2>4
<1>14. ASSUME Rank[p] > Rank[n], ~FromEarlierLife(m)
       PROVE  OppositeRoles(p, n)'
  <2>1. m.step # "ACK"
    BY <1>14 DEF SentInv
  <2>2. m.step \in {"SYN", "SYN_ACK"} /\ m.id \in Identities /\ m.id.life <= life[p]
    BY <1>2, <2>1 DEF GoodMessage, Offers
  <2>3. m.id.life = life[p]
    BY <1>1, <1>3, <1>14, <2>1, <2>2, HandshakeAssumption DEF FromEarlierLife, Identities
  <2>4. session[p][n] # NoSession /\ Role(session[p][n], m)
    BY <1>14, <2>3 DEF SentInv
  <2>5. session'[p][n] = session[p][n] /\ session'[n][p] = t
    BY <1>3, <1>8
  <2>6. t.initiator <=> m.step \notin {"SYN", "ACK"}
    BY <1>7, <1>10, <1>14
  <2>7. session[p][n].initiator # t.initiator
    BY <2>2, <2>4, <2>6 DEF Role
  <2>. QED
    BY <1>6, <2>4, <2>5, <2>7 DEF OppositeRoles
<1>15. ASSUME NEW a \in Nodes, NEW b \in Others(a), session[a][b] # NoSession
       PROVE  /\ session'[a][b] # NoSession
              /\ \/ session'[a][b].initiator = session[a][b].initiator
                 \/ a = n /\ b = p /\ Rank[b] > Rank[a]
  <2>1. CASE a = n /\ b = p
    BY <1>6, <1>7, <1>8, <1>10, <1>15, <2>1
  <2>2. CASE ~(a = n /\ b = p)
    BY <1>8, <1>15, <2>2
  <2>. QED
    BY <2>1, <2>2
<1>. QED
  BY <1>12, <1>13, <1>14, <1>15

\* The same of the two ways in which a datagram is received.
Decided(m) ==
  /\ Rank[m.from] > Rank[m.to] /\ ~FromEarlierLife(m) => OppositeRoles(m.from, m.to)'
  /\ \A a \in Nodes : \A b \in Others(a) :
       session[a][b] # NoSession =>
         /\ session'[a][b] # NoSession
         /\ \/ session'[a][b].initiator = session[a][b].initiator
            \/ a = m.to /\ b = m.from /\ Rank[b] > Rank[a]

LEMMA ReceptionRoles ==
  ASSUME IInv, WinnerInv, SentInv, NEW m \in network, Recieve(m) \/ RecieveFirst(m)
  PROVE  WinnerInv' /\ SentInv' /\ Decided(m)
<1>1. m.to \in Nodes /\ m.from \in Others(m.to)
  BY DEF IInv, NetworkInv, GoodMessage, Others
<1>2. CASE Recieve(m)
  <2>. DEFINE s == session[m.to][m.from]
              t == RecieveHandshake(m.to, m.from, s, m)
  <2>1. GoodSession(m.to, m.from, s, life)
    BY <1>1, <1>2 DEF Recieve, IInv, SessionInv
  <2>2. session' = [session EXCEPT ![m.to][m.from] = t] /\ Leaves(m) /\ UNCHANGED <<pending, life>>
    BY <1>1, <1>2 DEF Recieve, IInv, TypeInv
  <2>. QED
    BY <2>1, <2>2, DatagramRoles DEF Decided
<1>3. CASE RecieveFirst(m)
  <2>. DEFINE s == CreateSession(m.to, m.from, FALSE)
              t == RecieveHandshake(m.to, m.from, s, m)
  <2>1. GoodSession(m.to, m.from, s, life)
    BY <1>1, NewSessionGood DEF IInv
  <2>2. session[m.to][m.from] = NoSession /\ s.step = 0 /\ ~s.initiator /\ m.step = "SYN"
    BY <1>3 DEF RecieveFirst, CreateSession
  <2>3. session' = [session EXCEPT ![m.to][m.from] = t] /\ Leaves(m) /\ UNCHANGED <<pending, life>>
    BY <1>3 DEF RecieveFirst
  <2>. HIDE DEF s
  <2>. QED
    BY <2>1, <2>2, <2>3, DatagramRoles DEF Decided
<1>. QED
  BY <1>2, <1>3

\* What a node sent before a restart is from an earlier life after it.
LEMMA RestartRoles ==
  ASSUME IInv, WinnerInv, SentInv, NEW n \in Nodes, Restart(n)
  PROVE  WinnerInv' /\ SentInv' /\ life' # life
<1>1. TypeInv /\ NetworkInv
  BY DEF IInv
<1>2. /\ life'[n] = life[n] + 1 /\ \A a \in Nodes : a # n => life'[a] = life[a]
      /\ \A a \in Nodes : life[a] \in Int /\ life'[a] \in Int
  BY <1>1, HandshakeAssumption DEF Restart, TypeInv
<1>3. \A a \in Nodes : \A b \in Others(a) :
        session'[a][b] = IF a = n THEN NoSession ELSE session[a][b]
  BY <1>1 DEF Restart, TypeInv
<1>4. WinnerInv'
  BY <1>3 DEF WinnerInv
<1>5. ASSUME NEW m \in network, Rank[m.from] > Rank[m.to]
      PROVE  /\ m.step # "ACK"
             /\ m.id.life = life'[m.from] =>
                  session'[m.from][m.to] # NoSession /\ Role(session'[m.from][m.to], m)
  <2>1. GoodMessage(m, life) /\ m.from \in Nodes /\ m.to \in Others(m.from)
    BY <1>1 DEF NetworkInv, GoodMessage, Others
  <2>2. /\ m.step # "ACK"
        /\ m.id.life = life[m.from] =>
             session[m.from][m.to] # NoSession /\ Role(session[m.from][m.to], m)
    BY <1>5 DEF SentInv
  <2>3. m.id \in Identities /\ m.id.life <= life[m.from]
    BY <2>1, <2>2 DEF GoodMessage, Offers
  <2>4. CASE m.from = n
    <3>1. m.id.life # life'[n]
      BY <1>2, <2>3, <2>4, HandshakeAssumption DEF Identities
    <3>. QED
      BY <2>2, <2>4, <3>1
  <2>5. CASE m.from # n
    BY <1>2, <1>3, <2>1, <2>2, <2>5
  <2>. QED
    BY <2>4, <2>5
<1>6. SentInv'
  BY <1>5 DEF SentInv, Restart
<1>7. life' # life
  BY <1>2
<1>. QED
  BY <1>4, <1>6, <1>7

\* One step of the specification, as far as roles go.
LEMMA NextRoles ==
  ASSUME IInv, WinnerInv, SentInv, [Next]_vars
  PROVE  /\ WinnerInv' /\ SentInv'
         /\ RolesSame \/ life' # life \/ \E m \in network : Decided(m)
<1>1. CASE \E n \in Nodes : \E due, created \in SUBSET Others(n) :
             SendingOpportunity(n, due, created)
  BY <1>1, SendingRoles
<1>2. CASE \E m \in network : Recieve(m) \/ RecieveFirst(m)
  BY <1>2, ReceptionRoles
<1>3. CASE \/ \E n \in Nodes : \E due \in SUBSET Others(n) : RescheduleSending(n, due)
           \/ \E m \in network : Lose(m)
           \/ UNCHANGED vars
  <2>1. UNCHANGED <<session, life>> /\ network' \subseteq network
    BY <1>3 DEF RescheduleSending, Lose, vars
  <2>. QED
    BY <2>1 DEF WinnerInv, SentInv, RolesSame
<1>4. CASE \E n \in Nodes : Restart(n)
  BY <1>4, RestartRoles
<1>. QED
  BY <1>1, <1>2, <1>3, <1>4 DEF Next

\* The roles of winners, and the datagrams that say them.
THEOREM RolesHold == Spec => [](IInv /\ WinnerInv /\ SentInv)
<1>1. Init => WinnerInv /\ SentInv
  BY InitRoles
<1>2. IInv /\ WinnerInv /\ SentInv /\ [Next]_vars => (WinnerInv /\ SentInv)'
  BY NextRoles
<1>. QED
  BY <1>1, <1>2, InvariantHolds, PTL DEF Spec

\* The winner of the duels is never silent: DuelSettles less its fairness, first part.
THEOREM WinnerIsHeard == Spec => []WinnerKeepsSending
<1>1. IInv /\ WinnerInv => WinnerKeepsSending
  BY WinnerSends DEF IInv, SessionInv, WinnerInv, WinnerKeepsSending, Outranks
<1>. QED
  BY <1>1, RolesHold, PTL

\* Each of its datagrams that arrives in its own life decides the duel: second part.
THEOREM DuelsAreDecided == Spec => DuelDecides
<1>. DEFINE Decides ==
       \A m \in network :
         Outranks(m.from, m.to) /\ ~FromEarlierLife(m) /\ (Recieve(m) \/ RecieveFirst(m)) =>
           OppositeRoles(m.from, m.to)'
<1>1. IInv /\ WinnerInv /\ SentInv /\ [Next]_vars => [Decides]_vars
  BY ReceptionRoles DEF Decided, Outranks
<1>2. Spec => [][Decides]_vars
  BY <1>1, RolesHold, PTL DEF Spec
<1>. QED
  BY <1>2 DEF DuelDecides

\* What is decided stays so, but for restarts and what is left from before them.
THEOREM RolesAreKept == Spec => RolesStand
<1>. DEFINE Kept ==
       \A n \in Nodes : \A p \in Others(n) :
         Outranks(n, p) /\ OppositeRoles(n, p) /\ ~OppositeRoles(n, p)' /\ life' = life =>
           \E m \in network : m.from = n /\ m.to = p /\ FromEarlierLife(m)
<1>1. ASSUME IInv, WinnerInv, SentInv, [Next]_vars PROVE Kept
  <2> SUFFICES ASSUME NEW n \in Nodes, NEW p \in Others(n), Rank[n] > Rank[p],
                      OppositeRoles(n, p), ~OppositeRoles(n, p)', life' = life
               PROVE  \E m \in network : m.from = n /\ m.to = p /\ FromEarlierLife(m)
    BY DEF Outranks
  <2>1. p \in Nodes /\ n \in Others(p) /\ ~(Rank[p] > Rank[n])
    BY HandshakeAssumption DEF Others
  <2>2. ~RolesSame
    BY <2>1 DEF RolesSame, OppositeRoles
  <2>3. PICK m \in network : Decided(m)
    BY <2>2, <1>1, NextRoles
  <2>4. m.to = p /\ m.from = n
    BY <2>1, <2>3 DEF Decided, OppositeRoles
  <2>. QED
    BY <2>3, <2>4 DEF Decided
<1>2. Spec => [][Kept]_vars
  BY <1>1, RolesHold, PTL DEF Spec
<1>. QED
  BY <1>2 DEF RolesStand
=============================================================================
