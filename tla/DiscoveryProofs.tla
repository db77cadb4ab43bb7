-------------------------- MODULE DiscoveryProofs --------------------------
(***************************************************************************)
(* What is proved of Discovery, for any nodes, pins, settings and bounds:  *)
(* its types, that nobody outstays the prune but those born east of UTC,   *)
(* and that the address book never falls back to an older address.         *)
(***************************************************************************)
EXTENDS Discovery, TLAPS, SequenceTheorems

USE DiscoveryAssumption

\* Partial functions from nodes to addresses: sessions, answers, books.
Session == UNION {[members -> Nat] : members \in SUBSET Nodes}

\* No address of s is newer than the one t has for the same node.
NotAhead(s, t) == \A m \in DOMAIN s \cap DOMAIN t : s[m] <= t[m]

Types ==
    /\ home \in [Nodes -> Nat]
    /\ DOMAIN registry \subseteq Pins
    /\ \A p \in DOMAIN registry : registry[p] \in Session
    /\ answers \in [Nodes -> Seq(Session)]
    /\ book \in [Nodes -> Session]

\* Nothing is ahead of where the nodes are.
NoneAhead ==
    /\ \A p \in DOMAIN registry : NotAhead(registry[p], home)
    /\ \A n \in Nodes : NotAhead(book[n], home)
    /\ \A n \in Nodes : \A i \in DOMAIN answers[n] : NotAhead(answers[n][i], home)

\* Where a session that node n could be led to has an older address of a member
\* than s, that member is in a session that n is led to sooner.
Behind(s, n, sessions) ==
    \A i \in DOMAIN PinsOf[n] : PinsOf[n][i] \in DOMAIN sessions =>
        \A m \in DOMAIN s \cap DOMAIN sessions[PinsOf[n][i]] :
            \/ s[m] <= sessions[PinsOf[n][i]][m]
            \/ \E j \in DOMAIN PinsOf[n] :
                  /\ j < i
                  /\ PinsOf[n][j] \in DOMAIN sessions
                  /\ m \in DOMAIN sessions[PinsOf[n][j]]

\* What a node learned and the answers on the way to it follow each other, and
\* the session that it will ask next follows both.
InSequence(n) ==
    /\ \A i \in DOMAIN answers[n] : NotAhead(book[n], answers[n][i])
    /\ \A i, j \in DOMAIN answers[n] : i < j => NotAhead(answers[n][i], answers[n][j])
    /\ Behind(book[n], n, registry)
    /\ \A i \in DOMAIN answers[n] : Behind(answers[n][i], n, registry)

IInv == Types /\ NoneAhead /\ \A n \in Nodes : InSequence(n)

-----------------------------------------------------------------------------
(* The operators *)

LEMMA OverFacts ==
    ASSUME NEW f \in Session, NEW g \in Session
    PROVE  /\ Over(f, g) \in Session
           /\ DOMAIN Over(f, g) = DOMAIN f \cup DOMAIN g
           /\ \A m \in DOMAIN f : Over(f, g)[m] = f[m]
           /\ \A m \in DOMAIN g \ DOMAIN f : Over(f, g)[m] = g[m]
  <1>1. /\ DOMAIN f \in SUBSET Nodes /\ f \in [DOMAIN f -> Nat]
        /\ DOMAIN g \in SUBSET Nodes /\ g \in [DOMAIN g -> Nat]
    BY DEF Session
  <1>2. Over(f, g) \in [DOMAIN f \cup DOMAIN g -> Nat]
    BY <1>1 DEF Over
  <1>3. Over(f, g) \in Session
    BY <1>1, <1>2 DEF Session
  <1>4. QED
    BY <1>3 DEF Over

LEMMA LeastIndex ==
    ASSUME NEW S \in SUBSET (1..2)
    PROVE  /\ 1 \in S => Min(S) = 1
           /\ S = {2} => Min(S) = 2
  <1>1. ASSUME NEW x \in S, \A y \in S : x <= y
        PROVE  Min(S) = x
    <2>1. Min(S) \in S /\ \A y \in S : Min(S) <= y
      BY <1>1 DEF Min
    <2> DEFINE least == Min(S)
    <2>2. least \in S /\ least <= x /\ x <= least
      BY <1>1, <2>1
    <2> HIDE DEF least
    <2>3. least \in 1..2 /\ x \in 1..2
      BY <2>2
    <2>4. least = x
      BY <2>2, <2>3
    <2>5. QED
      BY <2>4 DEF least
  <1>2. QED
    BY <1>1

\* A node is led to the first of its pins that is registered, or to one of them.
LEMMA FirstKey ==
    ASSUME NEW n \in Nodes
    PROVE  \E k \in DOMAIN PinsOf[n] :
              /\ PinsOf[n][k] = KeyOf(n)
              /\ KeyOf(n) \in Pins
              /\ \A j \in DOMAIN PinsOf[n] : j < k => PinsOf[n][j] \notin DOMAIN registry
  <1> DEFINE pins == PinsOf[n]
             matches == {i \in DOMAIN pins : pins[i] \in DOMAIN registry}
             last == Len(pins)
             first == IF matches = {} THEN last ELSE Min(matches)
  <1>1. pins \in Seq(Pins) /\ last \in 1..2 /\ DOMAIN pins = 1..last
    OBVIOUS
  <1>2. matches \in SUBSET (1..2) /\ matches \subseteq DOMAIN pins
    BY <1>1
  <1>3. KeyOf(n) = pins[first]
    BY DEF KeyOf
  <1>4. \A j \in DOMAIN pins : j \notin matches => pins[j] \notin DOMAIN registry
    OBVIOUS
  <1> HIDE DEF matches
  <1>5. first \in DOMAIN pins /\ \A j \in DOMAIN pins : j < first => j \notin matches
    <2>1. CASE matches = {}
      BY <1>1, <2>1
    <2>2. CASE 1 \in matches
      BY <1>1, <1>2, <2>2, LeastIndex
    <2>3. CASE matches # {} /\ 1 \notin matches
      <3>1. \A i \in 1..2 : i = 1 \/ i = 2
        OBVIOUS
      <3>2. matches = {2}
        BY <1>2, <2>3, <3>1, Zenon
      <3>3. Min(matches) = 2
        BY <1>2, <3>2, LeastIndex
      <3>4. first = 2 /\ 2 \in DOMAIN pins
        BY <1>2, <3>2, <3>3
      <3>5. QED
        BY <2>3, <3>4, <1>1
    <2>4. QED
      BY <2>1, <2>2, <2>3
  <1> HIDE DEF first, last
  <1>6. pins[first] \in Pins
    BY <1>1, <1>5, ElementOfSeq DEF last
  <1>7. QED
    BY <1>3, <1>4, <1>5, <1>6

\* The session that a node is led to is behind nothing that the node was told.
LEMMA LedAhead ==
    ASSUME NEW s \in Session, NEW n \in Nodes, Behind(s, n, registry), KeyOf(n) \in DOMAIN registry
    PROVE  NotAhead(s, registry[KeyOf(n)])
  BY FirstKey DEF Behind, NotAhead

-----------------------------------------------------------------------------
(* The steps *)

\* A step of nobody's registration, answers or book.
LEMMA KeepsSequence ==
    ASSUME IInv, UNCHANGED <<registry, answers, book, home>>
    PROVE  IInv'
  BY DEF IInv, Types, NoneAhead, InSequence

LEMMA MovePreserves == ASSUME IInv, NEW n \in Nodes, Move(n) PROVE IInv'
  <1>1. UNCHANGED <<registry, answers, book>>
    BY DEF Move
  <1>2. home' \in [Nodes -> Nat] /\ \A m \in Nodes : home[m] <= home'[m]
    BY DEF Move, IInv, Types
  <1>3. ASSUME NEW s \in Session, NotAhead(s, home) PROVE NotAhead(s, home')
    <2>1. DOMAIN s \subseteq Nodes /\ \A m \in DOMAIN s : s[m] \in Nat
      BY DEF Session
    <2>2. QED
      BY <1>2, <1>3, <2>1 DEF NotAhead, IInv, Types
  <1>4. NoneAhead'
    BY <1>1, <1>3 DEF IInv, Types, NoneAhead
  <1>6. \A k \in Nodes : InSequence(k)'
    BY <1>1 DEF IInv, InSequence
  <1>7. QED
    BY <1>1, <1>2, <1>4, <1>6 DEF IInv, Types

\* Who leaves the server leaves all sessions there, and no more is on the way.
LEMMA ClearingPreserves ==
    ASSUME IInv, UNCHANGED <<book, home>>,
           registry' \in {registry, Nobody, Survivors},
           answers' \in [Nodes -> Seq(Session)],
           \A n \in Nodes : answers'[n] \in {answers[n], <<>>}
    PROVE  IInv'
  <1>1. DOMAIN Nobody = {}
    BY DEF Nobody
  <1>2. /\ DOMAIN registry' \subseteq DOMAIN registry
        /\ \A p \in DOMAIN registry' :
              /\ registry'[p] \in Session
              /\ DOMAIN registry'[p] \subseteq DOMAIN registry[p]
              /\ \A m \in DOMAIN registry'[p] :
                    /\ registry'[p][m] = registry[p][m]
                    /\ \A q \in DOMAIN registry :
                          m \in DOMAIN registry[q] => q \in DOMAIN registry' /\ m \in DOMAIN registry'[q]
    <2>1. CASE registry' = Nobody
      BY <1>1, <2>1
    <2>2. CASE registry' = registry
      BY <2>2 DEF IInv, Types
    <2>3. CASE registry' = Survivors
      <3>1. ASSUME NEW p \in DOMAIN registry PROVE
                 Restrict(registry[p], DOMAIN registry[p] \cap East) \in Session
        <4>1. DOMAIN registry[p] \in SUBSET Nodes /\ registry[p] \in [DOMAIN registry[p] -> Nat]
          BY DEF IInv, Types, Session
        <4>2. Restrict(registry[p], DOMAIN registry[p] \cap East)
                  \in [DOMAIN registry[p] \cap East -> Nat]
          BY <4>1 DEF Restrict
        <4>3. QED
          BY <4>1, <4>2 DEF Session
      <3>2. /\ DOMAIN registry' = {q \in DOMAIN registry : DOMAIN registry[q] \cap East # {}}
            /\ \A p \in DOMAIN registry' :
                  registry'[p] = Restrict(registry[p], DOMAIN registry[p] \cap East)
        BY <2>3 DEF Survivors
      <3>3. \A p \in DOMAIN registry' :
               /\ DOMAIN registry'[p] = DOMAIN registry[p] \cap East
               /\ \A m \in DOMAIN registry'[p] : registry'[p][m] = registry[p][m]
        BY <3>2 DEF Restrict
      <3>4. QED
        BY <3>1, <3>2, <3>3
    <2>4. QED
      BY <2>1, <2>2, <2>3
  <1>3. Types'
    BY <1>2 DEF IInv, Types
  <1>4. NoneAhead'
    <2>1. \A p \in DOMAIN registry' : NotAhead(registry'[p], home)
      BY <1>2 DEF IInv, NoneAhead, NotAhead
    <2>2. \A n \in Nodes : \A i \in DOMAIN answers'[n] :
             i \in DOMAIN answers[n] /\ answers'[n][i] = answers[n][i]
      OBVIOUS
    <2>3. QED
      BY <2>1, <2>2 DEF IInv, NoneAhead
  <1>5. ASSUME NEW n \in Nodes PROVE InSequence(n)'
    <2>1. DOMAIN <<>> = {}
      OBVIOUS
    <2>2. InSequence(n)
      BY DEF IInv
    <2>3. /\ \A i \in DOMAIN answers'[n] : NotAhead(book'[n], answers'[n][i])
          /\ \A i, j \in DOMAIN answers'[n] : i < j => NotAhead(answers'[n][i], answers'[n][j])
      BY <2>1, <2>2 DEF InSequence
    <2>4. ASSUME NEW s, Behind(s, n, registry) PROVE Behind(s, n, registry')
      <3>1. \A p \in DOMAIN registry' : \A m \in DOMAIN registry'[p] \cap DOMAIN s :
               /\ p \in DOMAIN registry /\ m \in DOMAIN registry[p] /\ registry'[p][m] = registry[p][m]
               /\ \A q \in DOMAIN registry :
                     m \in DOMAIN registry[q] => q \in DOMAIN registry' /\ m \in DOMAIN registry'[q]
        BY <1>2
      <3>2. QED
        BY <2>4, <3>1 DEF Behind
    <2>5. QED
      BY <2>1, <2>2, <2>3, <2>4 DEF InSequence
  <1>6. QED
    BY <1>3, <1>4, <1>5 DEF IInv

\* What an answer teaches is as new as what was known, and no newer than what
\* is still to come.
LEMMA AnswerPreserves == ASSUME IInv, NEW n \in Nodes, Answer(n) PROVE IInv'
  <1> DEFINE answer == Head(answers[n])
  <1>1. /\ answers[n] \in Seq(Session) /\ answers[n] # <<>>
        /\ 1 \in DOMAIN answers[n] /\ answer = answers[n][1] /\ answer \in Session
    BY DEF Answer, IInv, Types
  <1>2. /\ Tail(answers[n]) \in Seq(Session)
        /\ \A i \in DOMAIN Tail(answers[n]) :
              i + 1 \in DOMAIN answers[n] /\ Tail(answers[n])[i] = answers[n][i + 1]
    BY <1>1
  <1>3. /\ UNCHANGED <<registry, home>>
        /\ answers' = [answers EXCEPT ![n] = Tail(@)]
        /\ book' = book \/ book' = [book EXCEPT ![n] = Learned(n, answer)]
    BY DEF Answer
  <1>4. /\ answers'[n] = Tail(answers[n])
        /\ answers' \in [Nodes -> Seq(Session)]
        /\ \A k \in Nodes : k # n => answers'[k] = answers[k]
    BY <1>2, <1>3 DEF IInv, Types
  <1> DEFINE learned == Learned(n, answer)
  <1>5. /\ learned \in Session
        /\ \A m \in DOMAIN learned :
              \/ m \in DOMAIN answer /\ learned[m] = answer[m]
              \/ m \in DOMAIN book[n] /\ learned[m] = book[n][m]
    <2> DEFINE others == Restrict(answer, DOMAIN answer \ {n})
    <2>1. /\ others \in Session
          /\ \A m \in DOMAIN others : m \in DOMAIN answer /\ others[m] = answer[m]
      <3>1. DOMAIN answer \in SUBSET Nodes /\ answer \in [DOMAIN answer -> Nat]
        BY <1>1 DEF Session
      <3> HIDE DEF answer
      <3>2. others \in [DOMAIN answer \ {n} -> Nat]
        BY <3>1 DEF Restrict
      <3>3. others \in Session
        BY <3>1, <3>2 DEF Session
      <3>4. QED
        BY <3>3 DEF Restrict
    <2>2. book[n] \in Session
      BY DEF IInv, Types
    <2>3. learned = Over(others, book[n])
      BY DEF Learned
    <2> HIDE DEF others, learned
    <2>4. /\ learned \in Session
          /\ DOMAIN learned = DOMAIN others \cup DOMAIN book[n]
          /\ \A m \in DOMAIN others : learned[m] = others[m]
          /\ \A m \in DOMAIN book[n] \ DOMAIN others : learned[m] = book[n][m]
      BY <2>1, <2>2, <2>3, OverFacts
    <2>5. QED
      BY <2>1, <2>4
  <1> HIDE DEF answer, learned
  <1>6. ASSUME NEW t, NotAhead(answer, t), NotAhead(book[n], t) PROVE NotAhead(learned, t)
    BY <1>5, <1>6 DEF NotAhead
  <1>7. /\ book' \in [Nodes -> Session]
        /\ book'[n] \in {book[n], learned}
        /\ \A k \in Nodes : k # n => book'[k] = book[k]
    BY <1>3, <1>5 DEF IInv, Types, learned
  <1>8. Types'
    BY <1>3, <1>4, <1>7 DEF IInv, Types
  <1>9. NoneAhead'
    <2>1. NotAhead(learned, home)
      BY <1>1, <1>6 DEF IInv, NoneAhead
    <2>2. \A k \in Nodes : NotAhead(book'[k], home)
      BY <1>7, <2>1 DEF IInv, NoneAhead
    <2>3. \A k \in Nodes : \A i \in DOMAIN answers'[k] : NotAhead(answers'[k][i], home)
      <3> TAKE k \in Nodes
      <3> TAKE i \in DOMAIN answers'[k]
      <3>1. PICK j \in DOMAIN answers[k] : answers'[k][i] = answers[k][j]
        BY <1>2, <1>4
      <3>2. QED
        BY <3>1 DEF IInv, NoneAhead
    <2>4. QED
      BY <1>3, <2>2, <2>3 DEF IInv, NoneAhead
  <1>10. Behind(learned, n, registry)
    <2>1. Behind(answer, n, registry) /\ Behind(book[n], n, registry)
      BY <1>1 DEF IInv, InSequence
    <2>2. QED
      BY <1>5, <2>1 DEF Behind
  <1>11. InSequence(n)'
    <2>1. InSequence(n)
      BY DEF IInv
    <2>2. \A i \in DOMAIN answers'[n] :
             /\ NotAhead(answer, answers'[n][i])
             /\ NotAhead(book[n], answers'[n][i])
      <3> TAKE i \in DOMAIN answers'[n]
      <3>1. i + 1 \in DOMAIN answers[n] /\ answers'[n][i] = answers[n][i + 1] /\ 1 < i + 1
        BY <1>2, <1>4
      <3>2. QED
        BY <1>1, <2>1, <3>1 DEF InSequence
    <2>3. \A i \in DOMAIN answers'[n] : NotAhead(book'[n], answers'[n][i])
      BY <1>6, <1>7, <2>2
    <2>4. \A i, j \in DOMAIN answers'[n] : i < j => NotAhead(answers'[n][i], answers'[n][j])
      <3> TAKE i, j \in DOMAIN answers'[n]
      <3>1. /\ i + 1 \in DOMAIN answers[n] /\ answers'[n][i] = answers[n][i + 1]
            /\ j + 1 \in DOMAIN answers[n] /\ answers'[n][j] = answers[n][j + 1]
            /\ i < j => i + 1 < j + 1
        BY <1>2, <1>4
      <3>2. QED
        BY <2>1, <3>1 DEF InSequence
    <2>5. /\ Behind(book'[n], n, registry)
          /\ \A i \in DOMAIN answers'[n] : Behind(answers'[n][i], n, registry)
      BY <1>2, <1>4, <1>7, <1>10, <2>1 DEF InSequence
    <2>6. QED
      BY <1>3, <2>3, <2>4, <2>5 DEF InSequence
  <1>12. \A k \in Nodes : k # n => InSequence(k)'
    BY <1>3, <1>4, <1>7 DEF IInv, InSequence
  <1>13. QED
    BY <1>8, <1>9, <1>11, <1>12 DEF IInv

\* The session that a node asks is not behind anything it was told.
LEMMA AskPreserves == ASSUME IInv, NEW n \in Nodes, Ask(n) PROVE IInv'
  <1> DEFINE pin == KeyOf(n)
             before == SessionOf(pin)
             session == IF Welcome(before, n) THEN Joined(before, n, home[n]) ELSE before
             answer == AnswerFor(session, n)
  <1>1. /\ UNCHANGED <<home, book>>
        /\ registry' = Over([p \in {pin} |-> session], registry)
        /\ answers' = [answers EXCEPT ![n] = Append(@, answer)]
    BY DEF Ask
  <1>2. Nobody \in Session /\ DOMAIN Nobody = {}
    <2>1. Nobody \in [{} -> Nat]
      BY DEF Nobody
    <2>2. QED
      BY <2>1 DEF Session
  <1>3. /\ before \in Session
        /\ pin \in DOMAIN registry => before = registry[pin]
        /\ pin \notin DOMAIN registry => DOMAIN before = {}
    BY <1>2 DEF SessionOf, IInv, Types
  <1>4. pin \in Pins
    BY FirstKey
  <1>5. /\ session \in Session
        /\ \A m \in DOMAIN session :
              \/ m \in DOMAIN before /\ session[m] = before[m]
              \/ m = n /\ session[m] = home[m]
        /\ DOMAIN before \subseteq DOMAIN session
    <2> DEFINE self == [m \in {n} |-> home[n]]
    <2>1. self \in Session /\ DOMAIN self = {n} /\ self[n] = home[n]
      <3>1. self \in [{n} -> Nat]
        BY DEF IInv, Types
      <3>2. QED
        BY <3>1 DEF Session
    <2>2. session \in {before, Over(before, self)}
      BY DEF Joined
    <2> HIDE DEF before, self, session
    <2>3. /\ Over(before, self) \in Session
          /\ DOMAIN Over(before, self) = DOMAIN before \cup DOMAIN self
          /\ \A m \in DOMAIN before : Over(before, self)[m] = before[m]
          /\ \A m \in DOMAIN self \ DOMAIN before : Over(before, self)[m] = self[m]
      BY <1>3, <2>1, OverFacts
    <2>4. QED
      BY <1>3, <2>1, <2>2, <2>3
  <1>6. answer \in {session, Nobody}
    BY DEF AnswerFor
  <1>7. /\ DOMAIN registry' = DOMAIN registry \cup {pin}
        /\ registry'[pin] = session
        /\ \A p \in DOMAIN registry \ {pin} : registry'[p] = registry[p]
    BY <1>1 DEF Over
  <1> HIDE DEF before, session, answer
  <1>8. /\ answers' \in [Nodes -> Seq(Session)]
        /\ answers'[n] = Append(answers[n], answer)
        /\ \A k \in Nodes : k # n => answers'[k] = answers[k]
    BY <1>1, <1>2, <1>5, <1>6 DEF IInv, Types
  <1>9. \A i \in DOMAIN answers'[n] :
           \/ i \in DOMAIN answers[n] /\ answers'[n][i] = answers[n][i]
           \/ i = Len(answers'[n]) /\ answers'[n][i] = answer
    <2>1. answers[n] \in Seq(Session) /\ answer \in Session
      BY <1>2, <1>5, <1>6 DEF IInv, Types
    <2>2. QED
      BY <1>8, <2>1
  <1>10. Types'
    BY <1>1, <1>4, <1>5, <1>7, <1>8 DEF IInv, Types
  \* What a node was told stays behind the sessions, and behind its answer.
  <1>11. ASSUME NEW s \in Session, NotAhead(s, home), NEW k \in Nodes, Behind(s, k, registry)
         PROVE  /\ Behind(s, k, registry')
                /\ k = n => NotAhead(s, answer)
    <2>1. \A m \in DOMAIN before : pin \in DOMAIN registry /\ before = registry[pin]
      BY <1>3
    <2>2. \A m \in DOMAIN s : m \in Nodes /\ s[m] <= home[m]
      BY <1>11 DEF NotAhead, Session, IInv, Types
    <2>3. Behind(s, k, registry')
      <3>1. \A q \in DOMAIN registry :
               /\ q \in DOMAIN registry'
               /\ \A m \in DOMAIN registry[q] : m \in DOMAIN registry'[q]
        BY <1>3, <1>5, <1>7
      <3>2. ASSUME NEW p \in DOMAIN registry', NEW m \in DOMAIN registry'[p] \cap DOMAIN s
            PROVE  \/ s[m] <= registry'[p][m]
                   \/ p \in DOMAIN registry /\ m \in DOMAIN registry[p] /\ registry'[p][m] = registry[p][m]
        <4>1. CASE p # pin
          BY <1>7, <3>2, <4>1
        <4>2. CASE p = pin
          BY <1>5, <1>7, <2>1, <2>2, <3>2, <4>2
        <4>3. QED
          BY <4>1, <4>2
      <3>3. QED
        BY <1>11, <3>1, <3>2 DEF Behind
    <2>4. ASSUME k = n PROVE NotAhead(s, answer)
      <3>1. pin \in DOMAIN registry => NotAhead(s, registry[pin])
        BY <1>11, <2>4, LedAhead
      <3>2. NotAhead(s, session)
        BY <1>5, <2>1, <2>2, <3>1 DEF NotAhead
      <3>3. QED
        BY <1>2, <1>6, <3>2 DEF NotAhead
    <2>5. QED
      BY <2>3, <2>4
  <1>12. NotAhead(session, home) /\ NotAhead(answer, home)
    <2>1. pin \in DOMAIN registry => NotAhead(before, home)
      BY <1>3 DEF IInv, NoneAhead
    <2>2. NotAhead(session, home)
      <3> SUFFICES ASSUME NEW m \in DOMAIN session \cap DOMAIN home PROVE session[m] <= home[m]
        BY DEF NotAhead
      <3>1. CASE m \in DOMAIN before /\ session[m] = before[m]
        BY <1>3, <2>1, <3>1 DEF NotAhead
      <3>2. CASE m = n /\ session[m] = home[m]
        BY <3>2 DEF IInv, Types
      <3>3. QED
        BY <1>5, <3>1, <3>2
    <2>3. QED
      BY <1>2, <1>6, <2>2 DEF NotAhead
  \* The answer is what the sooner of two sessions says.
  <1>13. Behind(answer, n, registry')
    <2>1. PICK k \in DOMAIN PinsOf[n] :
             /\ PinsOf[n][k] = pin
             /\ \A j \in DOMAIN PinsOf[n] : j < k => PinsOf[n][j] \notin DOMAIN registry
      BY FirstKey
    <2> SUFFICES ASSUME NEW i \in DOMAIN PinsOf[n], PinsOf[n][i] \in DOMAIN registry',
                        NEW m \in DOMAIN answer \cap DOMAIN registry'[PinsOf[n][i]]
                 PROVE  \/ answer[m] <= registry'[PinsOf[n][i]][m]
                        \/ \E j \in DOMAIN PinsOf[n] :
                              /\ j < i
                              /\ PinsOf[n][j] \in DOMAIN registry'
                              /\ m \in DOMAIN registry'[PinsOf[n][j]]
      BY DEF Behind
    <2>2. answer = session /\ m \in DOMAIN session /\ session[m] \in Nat
      BY <1>2, <1>5, <1>6 DEF Session
    <2>3. i \in Nat /\ k \in Nat
      <3>1. PinsOf[n] \in Seq(Pins)
        OBVIOUS
      <3>2. QED
        BY <3>1
    <2> HIDE DEF pin
    <2>4. CASE PinsOf[n][i] = pin
      BY <1>7, <2>2, <2>4
    <2>5. CASE PinsOf[n][i] # pin
      <3>1. PinsOf[n][i] \in DOMAIN registry
        BY <1>7, <2>5
      <3>2. k < i
        BY <2>1, <2>3, <2>5, <3>1
      <3>3. QED
        BY <1>7, <2>1, <2>2, <3>2
    <2>6. QED
      BY <2>4, <2>5
  <1>14. NoneAhead'
    BY <1>1, <1>7, <1>8, <1>9, <1>12 DEF IInv, NoneAhead
  <1>15. ASSUME NEW k \in Nodes PROVE InSequence(k)'
    <2>1. InSequence(k)
      BY DEF IInv
    <2>2. NotAhead(book[k], home) /\ \A i \in DOMAIN answers[k] : NotAhead(answers[k][i], home)
      BY DEF IInv, NoneAhead
    <2>8. book[k] \in Session /\ answers[k] \in Seq(Session)
      BY DEF IInv, Types
    <2>3. k = n => NotAhead(book[k], answer)
                   /\ \A i \in DOMAIN answers[k] : NotAhead(answers[k][i], answer)
      BY <1>11, <2>1, <2>2, <2>8 DEF InSequence
    <2>4. \A i \in DOMAIN answers'[k] : NotAhead(book'[k], answers'[k][i])
      BY <1>1, <1>8, <1>9, <2>1, <2>3 DEF InSequence
    <2>5. \A i, j \in DOMAIN answers'[k] : i < j => NotAhead(answers'[k][i], answers'[k][j])
      <3>1. CASE k # n
        BY <1>8, <2>1, <3>1 DEF InSequence
      <3>2. CASE k = n
        <4> TAKE i, j \in DOMAIN answers'[k]
        <4>1. answers'[n] \in Seq(Session)
          BY <1>8
        <4>2. i < j => i # Len(answers'[n])
          BY <3>2, <4>1
        <4>3. QED
          BY <1>9, <2>1, <2>3, <3>2, <4>2 DEF InSequence
      <3>3. QED
        BY <3>1, <3>2
    <2>6. Behind(book[k], k, registry') /\ \A i \in DOMAIN answers[k] : Behind(answers[k][i], k, registry')
      BY <1>11, <2>1, <2>2, <2>8 DEF InSequence
    <2>7. \A i \in DOMAIN answers'[k] : Behind(answers'[k][i], k, registry')
      BY <1>8, <1>9, <1>13, <2>6
    <2>9. QED
      BY <1>1, <2>4, <2>5, <2>6, <2>7 DEF InSequence
  <1>16. QED
    BY <1>10, <1>14, <1>15 DEF IInv

-----------------------------------------------------------------------------
(* The specification *)

LEMMA InitIInv == Init => IInv
  <1> SUFFICES ASSUME Init PROVE IInv
    OBVIOUS
  <1>1. Nobody \in Session /\ DOMAIN Nobody = {}
    <2>1. Nobody \in [{} -> Nat]
      BY DEF Nobody
    <2>2. QED
      BY <2>1 DEF Session
  <1>2. DOMAIN <<>> = {}
    OBVIOUS
  <1> HIDE DEF Nobody
  <1>3. Types
    BY <1>1 DEF Init, Types
  <1>4. NoneAhead /\ \A n \in Nodes : InSequence(n)
    BY <1>1, <1>2 DEF Init, NoneAhead, InSequence, NotAhead, Behind
  <1>5. QED
    BY <1>3, <1>4 DEF IInv

LEMMA NextIInv == IInv /\ [Next]_vars => IInv'
  <1> SUFFICES ASSUME IInv, [Next]_vars PROVE IInv'
    OBVIOUS
  <1>1. ASSUME NEW n \in Nodes, Activate(n) \/ Deactivate(n) PROVE IInv'
    BY <1>1, KeepsSequence DEF Activate, Deactivate
  <1>2. ASSUME NEW n \in Nodes, Drop(n) PROVE IInv'
    <2>1. /\ UNCHANGED <<book, home, registry>>
          /\ answers' \in [Nodes -> Seq(Session)]
          /\ \A k \in Nodes : answers'[k] \in {answers[k], <<>>}
      BY <1>2 DEF Drop, IInv, Types
    <2>2. QED
      BY <2>1, ClearingPreserves
  <1>3. CASE Settle \/ UNCHANGED vars
    BY <1>3, KeepsSequence DEF Settle, vars
  <1>4. CASE Prune
    <2>1. UNCHANGED <<book, home, answers>> /\ registry' = Survivors
      BY <1>4 DEF Prune
    <2>2. QED
      BY <2>1, ClearingPreserves DEF IInv, Types
  <1>5. CASE Restart
    <2>1. /\ UNCHANGED <<book, home>> /\ registry' = Nobody
          /\ answers' \in [Nodes -> Seq(Session)]
          /\ \A k \in Nodes : answers'[k] \in {answers[k], <<>>}
      BY <1>5 DEF Restart
    <2>2. QED
      BY <2>1, ClearingPreserves
  <1>6. QED
    BY <1>1, <1>2, <1>3, <1>4, <1>5, AskPreserves, AnswerPreserves, MovePreserves DEF Next

LEMMA AlwaysIInv == Spec => []IInv
  BY InitIInv, NextIInv, PTL DEF Spec

\* Only an answer changes a book, and what it says is no older.
LEMMA StepAdvances ==
    ASSUME IInv, [Next]_vars, NEW n \in Nodes, NEW m \in DOMAIN book[n]
    PROVE  m \in DOMAIN book'[n] /\ book'[n][m] >= book[n][m]
  <1>1. book[n] \in Session /\ book[n][m] \in Nat
    <2>1. book[n] \in Session
      BY DEF IInv, Types
    <2>2. QED
      BY <2>1 DEF Session
  <1>2. CASE book'[n] = book[n]
    BY <1>1, <1>2
  <1>3. CASE book'[n] # book[n]
    <2>1. PICK k \in Nodes : Answer(k)
      BY <1>3 DEF Next, Activate, Deactivate, Ask, Move, Drop, Settle, Prune, Restart, vars
    <2> DEFINE answer == Head(answers[k])
    <2>2. /\ answers[k] \in Seq(Session) /\ answers[k] # <<>>
          /\ 1 \in DOMAIN answers[k] /\ answer = answers[k][1] /\ answer \in Session
      BY <2>1 DEF Answer, IInv, Types
    <2>3. k = n /\ book'[n] = Learned(n, answer)
      BY <1>3, <2>1 DEF Answer, IInv, Types
    <2>4. NotAhead(book[n], answer)
      BY <2>2, <2>3 DEF IInv, InSequence
    <2> HIDE DEF answer
    <2>5. \A x \in DOMAIN answer : answer[x] \in Nat
      BY <2>2 DEF Session
    <2>6. QED
      BY <1>1, <2>3, <2>4, <2>5 DEF Learned, Over, Restrict, NotAhead
  <1>4. QED
    BY <1>2, <1>3

\* A newer address of an associate is never replaced by an older one, for any
\* number of nodes, pins and answers on the way.
THEOREM NoStaleAddress == Spec => AddressesAdvance
  <1>1. IInv /\ [Next]_vars =>
            [\A n, m \in Nodes :
                m \in DOMAIN book[n] => m \in DOMAIN book'[n] /\ book'[n][m] >= book[n][m]]_vars
    BY StepAdvances
  <1>2. QED
    BY <1>1, AlwaysIInv, PTL DEF Spec, AddressesAdvance

-----------------------------------------------------------------------------
(* Types *)

\* In the honeymoon a request is answered before the next one, and there is a
\* turn left for the answer.
OneAnswer ==
    honeymoon => \A n \in Nodes : answers[n] # <<>> => turn[n] < Rounds /\ Len(answers[n]) = 1

Bounds ==
    /\ setting \in Settings
    /\ \A n \in Nodes : Len(answers[n]) <= MaxOutstanding
    /\ \A n \in Nodes : n \notin DOMAIN book[n]
    /\ active \subseteq Nodes
    /\ honeymoon \in BOOLEAN
    /\ turn \in [Nodes -> 0..Rounds]

Rest == Bounds /\ OneAnswer

LEMMA BoundTypes == Rounds \in Nat /\ MaxOutstanding \in Nat
  OBVIOUS

HIDE DiscoveryAssumption
USE BoundTypes

LEMMA InitRest == Init => Rest
  <1> SUFFICES ASSUME Init PROVE Rest
    OBVIOUS
  <1>1. DOMAIN Nobody = {}
    BY DEF Nobody
  <1>2. Len(<<>>) = 0 /\ DOMAIN <<>> = {}
    OBVIOUS
  <1> HIDE DEF Nobody
  <1>3. Bounds
    <2>1. turn \in [Nodes -> 0..Rounds]
      BY DEF Init
    <2>2. \A n \in Nodes : answers[n] = <<>> /\ book[n] = Nobody
      BY DEF Init
    <2>3. \A n \in Nodes : Len(answers[n]) <= MaxOutstanding
      BY <1>2, <2>2
    <2>4. QED
      BY <1>1, <2>1, <2>2, <2>3 DEF Init, Bounds
  <1>4. QED
    BY <1>2, <1>3 DEF Init, Rest, OneAnswer

LEMMA AskRest == ASSUME IInv, Rest, NEW n \in Nodes, Ask(n) PROVE Rest'
  <1>1. PICK answer : answers' = [answers EXCEPT ![n] = Append(@, answer)]
    BY DEF Ask
  <1>3. /\ answers[n] \in Seq(Session) /\ Len(answers[n]) \in Nat
        /\ Len(answers[n]) < MaxOutstanding
        /\ UNCHANGED <<setting, book, home, active, honeymoon, turn>>
        /\ honeymoon => turn[n] < Rounds /\ Len(answers[n]) = 0
    BY DEF Ask, OnTime, IInv, Types
  <1>4. /\ answers'[n] = Append(answers[n], answer)
        /\ \A k \in Nodes : k # n => answers'[k] = answers[k]
    BY <1>1 DEF IInv, Types
  <1>5. Len(answers'[n]) = Len(answers[n]) + 1
    BY <1>3, <1>4
  <1>6. Bounds'
    <2>1. \A k \in Nodes : Len(answers'[k]) <= MaxOutstanding
      BY <1>3, <1>4, <1>5 DEF Rest, Bounds
    <2>2. QED
      BY <1>3, <2>1 DEF Rest, Bounds
  <1>7. OneAnswer'
    <2>1. honeymoon => turn[n] < Rounds /\ Len(answers'[n]) = 1
      BY <1>3, <1>5
    <2>2. QED
      BY <1>3, <1>4, <2>1 DEF Rest, OneAnswer
  <1>9. QED
    BY <1>6, <1>7 DEF Rest

LEMMA AnswerRest == ASSUME IInv, Rest, NEW n \in Nodes, Answer(n) PROVE Rest'
  <1>1. answers[n] \in Seq(Session) /\ answers[n] # <<>>
    BY DEF Answer, IInv, Types
  <1>2. /\ Len(Tail(answers[n])) = Len(answers[n]) - 1
        /\ \A i \in DOMAIN Tail(answers[n]) :
              i + 1 \in DOMAIN answers[n] /\ Tail(answers[n])[i] = answers[n][i + 1]
        /\ Len(answers[n]) \in Nat
        /\ Len(answers[n]) = 1 => Tail(answers[n]) = <<>>
    <2>1. Tail(answers[n]) \in Seq(Session) /\ Len(Tail(answers[n])) = Len(answers[n]) - 1
      BY <1>1
    <2>2. Len(answers[n]) \in Nat
      BY <1>1
    <2>3. Len(answers[n]) = 1 => Len(Tail(answers[n])) = 0
      BY <2>1
    <2>4. Len(answers[n]) = 1 => Tail(answers[n]) = <<>>
      <3> DEFINE rest == Tail(answers[n])
      <3> HIDE DEF rest
      <3>1. rest \in Seq(Session) /\ (Len(answers[n]) = 1 => Len(rest) = 0)
        BY <2>1, <2>3 DEF rest
      <3>2. Len(answers[n]) = 1 => rest = <<>>
        BY <3>1, EmptySeq
      <3>3. QED
        BY <3>2 DEF rest
    <2>5. QED
      BY <1>1, <2>1, <2>2, <2>4
  <1>3. /\ UNCHANGED <<setting, active, honeymoon>>
        /\ answers'[n] = Tail(answers[n])
        /\ \A k \in Nodes : k # n => answers'[k] = answers[k]
        /\ turn' = [turn EXCEPT ![n] = IF honeymoon THEN @ + 1 ELSE @]
    BY DEF Answer, IInv, Types
  <1>4. turn' \in [Nodes -> 0..Rounds]
    BY <1>1, <1>3 DEF Rest, Bounds, OneAnswer
  <1>5. \A k \in Nodes : k \notin DOMAIN book'[k]
    <2>1. n \notin DOMAIN Learned(n, Head(answers[n]))
      BY DEF Learned, Over, Restrict, Rest, Bounds
    <2>2. book' = book \/ book' = [book EXCEPT ![n] = Learned(n, Head(answers[n]))]
      BY DEF Answer
    <2>3. QED
      BY <2>1, <2>2 DEF Rest, Bounds, IInv, Types
  <1>6. Bounds'
    <2>1. Len(answers[n]) <= MaxOutstanding
      BY DEF Rest, Bounds
    <2>2. Len(answers'[n]) <= MaxOutstanding
      BY <1>2, <1>3, <2>1
    <2>3. \A k \in Nodes : k # n => Len(answers'[k]) <= MaxOutstanding
      BY <1>3 DEF Rest, Bounds
    <2>4. QED
      BY <1>3, <1>4, <1>5, <2>2, <2>3 DEF Rest, Bounds
  <1>7. OneAnswer'
    BY <1>1, <1>2, <1>3 DEF Rest, Bounds, OneAnswer
  <1>9. QED
    BY <1>6, <1>7 DEF Rest

LEMMA EmptyAnswers ==
    ASSUME Rest, UNCHANGED <<setting, book, active, honeymoon, turn>>, ~honeymoon,
           \A k \in Nodes : answers'[k] \in {answers[k], <<>>}
    PROVE  Rest'
  <1>1. Len(<<>>) = 0 /\ DOMAIN <<>> = {}
    OBVIOUS
  <1>2. \A k \in Nodes : Len(answers'[k]) <= MaxOutstanding
    BY <1>1 DEF Rest, Bounds
  <1>3. QED
    BY <1>1, <1>2 DEF Rest, Bounds, OneAnswer

LEMMA NextRest == IInv /\ Rest /\ [Next]_vars => Rest'
  <1> SUFFICES ASSUME IInv, Rest, [Next]_vars PROVE Rest'
    OBVIOUS
  <1>1. CASE \E n \in Nodes : Activate(n) \/ Deactivate(n) \/ Move(n)
    <2>1. UNCHANGED <<setting, answers, book, honeymoon, turn>> /\ active' \subseteq Nodes
      BY <1>1 DEF Activate, Deactivate, Move, Rest, Bounds
    <2>2. QED
      BY <2>1 DEF Rest, Bounds, OneAnswer
  <1>2. CASE \E n \in Nodes : Drop(n)
    <2>1. UNCHANGED <<setting, book, active, honeymoon, turn>> /\ ~honeymoon
      BY <1>2 DEF Drop
    <2>2. \A k \in Nodes : answers'[k] \in {answers[k], <<>>}
      BY <1>2 DEF Drop, IInv, Types
    <2>3. QED
      BY <2>1, <2>2, EmptyAnswers
  <1>3. CASE Settle
    <2>1. UNCHANGED <<setting, book, answers, active>>
      BY <1>3 DEF Settle
    <2>2. honeymoon' \in BOOLEAN /\ turn' \in [Nodes -> 0..Rounds]
      BY <1>3 DEF Settle
    <2>3. \A n \in Nodes : answers[n] = <<>>
      BY <1>3 DEF Settle
    <2>4. QED
      BY <2>1, <2>2, <2>3 DEF Rest, Bounds, OneAnswer
  <1>4. CASE Prune
    <2>1. UNCHANGED <<setting, book, answers, active, honeymoon>>
      BY <1>4 DEF Prune
    <2>2. turn' \in [Nodes -> 0..Rounds] /\ \A n \in Nodes : turn'[n] <= turn[n]
      BY <1>4 DEF Prune, Rest, Bounds
    <2>3. \A n \in Nodes : turn[n] < Rounds => turn'[n] < Rounds
      BY <2>2 DEF Rest, Bounds
    <2>4. QED
      BY <2>1, <2>2, <2>3 DEF Rest, Bounds, OneAnswer
  <1>5. CASE Restart
    <2>1. UNCHANGED <<setting, book, active, honeymoon, turn>> /\ ~honeymoon
      BY <1>5 DEF Restart
    <2>2. \A k \in Nodes : answers'[k] \in {answers[k], <<>>}
      BY <1>5 DEF Restart
    <2>3. QED
      BY <2>1, <2>2, EmptyAnswers
  <1>6. CASE UNCHANGED vars
    BY <1>6 DEF vars, Rest, Bounds, OneAnswer
  <1>7. QED
    BY <1>1, <1>2, <1>3, <1>4, <1>5, <1>6, AskRest, AnswerRest DEF Next

-----------------------------------------------------------------------------
(* What the server has been told *)

Recent == named \in [Nodes -> SUBSET Nat] /\ NoneOutstays

LEMMA InitRecent == Init => Recent
  BY DEF Init, Recent, NoneOutstays, Nobody

\* A member that a request does not add was there before.
LEMMA AskRecent == ASSUME IInv, Recent, NEW n \in Nodes, Ask(n) PROVE Recent'
  <1> DEFINE pin == KeyOf(n)
             before == SessionOf(pin)
             session == IF Welcome(before, n) THEN Joined(before, n, home[n]) ELSE before
  <1>1. /\ registry' = Over([p \in {pin} |-> session], registry)
        /\ named' = IF n \in East THEN named ELSE [named EXCEPT ![n] = @ \cup {home[n]}]
        /\ UNCHANGED setting
    BY DEF Ask
  <1>2. /\ named' \in [Nodes -> SUBSET Nat]
        /\ \A m \in Nodes : named[m] \subseteq named'[m]
        /\ n \notin East => home[n] \in named'[n]
    BY <1>1 DEF Recent, IInv, Types
  <1>3. \A m \in DOMAIN before : pin \in DOMAIN registry /\ before = registry[pin]
    BY DEF SessionOf, Nobody
  <1>4. \A m \in DOMAIN session :
           \/ m \in DOMAIN before /\ session[m] = before[m]
           \/ m = n /\ session[m] = home[m]
    BY DEF Joined, Over
  <1>5. /\ DOMAIN registry' = DOMAIN registry \cup {pin}
        /\ registry'[pin] = session
        /\ \A p \in DOMAIN registry \ {pin} : registry'[p] = registry[p]
    BY <1>1 DEF Over
  <1> HIDE DEF pin, before, session
  <1>6. \A p \in DOMAIN registry : DOMAIN registry[p] \subseteq Nodes
    BY DEF IInv, Types, Session
  <1>7. ASSUME NEW p \in DOMAIN registry', NEW m \in DOMAIN registry'[p] \ East
        PROVE  registry'[p][m] \in named'[m]
    <2>1. ASSUME p \in DOMAIN registry, m \in DOMAIN registry[p], registry'[p][m] = registry[p][m]
          PROVE  registry'[p][m] \in named'[m]
      BY <1>2, <1>6, <1>7, <2>1 DEF Recent, NoneOutstays
    <2>2. CASE p = pin /\ m = n /\ session[m] = home[m]
      BY <1>2, <1>5, <1>7, <2>2
    <2>3. QED
      BY <1>3, <1>4, <1>5, <1>7, <2>1, <2>2
  <1>8. QED
    BY <1>1, <1>2, <1>7 DEF Recent, NoneOutstays, East

LEMMA NextRecent == IInv /\ Recent /\ [Next]_vars => Recent'
  <1> SUFFICES ASSUME IInv, Recent, [Next]_vars PROVE Recent'
    OBVIOUS
  <1>1. ASSUME UNCHANGED <<setting, registry, named>> PROVE Recent'
    BY <1>1 DEF Recent, NoneOutstays, East
  <1>2. CASE Prune
    <2>1. \A p \in DOMAIN registry' : DOMAIN registry'[p] \subseteq East
      BY <1>2 DEF Prune, Survivors, Restrict
    <2>2. QED
      BY <1>2, <2>1 DEF Prune, Recent, NoneOutstays, East
  <1>3. CASE Restart
    BY <1>3 DEF Restart, Recent, NoneOutstays, Nobody
  <1>4. ASSUME NEW n \in Nodes,
               Activate(n) \/ Deactivate(n) \/ Answer(n) \/ Move(n) \/ Drop(n)
        PROVE  Recent'
    BY <1>1, <1>4 DEF Activate, Deactivate, Answer, Move, Drop
  <1>5. CASE Settle \/ UNCHANGED vars
    BY <1>1, <1>5 DEF Settle, vars
  <1>6. QED
    BY <1>2, <1>3, <1>4, <1>5, AskRecent DEF Next

LEMMA AlwaysRest == Spec => [](IInv /\ Rest /\ Recent)
  BY AlwaysIInv, InitRest, NextRest, InitRecent, NextRecent, PTL DEF Spec

\* Every variable has its type; no node is in its own address book.
THEOREM TypesHold == Spec => []TypeOK
  <1>1. IInv /\ Rest /\ Recent => TypeOK
    BY DEF IInv, Types, Session, Rest, Bounds, Recent, TypeOK
  <1>2. QED
    BY <1>1, AlwaysRest, PTL

\* What the server can tell of a node, that node has said since the last prune, in
\* whichever sessions it is, unless it was born east of UTC.
THEOREM ToldIsRecent == Spec => []NoneOutstays
  <1>1. Recent => NoneOutstays
    BY DEF Recent
  <1>2. QED
    BY <1>1, AlwaysRest, PTL
=============================================================================
