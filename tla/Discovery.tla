------------------------------ MODULE Discovery ------------------------------
(* Nodes discover each other through the Zoo (libpair/discovery, libzoo).     *)
(*                                                                            *)
(* Server: request() puts a participant into the session registered under    *)
(* the first of its pins that is registered, or opens one under its last      *)
(* pin, and answers with the whole session; every ten seconds prune() throws  *)
(* out whom it takes for not seen.  Client: while it is active a timer asks,  *)
(* once a second in the honeymoon after activate(true) and once a minute      *)
(* later, and what is answered goes to the address book.                      *)
(*                                                                            *)
(* An associate is its id and the address it has; the key, name and trust     *)
(* that travel along are left out.  Addresses are numbered by node, in the    *)
(* order in which it has them.                                                *)
EXTENDS Naturals, Sequences, FiniteSets, Functions, FiniteSetsExt

CONSTANTS
    Nodes,           \* the participants, by id
    Pins,
    PinsOf,          \* the valid pins of a node's requests: manualPin, geoPin
    Settings,        \* <<crowd, body, east>>: a session of more than crowd members
                     \* is full, an answer of more than body is cut off, and
                     \* the nodes in east were born east of UTC
    Rounds,          \* answers a node in its honeymoon gets between two prunes
    MaxOutstanding,  \* answers on the way to a client
    Keepers,         \* the nodes whose address books are followed
    Movers,          \* the nodes whose address changes
    MaxMoves         \* how often

ASSUME DiscoveryAssumption ==
    /\ PinsOf \in [Nodes -> Seq(Pins)]
    /\ \A n \in Nodes : Len(PinsOf[n]) \in 1..2
    /\ Settings \subseteq Nat \X Nat \X SUBSET Nodes
    /\ Keepers \subseteq Nodes /\ Movers \subseteq Nodes
    /\ {Rounds, MaxOutstanding, MaxMoves} \subseteq Nat

VARIABLES
    setting,    \* the one of Settings that holds here
    registry,   \* server: the sessions, by pin; a session: address by member
    answers,    \* answers on the way: sessions
    book,       \* address books: address by associate
    home,       \* the address a node has
    active,     \* nodes whose discovery is active
    honeymoon,  \* all active nodes are in their honeymoon, and nothing fails
    turn,       \* in the honeymoon: a node's answers since the last prune
    named       \* history: what addresses a node that is thrown out at each prune
                \* gave the server since the last one

vars == <<setting, registry, answers, book, home, active, honeymoon, turn, named>>

Nobody == [n \in {} |-> 0]

\* What f holds, and what g holds beside it.
Over(f, g) ==
    [x \in DOMAIN f \cup DOMAIN g |-> IF x \in DOMAIN f THEN f[x] ELSE g[x]]

Crowd == setting[1]
Body == setting[2]
East == setting[3]

Init ==
    /\ setting \in Settings
    /\ registry = Nobody
    /\ answers = [n \in Nodes |-> <<>>]
    /\ book = [n \in Nodes |-> Nobody]
    /\ home = [n \in Nodes |-> 1]
    /\ active = {}
    /\ honeymoon = FALSE
    /\ turn = [n \in Nodes |-> 0]
    /\ named = [n \in Nodes |-> {}]

-----------------------------------------------------------------------------
(* The client *)

\* activate(on): a new honeymoon and a first request.
Activate(n) ==
    /\ ~honeymoon /\ n \notin active
    /\ active' = active \cup {n}
    /\ UNCHANGED <<setting, registry, answers, book, home, honeymoon, turn, named>>

\* activate(off) stops the timer and ends the honeymoon; an answer may follow.
Deactivate(n) ==
    /\ ~honeymoon /\ n \in active
    /\ active' = active \ {n}
    /\ UNCHANGED <<setting, registry, answers, book, home, honeymoon, turn, named>>

\* Until here clients ask and the server prunes at any rate, and connections
\* fail: a node asks once a minute, or was just activated.  From here on, at some
\* moment between two prunes, all active nodes are in their honeymoon: they ask
\* once a second and are answered within it.
Settle ==
    /\ ~honeymoon
    /\ \A n \in Nodes : answers[n] = <<>>
    /\ honeymoon' = TRUE
    /\ \E t \in 0..Rounds : turn' = [n \in Nodes |-> IF n \in active THEN t ELSE 0]
    /\ UNCHANGED <<setting, registry, answers, book, home, active, named>>

OnTime(n) ==
    honeymoon =>
        /\ turn[n] < Rounds
        /\ answers[n] = <<>>
        /\ \A m \in active : turn[n] <= turn[m]

\* An answer can be used unless it was cut off (invalid JSON) or is an error.
Readable(answer) == Cardinality(DOMAIN answer) <= Body

\* registerPossibleAssociate() for each but ourselves: new ones are added,
\* known ones updated, whatever is known of them.
\* Mutant: known ones stay as they are.
LearnedOnce(n, answer) == Over(book[n], Restrict(answer, DOMAIN answer \ {n}))
Learned(n, answer) == Over(Restrict(answer, DOMAIN answer \ {n}), book[n])

\* responseHandler(); the associates are dropped when discovery is off.
Answer(n) ==
    /\ answers[n] # <<>>
    /\ answers' = [answers EXCEPT ![n] = Tail(@)]
    /\ book' = IF n \in active \cap Keepers /\ Readable(Head(answers[n]))
               THEN [book EXCEPT ![n] = Learned(n, Head(answers[n]))] ELSE book
    /\ turn' = [turn EXCEPT ![n] = IF honeymoon THEN @ + 1 ELSE @]
    /\ UNCHANGED <<setting, registry, home, active, honeymoon, named>>

\* The node gets another address.
Move(n) ==
    /\ ~honeymoon
    /\ n \in Movers /\ home[n] <= MaxMoves
    /\ home' = [home EXCEPT ![n] = @ + 1]
    /\ UNCHANGED <<setting, registry, answers, book, active, honeymoon, turn, named>>

-----------------------------------------------------------------------------
(* The server *)

\* The first pin that is registered, or else the last pin.
KeyOf(n) ==
    LET matches == {i \in DOMAIN PinsOf[n] : PinsOf[n][i] \in DOMAIN registry}
    IN PinsOf[n][IF matches = {} THEN Len(PinsOf[n]) ELSE Min(matches)]

SessionOf(pin) == IF pin \in DOMAIN registry THEN registry[pin] ELSE Nobody

\* set(): a member is not updated, and a full session takes nobody in.
Welcome(session, n) == n \in DOMAIN session \/ Cardinality(DOMAIN session) <= Crowd

Joined(session, n, where) ==
    IF n \in DOMAIN session THEN session ELSE Over(session, [m \in {n} |-> where])

\* The answer: the whole session, or an error that names nobody.  What is told to a
\* node whose address book is not followed is left out.
AnswerFor(session, n) ==
    IF n \in Keepers /\ n \in DOMAIN session THEN session ELSE Nobody

\* A timer event of an active client, onTimer(), up to the server's answer,
\* request(): what is sent is the node's identity with its present address.  The
\* time a request takes is part of the time until the timer fires.
Ask(n) ==
    /\ n \in active
    /\ Len(answers[n]) < MaxOutstanding
    /\ OnTime(n)
    /\ LET pin     == KeyOf(n)
           session == IF Welcome(SessionOf(pin), n)
                      THEN Joined(SessionOf(pin), n, home[n])
                      ELSE SessionOf(pin)
       IN /\ registry' = Over([p \in {pin} |-> session], registry)
          /\ answers' = [answers EXCEPT ![n] = Append(@, AnswerFor(session, n))]
    /\ named' = IF n \in East THEN named ELSE [named EXCEPT ![n] = @ \cup {home[n]}]
    /\ UNCHANGED <<setting, book, home, active, honeymoon, turn>>

\* onBackgroundTimer(), prune(): who was last seen before the deadline goes, and
\* so does a session that nobody is left in.  When a node was last seen is read
\* from its request, where it is the lastSeenMS of its own identity, which nothing
\* ever sets: it is the start of 1970 in the time zone the node was born in.  East
\* of UTC that is a negative number, as an unsigned one later than any deadline,
\* and such a member stays for good; all others go each time.
\* Mutant: the walk ends after the first session.
SurvivorsOfOne ==
    Restrict(registry, {p \in DOMAIN registry : p # CHOOSE q \in DOMAIN registry : TRUE})
\* Mutant: the walk skips the member behind one that it erases.
SurvivorsSkipped ==
    [p \in {q \in DOMAIN registry : Cardinality(DOMAIN registry[q]) > 1} |->
        Restrict(registry[p], DOMAIN registry[p] \ {CHOOSE m \in DOMAIN registry[p] : TRUE})]
Survivors ==
    [p \in {q \in DOMAIN registry : DOMAIN registry[q] \cap East # {}} |->
        Restrict(registry[p], DOMAIN registry[p] \cap East)]

Prune ==
    /\ honeymoon => \A n \in active : turn[n] = Rounds
    /\ registry' = Survivors
    /\ turn' = [n \in Nodes |-> 0]
    /\ named' = [n \in Nodes |-> {}]
    /\ UNCHANGED <<setting, answers, book, home, active, honeymoon>>

-----------------------------------------------------------------------------
(* The connection, and the Zoo starting again *)

Drop(n) ==
    /\ ~honeymoon
    /\ answers[n] # <<>>
    /\ answers' = [answers EXCEPT ![n] = <<>>]
    /\ UNCHANGED <<setting, registry, book, home, active, honeymoon, turn, named>>

Restart ==
    /\ ~honeymoon
    /\ registry' = Nobody
    /\ answers' = [n \in Nodes |-> <<>>]
    /\ named' = [n \in Nodes |-> {}]
    /\ UNCHANGED <<setting, book, home, active, honeymoon, turn>>

Next ==
    \/ \E n \in Nodes :
        \/ Activate(n) \/ Deactivate(n) \/ Ask(n) \/ Answer(n) \/ Move(n)
        \/ Drop(n)
    \/ Settle
    \/ Prune
    \/ Restart

Spec == Init /\ [][Next]_vars

\* The timers of clients and server run, and requests are served.
FairSpec ==
    /\ Spec
    /\ \A n \in Nodes : WF_vars(Ask(n)) /\ WF_vars(Answer(n))
    /\ WF_vars(Prune)

-----------------------------------------------------------------------------
(* Properties *)

\* Every variable has its type.
TypeOK ==
    /\ setting \in Settings
    /\ DOMAIN registry \subseteq Pins
    /\ \A p \in DOMAIN registry : DOMAIN registry[p] \subseteq Nodes
    /\ \A n \in Nodes : Len(answers[n]) <= MaxOutstanding
    /\ \A n \in Nodes : DOMAIN book[n] \subseteq Nodes \ {n}
    /\ home \in [Nodes -> Nat]
    /\ active \subseteq Nodes
    /\ honeymoon \in BOOLEAN
    /\ turn \in [Nodes -> 0..Rounds]
    /\ named \in [Nodes -> SUBSET Nat]

\* Nobody outstays the prune of whichever of its sessions it may be in: what the
\* server can tell of a node the node has said itself since the last prune.  The
\* nodes that were born east of UTC are exempt.
NoneOutstays ==
    \A p \in DOMAIN registry : \A m \in DOMAIN registry[p] \ East :
        registry[p][m] \in named[m]

\* A newer address of an associate is not replaced by an older one, although
\* members are not updated, one node can be in two sessions, and only some members
\* are thrown out: the session a node was found in last is registered as long as
\* that node is in any older one.
AddressesAdvance ==
    [][\A n, m \in Nodes :
        m \in DOMAIN book[n] => m \in DOMAIN book'[n] /\ book'[n][m] >= book[n][m]]_vars

\* Two nodes are in their honeymoon together, with no more nodes active or never
\* thrown out than fit in an answer.
Together(n, m) ==
    /\ honeymoon /\ {n, m} \subseteq active
    /\ Cardinality(active \cup East) <= Min({Crowd + 1, Body})

\* Two nodes with the same pins that are in their honeymoon together come to know
\* each other, although most are thrown out at each prune; the one that is thrown
\* out even by its present address.
FellowsMeet ==
    \A n \in Keepers, m \in Nodes :
        (n # m /\ PinsOf[n] = PinsOf[m]) =>
            (<>[]Together(n, m) =>
                <>[](m \in DOMAIN book[n] /\ (m \notin East => book[n][m] = home[m])))

\* What a user hopes for and the code does not give (DCEast, DCCrowd): the present
\* address also of a node that was born east of UTC, ...
PresentAddress ==
    \A n \in Keepers, m \in Nodes :
        (n # m /\ PinsOf[n] = PinsOf[m]) =>
            (<>[]Together(n, m) => <>[](m \in DOMAIN book[n] /\ book[n][m] = home[m]))

\* ... and that of two nodes of a session that is larger than an answer.
CrowdMeets ==
    \A n \in Keepers, m \in Nodes :
        (n # m /\ PinsOf[n] = PinsOf[m]) =>
            (<>[](honeymoon /\ {n, m} \subseteq active) => <>[](m \in DOMAIN book[n]))
=============================================================================
