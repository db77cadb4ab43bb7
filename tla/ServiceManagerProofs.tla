------------------------ MODULE ServiceManagerProofs ------------------------
(***************************************************************************)
(* For every set of services and levels, whatever fails or stays silent:   *)
(* the rounds of ServiceManager count their answers, and calls that do not *)
(* overlap start services in the order of their dependencies, never stop a *)
(* service an enabled level needs, and end with the levels obeyed; until   *)
(* then each waits for an answer, and each answer brings it nearer to its  *)
(* end.                                                                    *)
(*                                                                         *)
(* None of them is inductive.  Heading says that the sets a call was       *)
(* given still are what separates the wanted services from the needed      *)
(* ones, Asked that an answer still owed is about what the service was     *)
(* told, on top of dependencies that were wanted before, and Started that  *)
(* a wanted service was started, has failed or is about to answer.         *)
(***************************************************************************)
EXTENDS ServiceManager, FunctionTheorems, FiniteSetTheorems, WellFoundedInduction, TLAPS

Owed(c) == {p \in pending : p.call = c}

Counted == TypeOK /\ IsFiniteSet(pending) /\ RoundsHonest

Alone == \A c, d \in Busy : c = d

Heading ==
    \A c \in Busy :
        /\ calls[c].activate \subseteq Needed
        /\ Needed \subseteq calls[c].activate \cup wanted
        /\ calls[c].deactivate \cap Needed = {}
        /\ wanted \subseteq calls[c].deactivate \cup Needed

Asked ==
    \A p \in pending :
        /\ p.on <=> p.service \in wanted
        /\ p.on => Dependencies[p.service] \subseteq wanted

Started == wanted \subseteq active \cup failed \cup {p.service : p \in pending}

Orderly == Alone /\ Heading /\ Asked /\ Started

IInv == Counted /\ (~overlapped => Orderly) /\ StartOrder /\ LevelsObeyed

-----------------------------------------------------------------------------
(* Dependencies *)

\* What a service depends on are services.
LEMMA DependenciesAreServices == \A s \in Services : Dependencies[s] \subseteq Services
  BY DEF Dependencies

\* Dependencies are transitive: one level of the recursion finds all of them.
LEMMA DependenciesTransitive ==
  ASSUME NEW s \in Services, NEW d \in Dependencies[s], NEW e \in Dependencies[d]
  PROVE  e \in Dependencies[s]
<1>1. d \in Services /\ e \in Services
  BY DependenciesAreServices
<1>2. s \in Registered /\ d \in Registered
  BY <1>1 DEF Dependencies
<1>3. ASSUME NEW set \in SUBSET Services, Depends[s] \subseteq set, Closed(set) PROVE e \in set
  <2>1. d \in set
    BY <1>2, <1>3 DEF Dependencies
  <2>2. Depends[d] \subseteq set
    BY <2>1, <1>2, <1>3 DEF Closed
  <2> QED
    BY <2>2, <1>1, <1>2, <1>3 DEF Dependencies
<1> QED
  BY <1>1, <1>2, <1>3 DEF Dependencies

\* A set of services that holds what its members depend on.
Whole(set) == set \subseteq Services /\ \A s \in set : Dependencies[s] \subseteq set

\* What some services need, they and their dependencies, is whole.
LEMMA ExpandIsWhole ==
  ASSUME NEW set \in SUBSET Services
  PROVE  Whole(Expand(set)) /\ set \subseteq Expand(set)
<1>1. Expand(set) \subseteq Services
  BY DependenciesAreServices DEF Expand
<1>2. ASSUME NEW t \in Expand(set), NEW d \in Dependencies[t] PROVE d \in Expand(set)
  <2>1. CASE t \in set
    BY <2>1, <1>2 DEF Expand
  <2>2. CASE t \notin set
    <3>1. PICK s \in set : t \in Dependencies[s]
      BY <2>2, <1>2 DEF Expand
    <3>2. d \in Dependencies[s]
      BY <3>1, DependenciesTransitive
    <3> QED
      BY <3>2 DEF Expand
  <2> QED
    BY <2>1, <2>2
<1> QED
  BY <1>1, <1>2 DEF Whole, Expand

\* What the levels need is whole.
LEMMA NeededIsWhole == ASSUME enabled \subseteq Levels PROVE Whole(Needed)
<1>1. UNION {Members[l] : l \in enabled} \subseteq Services
  BY ServicesAssumption
<1> QED
  BY <1>1, ExpandIsWhole DEF Needed

\* A service that can be started is off and all it depends on is wanted; starting
\* what a whole set needs starts nothing else.
LEMMA ActivatableFits ==
  ASSUME NEW set \in SUBSET Services, NEW on \in SUBSET Registered, NEW s \in Activatable(set, on)
  PROVE  /\ s \in Registered /\ s \notin on /\ Dependencies[s] \subseteq on
         /\ \A whole : Whole(whole) /\ set \subseteq whole => s \in whole
  BY DEF Activatable, DependenciesMet, Whole

\* A service that can be stopped is on, with all that depend on it; stopping what
\* a whole set does not need stops nothing that it needs.
LEMMA DeactivatableFits ==
  ASSUME NEW set \in SUBSET Services, NEW on \in SUBSET Registered, NEW s \in Deactivatable(set, on)
  PROVE  /\ s \in on /\ Dependents[s] \subseteq on
         /\ \A whole : Whole(whole) /\ set \cap whole = {} => s \notin whole
<1>1. s \in on /\ Dependents[s] \subseteq on
  BY DEF Deactivatable, DependentsMet
<1>2. ASSUME NEW whole, Whole(whole), set \cap whole = {}, s \in whole PROVE FALSE
  <2>1. PICK w \in set : w \in on /\ s \in Dependents[w]
    BY <1>2 DEF Deactivatable
  <2>2. w \in Dependencies[s]
    BY <2>1 DEF Dependents
  <2> QED
    BY <2>1, <2>2, <1>2 DEF Whole
<1> QED
  BY <1>1, <1>2

\* The sets of services are finite, so a smallest one is among any of them.
LEMMA SmallestDependencies ==
  ASSUME NEW set \in SUBSET Services, set # {}
  PROVE  \E d \in set : \A e \in set : ~(Dependencies[e] \subseteq Dependencies[d] /\ Dependencies[e] # Dependencies[d])
<1> DEFINE Sizes == {Cardinality(Dependencies[e]) : e \in set}
           Less == {p \in Nat \X Nat : p[1] < p[2]}
<1>1. ASSUME NEW e \in Services
      PROVE IsFiniteSet(Dependencies[e]) /\ Cardinality(Dependencies[e]) \in Nat
  BY <1>1, DependenciesAreServices, ServicesAssumption, FS_Subset, FS_CardinalityType
<1>2. Sizes \subseteq Nat /\ Sizes # {}
  BY <1>1
<1>3. PICK n \in Sizes : \A m \in Sizes : ~(m < n)
  <2>1. IsWellFoundedOn(Less, Nat)
    BY NatLessThanWellFounded DEF OpToRel
  <2>2. \E n \in Sizes : \A m \in Sizes : <<m, n>> \notin Less
    <3> HIDE DEF Sizes, Less
    <3> QED
      BY <1>2, <2>1, WFMin
  <2> HIDE DEF Sizes
  <2> QED
    BY <2>2, <1>2
<1>4. PICK d \in set : n = Cardinality(Dependencies[d])
  BY <1>3
<1>5. ASSUME NEW e \in set, Dependencies[e] \subseteq Dependencies[d], Dependencies[e] # Dependencies[d]
      PROVE FALSE
  <2>1. IsFiniteSet(Dependencies[d]) /\ Cardinality(Dependencies[d]) \in Nat
        /\ Cardinality(Dependencies[e]) \in Nat
    BY <1>1
  <2>2. Cardinality(Dependencies[e]) <= Cardinality(Dependencies[d])
        /\ Cardinality(Dependencies[e]) # Cardinality(Dependencies[d])
    BY <2>1, <1>5, FS_Subset
  <2>3. Cardinality(Dependencies[e]) \in Sizes
    OBVIOUS
  <2> QED
    BY <2>1, <2>2, <2>3, <1>3, <1>4
<1> QED
  BY <1>4, <1>5

\* As long as a service that is to be started is off, and there are services for
\* all it depends on, one can be started now.
LEMMA SomethingToStart ==
  ASSUME NEW set \in SUBSET Services, NEW on \in SUBSET Registered, NEW s \in set,
         s \in Registered \ on, Dependencies[s] \subseteq Registered
  PROVE  Activatable(set, on) # {}
<1>1. CASE Dependencies[s] \subseteq on
  BY <1>1 DEF Activatable, DependenciesMet
<1>2. CASE ~(Dependencies[s] \subseteq on)
  <2> DEFINE off == Dependencies[s] \ on
  <2>1. off \in SUBSET Services /\ off # {} /\ s \in Services
    BY <1>2, DependenciesAreServices, ServicesAssumption
  <2>2. PICK d \in off : \A e \in off :
            ~(Dependencies[e] \subseteq Dependencies[d] /\ Dependencies[e] # Dependencies[d])
    <3> HIDE DEF off
    <3> QED
      BY <2>1, SmallestDependencies
  <2>3. ASSUME NEW e \in Dependencies[d], e \notin on PROVE FALSE
    <3>1. d \in Services /\ e \in off
      BY <2>1, <2>2, <2>3, DependenciesTransitive
    <3>2. e \in Services /\ e \in Registered
      BY <3>1, <2>1
    <3>3. Dependencies[e] \subseteq Dependencies[d]
      BY <3>1, <2>3, DependenciesTransitive
    <3>4. e \notin Dependencies[e]
      BY <3>2, NoCircle
    <3> QED
      BY <3>1, <3>3, <3>4, <2>2, <2>3
  <2>4. d \in Registered /\ d \notin on /\ DependenciesMet(d, on)
    BY <2>2, <2>3 DEF DependenciesMet
  <2>5. s \in set \ on /\ ~DependenciesMet(s, on) /\ d \in Dependencies[s]
    BY <1>2 DEF DependenciesMet
  <2>6. d \in Activatable(set, on)
    BY <2>4, <2>5 DEF Activatable
  <2> QED
    BY <2>6
<1> QED
  BY <1>1, <1>2

-----------------------------------------------------------------------------
(* A round *)

CallType == [activate : SUBSET Services, deactivate : SUBSET Services, left : Nat]
AnswerType == [service : Registered, on : BOOLEAN, call : Slots]

\* The services a round starts and stops.
Up(activate) == Activatable(activate, wanted)
Down(activate, deactivate) == Deactivatable(deactivate, wanted) \ Up(activate)

\* They are services, and no service is both.
LEMMA ChangingServices ==
  ASSUME wanted \subseteq Registered, NEW A \in SUBSET Services, NEW X \in SUBSET Services
  PROVE  /\ Up(A) \subseteq Registered \ wanted
         /\ Down(A, X) \subseteq wanted
         /\ IsFiniteSet(Up(A) \cup Down(A, X))
<1>1. Up(A) \subseteq Registered \ wanted
  BY ActivatableFits DEF Up
<1>2. Down(A, X) \subseteq wanted
  BY DeactivatableFits DEF Down
<1>3. Up(A) \cup Down(A, X) \in SUBSET Services
  BY <1>1, <1>2, ServicesAssumption
<1>4. IsFiniteSet(Up(A) \cup Down(A, X))
  BY <1>3, ServicesAssumption, FS_Subset
<1> QED
  BY <1>1, <1>2, <1>4

\* The answers a round of call c asks of a set of services, of which it starts ups.
Answers(set, ups, c) == {[service |-> s, on |-> s \in ups, call |-> c] : s \in set}

\* As many answers are owed as services are told.
LEMMA OneAnswerEach ==
  ASSUME NEW set, IsFiniteSet(set), NEW ups, NEW c
  PROVE  IsFiniteSet(Answers(set, ups, c)) /\ Cardinality(Answers(set, ups, c)) = Cardinality(set)
<1> DEFINE answer(s) == [service |-> s, on |-> s \in ups, call |-> c]
           answers == Answers(set, ups, c)
           f == [s \in set |-> answer(s)]
<1>1. \A s \in set : answer(s).service = s
  OBVIOUS
<1>2. f \in Bijection(set, answers)
  <2>1. f \in [set -> answers] /\ \A s \in set : f[s] = answer(s)
    BY Zenon DEF Answers
  <2>2. \A s, t \in set : f[s] = f[t] => s = t
    <3> HIDE DEF f, answers, answer
    <3> QED
      BY <1>1, <2>1
  <2>3. \A a \in answers : \E s \in set : f[s] = a
    <3>1. \A a \in answers : \E s \in set : answer(s) = a
      BY Zenon DEF Answers
    <3> HIDE DEF f, answers, answer
    <3> QED
      BY <2>1, <3>1
  <2> HIDE DEF f, answers, answer
  <2> QED
    BY <2>1, <2>2, <2>3, Fun_IsBij
<1>3. ExistsBijection(set, answers)
  BY <1>2 DEF ExistsBijection
<1> HIDE DEF answers
<1>4. IsFiniteSet(answers) /\ Cardinality(answers) = Cardinality(set)
  BY <1>3, FS_Bijection
<1> QED
  BY <1>4 DEF answers

\* What is in an answer.
LEMMA AnswerFields ==
  ASSUME NEW set, NEW ups, NEW c, NEW p \in Answers(set, ups, c)
  PROVE  /\ p.service \in set /\ p.call = c
         /\ p.on <=> p.service \in ups
         /\ set \subseteq Registered /\ c \in Slots => p \in AnswerType
<1>1. PICK s \in set : p = [service |-> s, on |-> s \in ups, call |-> c]
  BY DEF Answers
<1>2. p.service = s /\ p.on = (s \in ups) /\ p.call = c
  BY <1>1, Zenon
<1>3. set \subseteq Registered /\ c \in Slots => p \in AnswerType
  <2>1. CASE s \in ups
    <3>1. p = [service |-> s, on |-> TRUE, call |-> c]
      BY <1>1, <2>1
    <3> QED
      BY <3>1 DEF AnswerType
  <2>2. CASE ~(s \in ups)
    <3>1. (s \in ups) = FALSE
      BY <2>2
    <3>2. p = [service |-> s, on |-> FALSE, call |-> c]
      BY <1>1, <3>1, Zenon
    <3> QED
      BY <3>2 DEF AnswerType
  <2> QED
    BY <2>1, <2>2
<1> QED
  BY <1>2, <1>3

\* A round of a call that is owed no answer counts the answers it asks for, and
\* leaves the count of the others alone.
LEMMA RoundCounts ==
  ASSUME wanted \subseteq Registered, calls \in [Slots -> CallType],
         pending \subseteq AnswerType, IsFiniteSet(pending),
         NEW c \in Slots, NEW A \in SUBSET Services, NEW X \in SUBSET Services,
         NEW owed \in SUBSET pending, ChangeActivation(c, A, X, owed),
         \A p \in owed : p.call # c,
         \A d \in Slots : d # c => calls[d].left = Cardinality({p \in owed : p.call = d})
  PROVE  /\ wanted' \subseteq Registered
         /\ calls' \in [Slots -> CallType]
         /\ pending' \subseteq AnswerType
         /\ IsFiniteSet(pending')
         /\ RoundsHonest'
<1> DEFINE changing == Up(A) \cup Down(A, X)
           answers == Answers(changing, Up(A), c)
<1>1. /\ wanted' = (wanted \cup Up(A)) \ Down(A, X)
      /\ pending' = owed \cup answers
      /\ calls' = [calls EXCEPT ![c] =
                      IF changing = {} THEN NoCall
                      ELSE [activate |-> A, deactivate |-> X, left |-> Cardinality(changing)]]
  BY DEF ChangeActivation, Up, Down, Answers
<1>2. changing \subseteq Registered /\ IsFiniteSet(changing) /\ Up(A) \subseteq Registered
  BY ChangingServices
<1>3. IsFiniteSet(answers) /\ Cardinality(answers) = Cardinality(changing)
  <2> HIDE DEF changing
  <2> QED
    BY <1>2, OneAnswerEach
<1>4. answers \subseteq AnswerType /\ \A p \in answers : p.call = c
  <2> HIDE DEF changing
  <2> QED
    BY <1>2, AnswerFields
<1>5. Cardinality(changing) \in Nat /\ Cardinality({}) = 0
  BY <1>2, FS_CardinalityType, FS_EmptySet
<1> HIDE DEF changing, answers
<1>6. wanted' \subseteq Registered
  BY <1>1, <1>2
<1>7. calls' \in [Slots -> CallType]
  BY <1>1, <1>5 DEF CallType, NoCall
<1>8. pending' \subseteq AnswerType
  BY <1>1, <1>4
<1>9. IsFiniteSet(pending')
  BY <1>1, <1>3, FS_Subset, FS_Union
<1>10. ASSUME NEW d \in Slots PROVE calls'[d].left = Cardinality({p \in pending' : p.call = d})
  <2>1. CASE d = c
    <3>1. {p \in pending' : p.call = d} = answers
      BY <2>1, <1>1, <1>4
    <3>2. calls'[d].left = Cardinality(changing)
      BY <2>1, <1>1, <1>5 DEF NoCall
    <3> QED
      BY <3>1, <3>2, <1>3
  <2>2. CASE d # c
    <3>1. {p \in pending' : p.call = d} = {p \in owed : p.call = d}
      BY <2>2, <1>1, <1>4
    <3> QED
      BY <3>1, <2>2, <1>1
  <2> QED
    BY <2>1, <2>2
<1> QED
  BY <1>6, <1>7, <1>8, <1>9, <1>10 DEF RoundsHonest

\* The services that are wanted and not needed, or needed and not wanted.
Apart(need, on) == (need \ on) \cup (on \ need)

Fewer(new, old) == new \subseteq old /\ new # old

\* What a step of a call that is alone comes to.
Advance ==
    ~overlapped' /\ Busy # {} =>
        \/ Busy' = {}
        \/ Fewer(Astray', Astray)
        \/ Astray' = Astray /\ Fewer(pending', pending)

\* A round of the only call, when no answer is owed: it starts what may be started,
\* stops nothing that is needed, and when it finds nothing to do the levels are obeyed.
\* If it finds something, fewer services are astray afterwards.
LEMMA RoundKeepsOrder ==
  ASSUME wanted \subseteq Registered, calls \in [Slots -> CallType], enabled' \subseteq Levels,
         NEW c \in Slots, NEW A \in SUBSET Services, NEW X \in SUBSET Services,
         ChangeActivation(c, A, X, {}),
         \A d \in Slots : d # c => calls[d].left = 0,
         A \subseteq Needed', Needed' \subseteq A \cup wanted,
         X \cap Needed' = {}, wanted \subseteq X \cup Needed',
         wanted \subseteq active' \cup failed'
  PROVE  /\ Orderly' /\ StartOrder' /\ LevelsObeyed'
         /\ (wanted \ wanted') \cap Needed' = {}
         /\ Busy' = {} \/ Fewer(Astray', Apart(Needed', wanted))
<1> DEFINE up == Up(A)
           down == Down(A, X)
           need == Needed'
<1>1. /\ wanted' = (wanted \cup up) \ down
      /\ pending' = Answers(up \cup down, up, c)
      /\ calls' = [calls EXCEPT ![c] =
                      IF up \cup down = {} THEN NoCall
                      ELSE [activate |-> A, deactivate |-> X, left |-> Cardinality(up \cup down)]]
  BY DEF ChangeActivation, Up, Down, Answers
<1>2. up \subseteq Registered \ wanted /\ down \subseteq wanted /\ IsFiniteSet(up \cup down)
  BY ChangingServices
<1>3. Whole(need)
  <2>1. UNION {Members[l] : l \in enabled'} \subseteq Services
    BY ServicesAssumption
  <2>2. need = Expand(UNION {Members[l] : l \in enabled'})
    BY DEF Needed, Expand
  <2> QED
    BY <2>1, <2>2, ExpandIsWhole
<1> HIDE DEF need
<1>4. up \subseteq need /\ \A s \in up : Dependencies[s] \subseteq wanted
  <2>1. A \subseteq need
    BY DEF need
  <2> QED
    BY <1>3, <2>1, ActivatableFits DEF Up
<1>5. down \cap need = {} /\ \A s \in down : Dependents[s] \subseteq wanted
  <2>1. X \cap need = {}
    BY DEF need
  <2> QED
    BY <1>3, <2>1, DeactivatableFits DEF Down
<1>6. \A s \in up : Dependencies[s] \subseteq wanted'
  <2>1. ASSUME NEW s \in up, NEW d \in Dependencies[s], d \in down PROVE FALSE
    <3>1. s \in Dependents[d]
      BY <2>1, <1>2, ServicesAssumption DEF Dependents
    <3> QED
      BY <3>1, <2>1, <1>2, <1>5
  <2> HIDE DEF up, down
  <2> QED
    BY <2>1, <1>1, <1>4
<1>7. Busy' = IF up \cup down = {} THEN {} ELSE {c}
  <2>1. Cardinality(up \cup down) \in Nat /\ (Cardinality(up \cup down) = 0 <=> up \cup down = {})
    BY <1>2, FS_CardinalityType, FS_EmptySet
  <2> HIDE DEF up, down
  <2>2. \A d \in Slots : calls'[d].left > 0 <=> (d = c /\ up \cup down # {})
    BY <1>1, <2>1 DEF NoCall
  <2> QED
    BY <2>2 DEF Busy
<1>8. Alone'
  BY <1>7 DEF Alone
<1>9. Heading'
  <2>1. ASSUME NEW d \in Busy' PROVE d = c /\ calls'[d].activate = A /\ calls'[d].deactivate = X
    <3>1. d = c /\ up \cup down # {}
      BY <1>7
    <3> HIDE DEF up, down
    <3> QED
      BY <3>1, <1>1
  <2>2. need \subseteq A \cup wanted' /\ wanted' \subseteq X \cup need
    <3>1. need \subseteq A \cup wanted /\ wanted \subseteq X \cup need
      BY DEF need
    <3> HIDE DEF up, down
    <3> QED
      BY <3>1, <1>1, <1>4, <1>5
  <2> QED
    BY <2>1, <2>2 DEF Heading, need
<1>10. Asked' /\ Started' /\ StartOrder'
  <2> HIDE DEF up, down
  <2>1. ASSUME NEW p \in pending'
        PROVE  /\ p.on <=> p.service \in wanted'
               /\ p.on => p.service \in up
    <3>1. p.service \in up \cup down /\ (p.on <=> p.service \in up)
      BY <1>1, AnswerFields
    <3>2. \A s \in up \cup down : s \in up <=> s \in wanted'
      BY <1>1, <1>2
    <3> QED
      BY <3>1, <3>2
  <2>2. Asked'
    BY <2>1, <1>6 DEF Asked
  <2>3. Started'
    <3>1. ASSUME NEW s \in up PROVE \E p \in pending' : p.service = s
      <4> DEFINE p == [service |-> s, on |-> s \in up, call |-> c]
      <4>1. p \in pending'
        BY <1>1 DEF Answers
      <4>2. p.service = s
        OBVIOUS
      <4> QED
        BY <4>1, <4>2, Zenon
    <3> QED
      BY <3>1, <1>1 DEF Started
  <2>4. StartOrder'
    BY <2>1, <1>4 DEF StartOrder
  <2> QED
    BY <2>2, <2>3, <2>4
<1>11. LevelsObeyed'
  <2>1. CASE up \cup down # {}
    BY <2>1, <1>7 DEF LevelsObeyed
  <2>2. CASE up \cup down = {}
    <3>1. wanted' = wanted
      BY <2>2, <1>1
    <3>2. ASSUME NEW s \in need, s \in Registered, Dependencies[s] \subseteq Registered, s \notin wanted
          PROVE  FALSE
      <4>1. s \in A
        BY <3>2 DEF need
      <4>2. Activatable(A, wanted) # {}
        BY <4>1, <3>2, SomethingToStart
      <4> QED
        BY <4>2, <2>2 DEF Up
    <3>3. ASSUME NEW s \in wanted, s \notin need, DependentsMet(s, wanted) PROVE FALSE
      <4>1. s \in X
        BY <3>3 DEF need
      <4>2. s \in Deactivatable(X, wanted)
        BY <4>1, <3>3 DEF Deactivatable
      <4> QED
        BY <4>2, <2>2 DEF Down
    <3>4. /\ \A s \in Needed' : s \in Registered /\ Dependencies[s] \subseteq Registered => s \in wanted'
          /\ \A s \in wanted' \ Needed' : ~DependentsMet(s, wanted')
      BY <3>1, <3>2, <3>3 DEF need
    <3> QED
      BY <3>4 DEF LevelsObeyed
  <2> QED
    BY <2>1, <2>2
<1>12. (wanted \ wanted') \cap Needed' = {}
  <2> HIDE DEF up, down
  <2> QED
    BY <1>1, <1>5 DEF need
<1>13. Busy' = {} \/ Fewer(Astray', Apart(Needed', wanted))
  <2>1. Astray' = Apart(need, wanted')
    BY DEF Astray, Apart, need
  <2>2. Astray' = Apart(need, wanted) \ (up \cup down)
    <3> HIDE DEF up, down
    <3> QED
      BY <1>1, <1>2, <1>4, <1>5, <2>1 DEF Apart
  <2>3. up \cup down \subseteq Apart(need, wanted)
    <3> HIDE DEF up, down
    <3> QED
      BY <1>2, <1>4, <1>5 DEF Apart
  <2>4. Busy' = {} \/ up \cup down # {}
    BY <1>7
  <2> HIDE DEF up, down
  <2> QED
    BY <2>2, <2>3, <2>4 DEF Fewer, need
<1> QED
  BY <1>8, <1>9, <1>10, <1>11, <1>12, <1>13 DEF Orderly

-----------------------------------------------------------------------------
(* The steps *)

\* Nothing is called, nothing is owed.
LEMMA InitHolds == Init => IInv
<1> SUFFICES ASSUME Init PROVE IInv
  OBVIOUS
<1>1. \A c \in Slots : calls[c] = NoCall
  BY DEF Init
<1>2. Busy = {}
  BY <1>1 DEF Busy, NoCall
<1>3. TypeOK
  BY DEF Init, TypeOK, NoCall
<1>4. IsFiniteSet(pending) /\ RoundsHonest
  <2>1. pending = {} /\ \A c \in Slots : {p \in pending : p.call = c} = {}
    BY DEF Init
  <2> QED
    BY <2>1, <1>1, FS_EmptySet DEF RoundsHonest, NoCall
<1>5. Needed = {}
  BY DEF Init, Needed, Expand
<1>6. Orderly /\ StartOrder /\ LevelsObeyed
  BY <1>2, <1>5 DEF Init, Orderly, Alone, Heading, Asked, Started, StartOrder, LevelsObeyed
<1> QED
  BY <1>3, <1>4, <1>6 DEF IInv, Counted

\* A call that is over is owed no answer; a call that is owed one has one less when
\* it arrives, and none when it was the last.
LEMMA OwedAnswers ==
  ASSUME Counted, NEW c \in Slots
  PROVE  /\ IsFiniteSet(Owed(c)) /\ calls[c].left = Cardinality(Owed(c))
         /\ calls[c].left \in Nat
         /\ c \notin Busy <=> Owed(c) = {}
         /\ \A p \in Owed(c) : /\ Cardinality(Owed(c) \ {p}) = calls[c].left - 1
                               /\ calls[c].left <= 1 => Owed(c) = {p}
<1>1. IsFiniteSet(Owed(c)) /\ calls[c].left = Cardinality(Owed(c)) /\ calls[c].left \in Nat
  BY FS_Subset DEF Counted, TypeOK, RoundsHonest, Owed
<1>2. c \notin Busy <=> Owed(c) = {}
  BY <1>1, FS_EmptySet DEF Busy
<1>3. ASSUME NEW p \in Owed(c)
      PROVE  /\ Cardinality(Owed(c) \ {p}) = calls[c].left - 1
             /\ calls[c].left <= 1 => Owed(c) = {p}
  <2>1. Cardinality(Owed(c) \ {p}) = calls[c].left - 1 /\ IsFiniteSet(Owed(c) \ {p})
    BY <1>1, FS_RemoveElement
  <2>2. ASSUME calls[c].left <= 1 PROVE Owed(c) \ {p} = {}
    BY <2>1, <2>2, <1>1, FS_EmptySet, FS_CardinalityType
  <2> QED
    BY <2>1, <2>2
<1> QED
  BY <1>1, <1>2, <1>3

\* A new call finds the levels as they are then.
LEMMA EnableLevelKeeps ==
  ASSUME IInv, NEW l \in Levels, NEW on \in BOOLEAN, EnableLevel(l, on)
  PROVE  IInv' /\ (~overlapped' => (wanted \ wanted') \cap Needed' = {})
<1> DEFINE c == FreeSlot
           A == Needed' \ wanted
           X == wanted \ Needed'
<1>1. c \in Slots \ Busy
  BY DEF EnableLevel, FreeSlot, Busy
<1>2. /\ enabled' \subseteq Levels
      /\ ChangeActivation(c, A, X, pending)
      /\ overlapped' = (overlapped \/ Busy # {})
      /\ UNCHANGED <<active, failed>>
  BY DEF EnableLevel, IInv, Counted, TypeOK
<1>3. Needed' \subseteq Services
  <2>1. UNION {Members[k] : k \in enabled'} \subseteq Services
    BY <1>2, ServicesAssumption
  <2>2. Needed' = Expand(UNION {Members[k] : k \in enabled'})
    BY DEF Needed, Expand
  <2> QED
    BY <2>1, <2>2, ExpandIsWhole DEF Whole
<1>4. /\ TypeOK /\ wanted \subseteq Registered /\ calls \in [Slots -> CallType]
      /\ pending \subseteq AnswerType /\ IsFiniteSet(pending)
  BY DEF IInv, Counted, TypeOK, CallType, AnswerType
<1>5. A \in SUBSET Services /\ X \in SUBSET Services
  BY <1>3, <1>4, ServicesAssumption
<1>6. Owed(c) = {}
  BY <1>1, OwedAnswers DEF IInv
<1>7. Counted'
  <2>1. \A p \in pending : p.call # c
    BY <1>6 DEF Owed
  <2>2. \A d \in Slots : d # c => calls[d].left = Cardinality({p \in pending : p.call = d})
    BY DEF IInv, Counted, RoundsHonest
  <2>3. c \in Slots /\ pending \in SUBSET pending
    BY <1>1
  <2> HIDE DEF c, A, X
  <2>4. /\ wanted' \subseteq Registered /\ calls' \in [Slots -> CallType]
        /\ pending' \subseteq AnswerType /\ IsFiniteSet(pending') /\ RoundsHonest'
    BY <1>2, <1>4, <1>5, <2>1, <2>2, <2>3, RoundCounts
  <2>5. TypeOK'
    BY <2>4, <1>2, <1>4, Zenon DEF TypeOK, CallType, AnswerType
  <2> QED
    BY <2>4, <2>5 DEF Counted
<1>8. CASE overlapped'
  BY <1>7, <1>8 DEF IInv, StartOrder, LevelsObeyed
<1>9. CASE ~overlapped'
  <2>1. ~overlapped /\ Busy = {}
    BY <1>2, <1>9
  <2>2. \A d \in Slots : d # c => calls[d].left = 0
    BY <2>1, <1>4 DEF Busy, CallType
  <2>3. pending = {}
    <3>1. \A d \in Slots : Owed(d) = {}
      BY <2>1, OwedAnswers DEF IInv
    <3> QED
      BY <3>1, <1>4 DEF Owed, AnswerType
  <2>4. wanted \subseteq active' \cup failed'
    BY <2>1, <2>3, <1>2 DEF IInv, Orderly, Started
  <2>5. /\ A \subseteq Needed' /\ Needed' \subseteq A \cup wanted
        /\ X \cap Needed' = {} /\ wanted \subseteq X \cup Needed'
    OBVIOUS
  <2>6. c \in Slots /\ ChangeActivation(c, A, X, {})
    BY <1>1, <1>2, <2>3
  <2> HIDE DEF c, A, X
  <2>7. Orderly' /\ StartOrder' /\ LevelsObeyed' /\ (wanted \ wanted') \cap Needed' = {}
    BY <1>2, <1>4, <1>5, <2>2, <2>4, <2>5, <2>6, RoundKeepsOrder
  <2> QED
    BY <2>7, <1>7 DEF IInv
<1> QED
  BY <1>8, <1>9

\* An answer is counted; the last one of a round begins the next.
LEMMA AnswerKeeps ==
  ASSUME IInv, NEW p \in pending, NEW ok \in BOOLEAN, Answer(p, ok)
  PROVE  IInv' /\ (~overlapped' => (wanted \ wanted') \cap Needed' = {}) /\ Advance
<1> DEFINE c == p.call
           A == calls[c].activate
           X == calls[c].deactivate
<1>1. /\ TypeOK /\ wanted \subseteq Registered /\ calls \in [Slots -> CallType]
      /\ enabled \subseteq Levels
      /\ pending \subseteq AnswerType /\ IsFiniteSet(pending)
      /\ active \subseteq Registered /\ failed \subseteq Registered
  BY DEF IInv, Counted, TypeOK, CallType, AnswerType
<1>2. p.service \in Registered /\ c \in Slots /\ A \in SUBSET Services /\ X \in SUBSET Services
  BY <1>1 DEF AnswerType, CallType
<1>3. UNCHANGED <<enabled, overlapped>> /\ Needed' = Needed
  BY DEF Answer, Needed, Expand
<1>4. active' \subseteq Registered /\ failed' \subseteq Registered
  BY <1>1, <1>2 DEF Answer
<1>5. p \in Owed(c) /\ c \in Busy
  BY <1>1, <1>2, OwedAnswers DEF Owed, IInv
<1>6. /\ calls[c].left \in Nat /\ Cardinality(Owed(c) \ {p}) = calls[c].left - 1
      /\ calls[c].left <= 1 => Owed(c) = {p}
  BY <1>2, <1>5, OwedAnswers DEF IInv
\* The service that answers is as it was told, or has failed.
<1>7. ASSUME ~overlapped
      PROVE  /\ Orderly
             /\ \A s \in wanted : s \in active \cup failed \cup {p.service} => s \in active' \cup failed'
             /\ \A s \in active \cup failed : s \in active' \cup failed' \/ (~p.on /\ s = p.service)
  <2>1. Orderly /\ (p.on <=> p.service \in wanted)
    BY <1>7 DEF IInv, Orderly, Asked
  <2> QED
    BY <2>1 DEF Answer
<1>8. CASE calls[c].left <= 1
  <2>1. ChangeActivation(c, A, X, pending \ {p})
    BY <1>8 DEF Answer
  <2>2. \A q \in pending \ {p} : q.call # c
    BY <1>6, <1>8 DEF Owed
  <2>3. \A d \in Slots : d # c => calls[d].left = Cardinality({q \in pending \ {p} : q.call = d})
    <3>1. \A d \in Slots : d # c => {q \in pending \ {p} : q.call = d} = {q \in pending : q.call = d}
      OBVIOUS
    <3> QED
      BY <3>1 DEF IInv, Counted, RoundsHonest
  <2>4. Counted'
    <3> DEFINE owed == pending \ {p}
    <3>1. owed \in SUBSET pending
      OBVIOUS
    <3> HIDE DEF c, A, X, owed
    <3>2. /\ ChangeActivation(c, A, X, owed)
          /\ \A q \in owed : q.call # c
          /\ \A d \in Slots : d # c => calls[d].left = Cardinality({q \in owed : q.call = d})
      BY <2>1, <2>2, <2>3 DEF owed
    <3>3. /\ wanted' \subseteq Registered /\ calls' \in [Slots -> CallType]
          /\ pending' \subseteq AnswerType /\ IsFiniteSet(pending') /\ RoundsHonest'
      BY <1>1, <1>2, <3>1, <3>2, RoundCounts
    <3>4. TypeOK'
      BY <3>3, <1>1, <1>3, <1>4, Zenon DEF TypeOK, CallType, AnswerType
    <3> QED
      BY <3>3, <3>4 DEF Counted
  <2>5. CASE overlapped
    BY <2>4, <2>5, <1>3 DEF IInv, StartOrder, LevelsObeyed, Advance
  <2>6. CASE ~overlapped
    <3>1. \A d \in Slots : d # c => d \notin Busy
      BY <1>5, <1>7, <2>6 DEF Orderly, Alone
    <3>2. \A d \in Slots : d # c => calls[d].left = 0
      BY <3>1, <1>1 DEF Busy, CallType
    <3>3. pending = {p}
      <4>1. ASSUME NEW q \in pending PROVE q = p
        <5>1. q.call \in Slots /\ q \in Owed(q.call)
          BY <1>1 DEF AnswerType, Owed
        <5>2. q.call = c
          BY <5>1, <3>1, OwedAnswers DEF IInv
        <5> QED
          BY <5>1, <5>2, <1>6, <1>8
      <4> QED
        BY <4>1
    <3>4. ChangeActivation(c, A, X, {})
      <4>1. pending \ {p} = {}
        BY <3>3
      <4> QED
        BY <2>1, <4>1
    <3>5. wanted \subseteq active' \cup failed'
      BY <3>3, <1>7, <2>6 DEF Orderly, Started
    <3>6. /\ A \subseteq Needed' /\ Needed' \subseteq A \cup wanted
          /\ X \cap Needed' = {} /\ wanted \subseteq X \cup Needed'
      BY <1>3, <1>5, <1>7, <2>6 DEF Orderly, Heading
    <3> HIDE DEF c, A, X
    <3>7. enabled' \subseteq Levels
      BY <1>1, <1>3
    <3>8. /\ Orderly' /\ StartOrder' /\ LevelsObeyed' /\ (wanted \ wanted') \cap Needed' = {}
          /\ Busy' = {} \/ Fewer(Astray', Apart(Needed', wanted))
      BY <1>1, <1>2, <3>2, <3>4, <3>5, <3>6, <3>7, RoundKeepsOrder
    <3>9. Advance
      BY <3>8, <1>3 DEF Advance, Astray, Apart
    <3> QED
      BY <3>8, <3>9, <2>4 DEF IInv
  <2> QED
    BY <2>5, <2>6
<1>9. CASE ~(calls[c].left <= 1)
  <2>1. /\ calls' = [calls EXCEPT ![c].left = @ - 1]
        /\ pending' = pending \ {p}
        /\ wanted' = wanted
    BY <1>9 DEF Answer
  <2>2. /\ calls' \in [Slots -> CallType]
        /\ calls'[c].left = calls[c].left - 1
        /\ \A d \in Slots : /\ calls'[d].activate = calls[d].activate
                            /\ calls'[d].deactivate = calls[d].deactivate
                            /\ d # c => calls'[d].left = calls[d].left
    BY <2>1, <1>1, <1>2, <1>6, <1>9 DEF CallType
  <2>3. \A d \in Slots : d # c => {q \in pending' : q.call = d} = {q \in pending : q.call = d}
    BY <2>1
  <2>4. {q \in pending' : q.call = c} = Owed(c) \ {p}
    BY <2>1 DEF Owed
  <2>5. RoundsHonest'
    <3>1. ASSUME NEW d \in Slots PROVE calls'[d].left = Cardinality({q \in pending' : q.call = d})
      <4>1. CASE d = c
        BY <4>1, <2>2, <2>4, <1>6
      <4>2. CASE d # c
        BY <4>2, <2>2, <2>3 DEF IInv, Counted, RoundsHonest
      <4> QED
        BY <4>1, <4>2
    <3> QED
      BY <3>1 DEF RoundsHonest
  <2>6. IsFiniteSet(pending')
    BY <2>1, <1>1, FS_Subset
  <2>7. Counted'
    <3>1. wanted' \subseteq Registered /\ pending' \subseteq AnswerType
      BY <2>1, <1>1
    <3>2. TypeOK'
      BY <3>1, <2>2, <1>1, <1>3, <1>4, Zenon DEF TypeOK, CallType, AnswerType
    <3> QED
      BY <3>2, <2>5, <2>6 DEF Counted
  <2>8. Busy' = Busy
    <3>1. \A d \in Slots : calls'[d].left > 0 <=> calls[d].left > 0
      BY <2>2, <1>5, <1>6, <1>9 DEF Busy
    <3> QED
      BY <3>1 DEF Busy
  <2>9. ASSUME ~overlapped PROVE Orderly' /\ StartOrder'
    <3>1. Orderly /\ StartOrder
      BY <2>9, <1>7 DEF IInv
    <3>2. Alone' /\ Heading'
      <4>1. \A d \in Busy : d \in Slots
        BY DEF Busy
      <4> QED
        BY <4>1, <3>1, <2>1, <2>2, <2>8, <1>3 DEF Orderly, Alone, Heading
    <3>3. Asked'
      BY <3>1, <2>1 DEF Orderly, Asked
    <3>4. Started'
      <4>1. ASSUME NEW s \in wanted PROVE s \in active' \cup failed' \/ \E q \in pending' : q.service = s
        BY <4>1, <3>1, <2>1, <1>7, <2>9 DEF Orderly, Started
      <4> QED
        BY <4>1, <2>1 DEF Started
    <3>5. StartOrder'
      <4>1. ASSUME NEW q \in pending', q.on, NEW d \in Dependencies[q.service]
            PROVE d \in active' \cup failed'
        <5>1. q \in pending /\ d \in wanted /\ d \in active \cup failed
          BY <4>1, <2>1, <2>9, <3>1 DEF Orderly, Asked, StartOrder
        <5> QED
          BY <5>1, <1>7, <2>9
      <4> QED
        BY <4>1 DEF StartOrder
    <3> QED
      BY <3>2, <3>3, <3>4, <3>5 DEF Orderly
  <2>10. LevelsObeyed' /\ (wanted \ wanted') \cap Needed' = {}
    BY <2>1, <2>8, <1>5 DEF LevelsObeyed
  <2>11. Advance
    BY <2>1, <1>3 DEF Advance, Fewer, Astray
  <2> QED
    BY <2>7, <2>9, <2>10, <2>11, <1>3 DEF IInv, StartOrder
<1> QED
  BY <1>8, <1>9

-----------------------------------------------------------------------------
(* The theorems *)

\* The invariant is inductive, and no step of calls that do not overlap stops what
\* the levels need.
LEMMA NextKeeps ==
  ASSUME IInv, [Next]_vars
  PROVE  /\ IInv' /\ (~overlapped' => (wanted \ wanted') \cap Needed' = {})
         /\ Advance \/ UNCHANGED vars
<1>1. CASE Next
  <2>1. ASSUME NEW l \in Levels, NEW on \in BOOLEAN, EnableLevel(l, on)
        PROVE  IInv' /\ (~overlapped' => (wanted \ wanted') \cap Needed' = {}) /\ Advance
    <3>1. Advance
      BY <2>1 DEF EnableLevel, Advance
    <3> QED
      BY <2>1, <3>1, EnableLevelKeeps
  <2>2. ASSUME NEW s \in Registered, Respond(s)
        PROVE  IInv' /\ (~overlapped' => (wanted \ wanted') \cap Needed' = {}) /\ Advance
    <3>1. PICK p \in pending : \E ok \in Outcomes(s) : Answer(p, ok)
      BY <2>2 DEF Respond
    <3>2. PICK ok \in BOOLEAN : Answer(p, ok)
      BY <3>1 DEF Outcomes
    <3> QED
      BY <3>2, AnswerKeeps
  <2> QED
    BY <1>1, <2>1, <2>2 DEF Next
<1>2. CASE UNCHANGED vars
  <2>1. Busy' = Busy /\ Needed' = Needed
    BY <1>2 DEF vars, Busy, Needed, Expand
  <2>2. Counted'
    BY <1>2 DEF vars, IInv, Counted, TypeOK, RoundsHonest
  <2>3. (~overlapped => Orderly)'
    BY <1>2, <2>1 DEF vars, IInv, Orderly, Alone, Heading, Asked, Started
  <2>4. StartOrder' /\ LevelsObeyed'
    BY <1>2, <2>1 DEF vars, IInv, StartOrder, LevelsObeyed, DependentsMet
  <2> QED
    BY <2>2, <2>3, <2>4, <1>2 DEF IInv, vars
<1> QED
  BY <1>1, <1>2

\* What every reachable state satisfies.
THEOREM Invariant == Spec => []IInv
<1>1. IInv /\ [Next]_vars => IInv'
  BY NextKeeps
<1> QED
  BY InitHolds, <1>1, PTL DEF Spec

\* Every variable has its type.
THEOREM TypeCorrect == Spec => []TypeOK
<1>1. IInv => TypeOK
  BY DEF IInv, Counted
<1> QED
  BY Invariant, <1>1, PTL

\* Overlapping calls or not, the counter of a round is the number of answers still to
\* come: ServiceManager.cpp begins no round early and none twice.
THEOREM RoundsAreHonest == Spec => []RoundsHonest
<1>1. IInv => RoundsHonest
  BY DEF IInv, Counted
<1> QED
  BY Invariant, <1>1, PTL

\* As long as calls do not overlap, a service is started after everything it depends
\* on has been started or has failed, through all rounds and failures.
THEOREM StartsInOrder == Spec => []StartOrder
<1>1. IInv => StartOrder
  BY DEF IInv
<1> QED
  BY Invariant, <1>1, PTL

\* As long as calls do not overlap, a call ends with every service the levels need
\* wanted, as far as its dependencies exist, and leaves a service that nobody needs on
\* only where dependentsMet() forbids to stop it: one that depends on it is off.
THEOREM LevelsAreObeyed == Spec => []LevelsObeyed
<1>1. IInv => LevelsObeyed
  BY DEF IInv
<1> QED
  BY Invariant, <1>1, PTL

\* As long as calls do not overlap, no round of any call stops a service that the
\* levels enabled then need.
THEOREM NeededServicesStayOn == Spec => NeededStaysOn
<1>1. IInv /\ [Next]_vars => [~overlapped' => (wanted \ wanted') \cap Needed' = {}]_vars
  BY NextKeeps
<1> QED
  BY Invariant, <1>1, PTL DEF Spec, NeededStaysOn

\* A call that is not over has an answer to wait for, so that only services that stay
\* silent can keep it from going on: overlapping calls or not, no round of
\* changeActivation() is left without anyone who would begin the next.
THEOREM CallsAreWaiting == Spec => []CallWaits
<1>1. IInv => CallWaits
  <2> SUFFICES ASSUME IInv, NEW c \in Busy PROVE \E p \in pending : p.call = c
    BY DEF CallWaits
  <2>1. c \in Slots /\ Owed(c) # {}
    BY OwedAnswers DEF IInv, Busy
  <2> QED
    BY <2>1 DEF Owed
<1> QED
  BY Invariant, <1>1, PTL

\* As long as calls do not overlap, every answer ends the call, or brings the services
\* nearer to what the levels want, or leaves fewer answers to wait for: with finitely many
\* services the rounds of changeActivation() come to an end when the services answer.
THEOREM NoEndlessRounds == Spec => EveryAnswerCounts
<1>1. IInv /\ [Next]_vars =>
          [~overlapped' /\ Busy # {} =>
              \/ Busy' = {}
              \/ Astray' \subseteq Astray /\ Astray' # Astray
              \/ Astray' = Astray /\ pending' \subseteq pending /\ pending' # pending]_vars
  BY NextKeeps DEF Advance, Fewer
<1> QED
  BY Invariant, <1>1, PTL DEF Spec, EveryAnswerCounts
=============================================================================
