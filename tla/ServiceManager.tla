--------------------------- MODULE ServiceManager ---------------------------
(***************************************************************************)
(* The services of a node and the levels that switch them: libservice      *)
(* (ServiceLevelManager.cpp, ServiceManager.cpp, Service.cpp).             *)
(*                                                                         *)
(* enableLevel() computes which services the enabled levels need and asks  *)
(* the manager to start and stop the difference.  changeActivation() works *)
(* in rounds: it tells every service it can start or stop now, which is    *)
(* wanted from then on; the services answer later, each in its own time;   *)
(* the last answer of a round begins the next one.  Nothing keeps a second *)
(* enableLevel() from being called meanwhile.                              *)
(*                                                                         *)
(* A service that answers before serviceChangeActivation() returns is one  *)
(* that answers at once.  Services and members of levels are registered    *)
(* before the first level is enabled and stay what they are.               *)
(***************************************************************************)
EXTENDS Integers, FiniteSets

CONSTANTS
    Services,    \* the names that services, levels and dependencies mention
    Registered,  \* those with a service behind them
    Depends,     \* the dependencies a service states
    Levels,      \* the service levels
    Members,     \* the services a level names
    Slots,       \* bound: calls of changeActivation() at the same time
    CanFail,     \* the services that may answer that they failed
    Silent       \* the services that may never answer

ASSUME ServicesAssumption ==
    /\ IsFiniteSet(Services)
    /\ Registered \subseteq Services
    /\ Depends \in [Registered -> SUBSET Services]
    /\ Members \in [Levels -> SUBSET Services]

-----------------------------------------------------------------------------
(* Dependencies *)

Closed(set) == \A s \in set \cap Registered : Depends[s] \subseteq set

\* dependencies(): all that a service needs, directly or not.  A name without a
\* service needs nothing.
Dependencies ==
    [s \in Services |->
        IF s \in Registered
        THEN {d \in Services : \A set \in SUBSET Services :
                                   Depends[s] \subseteq set /\ Closed(set) => d \in set}
        ELSE {}]

\* dependents(): all that need a service.
Dependents == [s \in Services |-> {t \in Registered : s \in Registered /\ s \in Dependencies[t]}]

\* dependencies() calls itself and would never end on a circle.
ASSUME NoCircle == \A s \in Registered : s \notin Dependencies[s]

Expand(set) == set \cup UNION {Dependencies[s] : s \in set}

\* dependenciesMet() and dependentsMet(), with on the services that are wanted.
\* Both ask for services that are wanted.
\* Mutant: nothing is an obstacle.
DependenciesMetAnyway(s, on) == s \in Registered
DependenciesMet(s, on) == s \in Registered /\ Dependencies[s] \subseteq on
DependentsMet(s, on) == Dependents[s] \subseteq on

\* nextActivatableInSet(): the services of a set that can be started (stopped)
\* now, and where one of them must wait, those it waits for.  Dependencies are
\* transitive, so the recursion finds nothing new beyond its first level.
Activatable(set, on) ==
    LET waiting == {s \in set \ on : ~DependenciesMet(s, on)}
    IN  {s \in set \cup UNION {Dependencies[w] : w \in waiting} :
            s \notin on /\ DependenciesMet(s, on)}
Deactivatable(set, on) ==
    LET waiting == {s \in set \cap on : ~DependentsMet(s, on)}
    IN  {s \in set \cup UNION {Dependents[w] : w \in waiting} :
            s \in on /\ DependentsMet(s, on)}

-----------------------------------------------------------------------------

VARIABLES
    enabled,    \* the levels that are enabled
    wanted,     \* the services with mActiveWanted
    active,     \* the services with mActive
    calls,      \* the calls of changeActivation() that are not over
    pending,    \* the answers that services still owe
    failed,     \* history: services whose last answer was a failure
    overlapped  \* history: a call began before another one was over

vars == <<enabled, wanted, active, calls, pending, failed, overlapped>>

NoCall == [activate |-> {}, deactivate |-> {}, left |-> 0]
Busy == {c \in Slots : calls[c].left > 0}
FreeSlot == CHOOSE c \in Slots : c \notin Busy

\* What the enabled levels need.
Needed == Expand(UNION {Members[l] : l \in enabled})

Init ==
    /\ enabled = {} /\ wanted = {} /\ active = {}
    /\ calls = [c \in Slots |-> NoCall]
    /\ pending = {} /\ failed = {} /\ overlapped = FALSE

\* changeActivation(): one round, with the answers that are still owed to others.
\* When nothing is left to change the callback is called and the call is over.
\* Mutant: only the services that start are counted.
ChangeActivationCountUp(c, activate, deactivate, owed) ==
    LET up == Activatable(activate, wanted)
        down == Deactivatable(deactivate, wanted) \ up
        changing == up \cup down
    IN  /\ wanted' = (wanted \cup up) \ down
        /\ pending' = owed \cup {[service |-> s, on |-> s \in up, call |-> c] : s \in changing}
        /\ calls' = [calls EXCEPT ![c] =
                        IF changing = {} THEN NoCall
                        ELSE [activate |-> activate, deactivate |-> deactivate,
                              left |-> Cardinality(up)]]
ChangeActivation(c, activate, deactivate, owed) ==
    LET up == Activatable(activate, wanted)
        down == Deactivatable(deactivate, wanted) \ up
        changing == up \cup down
    IN  /\ wanted' = (wanted \cup up) \ down
        /\ pending' = owed \cup {[service |-> s, on |-> s \in up, call |-> c] : s \in changing}
        /\ calls' = [calls EXCEPT ![c] =
                        IF changing = {} THEN NoCall
                        ELSE [activate |-> activate, deactivate |-> deactivate,
                              left |-> Cardinality(changing)]]

\* enableLevel() and synchronizeServiceManager().
\* Mutant: what the levels name is kept, not what that depends on.
EnableLevelByName(l, on) ==
    /\ Busy # Slots
    /\ enabled' = IF on THEN enabled \cup {l} ELSE enabled \ {l}
    /\ ChangeActivation(FreeSlot, Needed' \ wanted,
                        wanted \ UNION {Members[k] : k \in enabled'}, pending)
    /\ overlapped' = (overlapped \/ Busy # {})
    /\ UNCHANGED <<active, failed>>
EnableLevel(l, on) ==
    /\ Busy # Slots
    /\ enabled' = IF on THEN enabled \cup {l} ELSE enabled \ {l}
    /\ ChangeActivation(FreeSlot, Needed' \ wanted, wanted \ Needed', pending)
    /\ overlapped' = (overlapped \/ Busy # {})
    /\ UNCHANGED <<active, failed>>

Outcomes(s) == IF s \in CanFail THEN BOOLEAN ELSE {TRUE}

\* The callback of a service that has started or stopped, or failed to.
\* Mutants: a failure does not count as an answer; there is one round only.
AnswerIfOk(p, ok) ==
    /\ active' = IF ~ok THEN active
                 ELSE IF p.on THEN active \cup {p.service} ELSE active \ {p.service}
    /\ failed' = IF ok THEN failed \ {p.service} ELSE failed \cup {p.service}
    /\ LET call == calls[p.call]
       IN IF call.left <= 1 /\ ok
          THEN ChangeActivation(p.call, call.activate, call.deactivate, pending \ {p})
          ELSE /\ calls' = IF ok THEN [calls EXCEPT ![p.call].left = @ - 1] ELSE calls
               /\ pending' = pending \ {p}
               /\ UNCHANGED wanted
    /\ UNCHANGED <<enabled, overlapped>>
AnswerOnce(p, ok) ==
    /\ active' = IF ~ok THEN active
                 ELSE IF p.on THEN active \cup {p.service} ELSE active \ {p.service}
    /\ failed' = IF ok THEN failed \ {p.service} ELSE failed \cup {p.service}
    /\ calls' = IF calls[p.call].left <= 1 THEN [calls EXCEPT ![p.call] = NoCall]
                ELSE [calls EXCEPT ![p.call].left = @ - 1]
    /\ pending' = pending \ {p}
    /\ UNCHANGED <<wanted, enabled, overlapped>>
Answer(p, ok) ==
    /\ active' = IF ~ok THEN active
                 ELSE IF p.on THEN active \cup {p.service} ELSE active \ {p.service}
    /\ failed' = IF ok THEN failed \ {p.service} ELSE failed \cup {p.service}
    /\ LET call == calls[p.call]
       IN IF call.left <= 1
          THEN ChangeActivation(p.call, call.activate, call.deactivate, pending \ {p})
          ELSE /\ calls' = [calls EXCEPT ![p.call].left = @ - 1]
               /\ pending' = pending \ {p}
               /\ UNCHANGED wanted
    /\ UNCHANGED <<enabled, overlapped>>

Respond(s) == \E p \in pending : p.service = s /\ \E ok \in Outcomes(s) : Answer(p, ok)

Next ==
    \/ \E l \in Levels, on \in BOOLEAN : EnableLevel(l, on)
    \/ \E s \in Registered : Respond(s)

Spec == Init /\ [][Next]_vars

\* A service answers, unless it is one that may not.
Fairness == \A s \in Registered \ Silent : WF_vars(Respond(s))

FairSpec == Spec /\ Fairness

-----------------------------------------------------------------------------
(* Properties *)

\* Every variable has its type.
TypeOK ==
    /\ enabled \subseteq Levels
    /\ {wanted, active, failed} \subseteq SUBSET Registered
    /\ calls \in [Slots -> [activate : SUBSET Services, deactivate : SUBSET Services, left : Nat]]
    /\ pending \subseteq [service : Registered, on : BOOLEAN, call : Slots]
    /\ overlapped \in BOOLEAN

\* The counter of a round is the number of answers that are still to come: no
\* round begins before its predecessor is over, and none is begun twice.
RoundsHonest ==
    \A c \in Slots : calls[c].left = Cardinality({p \in pending : p.call = c})

\* While a service is being started, everything it depends on has been started
\* before, or has answered that it failed.
StartOrder ==
    ~overlapped => \A p \in pending : p.on => Dependencies[p.service] \subseteq active \cup failed

\* What an enabled level needs is never stopped.
NeededStaysOn == [][~overlapped' => (wanted \ wanted') \cap Needed' = {}]_vars

\* When a call is over, what the levels need is wanted, as far as there are
\* services for it; and a service that nobody needs has been stopped unless one
\* that depends on it was off.
LevelsObeyed ==
    Busy = {} /\ ~overlapped =>
        /\ \A s \in Needed : s \in Registered /\ Dependencies[s] \subseteq Registered => s \in wanted
        /\ \A s \in wanted \ Needed : ~DependentsMet(s, wanted)

\* A call that is alone comes to its end, if the services answer at all.
CallReturns ==
    \A c \in Slots :
        c \in Busy ~> \/ c \notin Busy \/ overlapped
                      \/ \E p \in pending : p.service \in Silent

(* What has to be so of states and of steps for a call to end.             *)

\* A call that is not over waits for an answer: it never stands still by itself.
CallWaits == \A c \in Busy : \E p \in pending : p.call = c

\* The services that are not as the levels want them.
Astray == (Needed \ wanted) \cup (wanted \ Needed)

\* An answer to a call that is alone ends it, or leaves fewer services astray, or
\* leaves fewer answers to wait for: it cannot go round for ever.
EveryAnswerCounts ==
    [][~overlapped' /\ Busy # {} =>
          \/ Busy' = {}
          \/ Astray' \subseteq Astray /\ Astray' # Astray
          \/ Astray' = Astray /\ pending' \subseteq pending /\ pending' # pending]_vars

\* When a call is over, a service that no enabled level needs is off.
UnneededStops == Busy = {} /\ ~overlapped => wanted \subseteq Needed
=============================================================================
