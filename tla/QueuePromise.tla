---------------------------- MODULE QueuePromise ----------------------------
(***************************************************************************)
(* What ConcurrentQueue promises its callers, without mutex, conditions or *)
(* program counters: a list that items enter and leave in one step each.   *)
(*                                                                         *)
(* A call of put() whose item is accepted adds it at most once, and only   *)
(* where there is room as long as the queue is not closed.  A call of      *)
(* get() takes one item and comes back without one only when the queue is  *)
(* closed; a call of tryGet() comes back without one only from an empty    *)
(* list.                                                                   *)
(***************************************************************************)
EXTENDS Integers, Sequences

CONSTANTS Producers, Consumers, Capacity

VARIABLES
    active,     \* calls are accepted
    closed,     \* set when the queue is deactivated, and never reset
    inside,     \* the list, oldest first: producer and number of its call
    delivered,  \* what consumers took, in order
    number,     \* calls of put() so far, per producer
    putting,    \* producers whose item is accepted and not yet in the list
    getting,    \* consumers in get() that have no item yet
    trying      \* consumers in tryGet() that have no item yet

vars == <<active, closed, inside, delivered, number, putting, getting, trying>>
switches == <<active, closed>>
list == <<inside, delivered>>
producing == <<number, putting>>
consuming == <<getting, trying>>

Room == Capacity = 0 \/ Len(inside) < Capacity

Init ==
    /\ active = FALSE /\ closed = FALSE
    /\ inside = <<>> /\ delivered = <<>>
    /\ number = [p \in Producers |-> 0]
    /\ putting = {} /\ getting = {} /\ trying = {}

\* activate(): nothing is closed before the queue is deactivated.
Switch ==
    /\ active' = ~active
    /\ UNCHANGED <<closed, list, producing, consuming>>
Close ==
    /\ ~active
    /\ closed' = TRUE
    /\ UNCHANGED <<active, list, producing, consuming>>

\* An inactive queue ignores the call.
Put(p) ==
    /\ p \notin putting
    /\ number' = [number EXCEPT ![p] = @ + 1]
    /\ putting' = IF active THEN putting \cup {p} ELSE putting
    /\ UNCHANGED <<switches, list, consuming>>

Enter(p) ==
    /\ p \in putting
    /\ Room \/ closed
    /\ inside' = Append(inside, <<p, number[p]>>)
    /\ putting' = putting \ {p}
    /\ UNCHANGED <<switches, delivered, number, consuming>>

Refuse(p) ==
    /\ p \in putting
    /\ closed
    /\ putting' = putting \ {p}
    /\ UNCHANGED <<switches, list, number, consuming>>

Ask(c) ==
    /\ active
    /\ c \notin getting \cup trying
    /\ \/ getting' = getting \cup {c} /\ UNCHANGED trying
       \/ trying' = trying \cup {c} /\ UNCHANGED getting
    /\ UNCHANGED <<switches, list, producing>>

\* The call has its item, or comes back without one.
Answered(c) == getting' = getting \ {c} /\ trying' = trying \ {c}

Deliver(c) ==
    /\ c \in getting \cup trying
    /\ inside # <<>>
    /\ delivered' = Append(delivered, Head(inside))
    /\ inside' = Tail(inside)
    /\ Answered(c)
    /\ UNCHANGED <<switches, producing>>

ComeBackEmpty(c) ==
    /\ \/ c \in getting /\ closed
       \/ c \in trying /\ inside = <<>>
    /\ Answered(c)
    /\ UNCHANGED <<switches, list, producing>>

Next ==
    \/ Switch \/ Close
    \/ \E p \in Producers : Put(p) \/ Enter(p) \/ Refuse(p)
    \/ \E c \in Consumers : Ask(c) \/ Deliver(c) \/ ComeBackEmpty(c)

Spec == Init /\ [][Next]_vars
=============================================================================
