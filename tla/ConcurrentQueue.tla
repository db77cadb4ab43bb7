-------------------------- MODULE ConcurrentQueue --------------------------
(***************************************************************************)
(* The blocking queue of libutil/utility/concurrent/ConcurrentQueue.hpp:   *)
(* a list guarded by a mutex, two wait conditions (not empty, not full), a *)
(* "done" flag that is read and written WITHOUT the mutex, and the         *)
(* activation flag of ConfigureHelper in front of every operation.         *)
(*                                                                         *)
(* A critical section that neither reads "done" nor waits half-way is one  *)
(* step.  The section of get() reads "done" and only afterwards enters the *)
(* wait condition, so it is two steps with the mutex held in between:      *)
(* activate(false), which takes no mutex, can fall between them.           *)
(***************************************************************************)
EXTENDS Integers, Sequences, FiniteSets

CONSTANTS
    Producers,   \* threads that call put()
    Consumers,   \* threads that call get() and tryGet()
    Capacity,    \* mCapacity; 0 means unbounded
    MaxPuts,     \* bound: calls of put() per producer
    NoThread     \* the mutex has no owner

ASSUME ThreadsAssumption ==
    /\ Producers \cap Consumers = {}
    /\ NoThread \notin Producers \cup Consumers
ASSUME CapacityAssumption == Capacity \in Nat
ASSUME MaxPutsAssumption == MaxPuts \in Nat

VARIABLES
    items,       \* mItems, oldest first
    active,      \* mConfigureHelper.mIsActive
    done,        \* mDone
    lock,        \* owner of mMutex between two steps
    notEmpty,    \* threads inside mNotEmpty.wait
    notFull,     \* threads inside mNotFull.wait
    pc,          \* where each thread is
    ctl,         \* where the thread calling activate() is
    puts,        \* history: calls of put() so far, per producer
    pushed,      \* history: every item that entered the list, in order
    taken        \* history: every item a consumer got, in order

vars == <<items, active, done, lock, notEmpty, notFull, pc, ctl, puts, pushed, taken>>
history == <<puts, pushed, taken>>

Threads == Producers \cup Consumers
Items == Producers \X Nat

ProducerPC == {"idle", "putActive", "putLock", "putWait"}
ConsumerPC == {"idle", "getLock", "getToWait", "getWait", "tryLock", "notify", "relock"}
ControlPC == {"idle", "setDone", "wakeNotFull", "wakeNotEmpty"}

Init ==
    /\ items = <<>>
    /\ active = FALSE
    /\ done = FALSE
    /\ lock = NoThread
    /\ notEmpty = {}
    /\ notFull = {}
    /\ pc = [t \in Threads |-> "idle"]
    /\ ctl = "idle"
    /\ puts = [p \in Producers |-> 0]
    /\ pushed = <<>>
    /\ taken = <<>>

Goto(t, l) == pc' = [pc EXCEPT ![t] = l]
Locked == lock # NoThread

\* Mutant: a limit that is one too high.
FullTooLate == Capacity > 0 /\ Len(items) > Capacity
\* The test of put() before it waits.
Full == Capacity > 0 /\ Len(items) >= Capacity

\* Mutant: the last item of the list is overlooked.
EmptyOffByOne == Len(items) <= 1
\* The test of get() and tryGet().
Empty == Len(items) <= 0

-----------------------------------------------------------------------------
(* put() *)

\* The item a producer is putting: its name and the number of its call.
Item(p) == <<p, puts[p]>>

\* put() on a queue that is not active ignores the item.
PutBegin(p) ==
    /\ pc[p] = "idle"
    /\ puts[p] < MaxPuts
    /\ puts' = [puts EXCEPT ![p] = @ + 1]
    /\ IF active THEN Goto(p, "putActive") ELSE UNCHANGED pc
    /\ UNCHANGED <<items, active, done, lock, notEmpty, notFull, ctl, pushed, taken>>

\* `if(!mDone)', before the mutex is taken.
PutCheckDone(p) ==
    /\ pc[p] = "putActive"
    /\ Goto(p, IF done THEN "idle" ELSE "putLock")
    /\ UNCHANGED <<items, active, done, lock, notEmpty, notFull, ctl, history>>

\* Mutants: the newest item is pushed at the end the consumers take from, and
\* a push that wakes nobody.
PushAtHead(p) ==
    /\ items' = <<Item(p)>> \o items
    /\ pushed' = Append(pushed, Item(p))
    /\ notEmpty' = {}
    /\ Goto(p, "idle")
PushSilently(p) ==
    /\ items' = Append(items, Item(p))
    /\ pushed' = Append(pushed, Item(p))
    /\ UNCHANGED notEmpty
    /\ Goto(p, "idle")

\* push_front, mNotEmpty.wakeAll and the return.
Push(p) ==
    /\ items' = Append(items, Item(p))
    /\ pushed' = Append(pushed, Item(p))
    /\ notEmpty' = {}
    /\ Goto(p, "idle")

\* The critical section up to the push, or up to mNotFull.wait.
PutLocked(p) ==
    /\ pc[p] = "putLock"
    /\ ~Locked
    /\ \/ /\ Full
          /\ notFull' = notFull \cup {p}
          /\ Goto(p, "putWait")
          /\ UNCHANGED <<items, pushed, notEmpty>>
       \/ /\ ~Full
          /\ Push(p)
          /\ UNCHANGED notFull
    /\ UNCHANGED <<active, done, lock, ctl, puts, taken>>

\* mNotFull.wait returned: the item is pushed, nothing is looked at again.
PutResume(p) ==
    /\ pc[p] = "putWait"
    /\ p \notin notFull
    /\ ~Locked
    /\ Push(p)
    /\ UNCHANGED <<active, done, lock, notFull, ctl, puts, taken>>

-----------------------------------------------------------------------------
(* get() and tryGet() *)

\* The pop and the decision to signal not-full.  The code names `isFull' what
\* is true when there is room, so it signals only when the list is over-full.
Take(c) ==
    LET wasFull == Len(items) >= Capacity
        isFull  == Len(items) - 1 < Capacity
    IN  /\ items' = Tail(items)
        /\ taken' = Append(taken, Head(items))
        /\ Goto(c, IF Capacity > 0 /\ wasFull /\ ~isFull THEN "notify" ELSE "idle")

GetBegin(c) ==
    /\ pc[c] = "idle"
    /\ active
    /\ Goto(c, "getLock")
    /\ UNCHANGED <<items, active, done, lock, notEmpty, notFull, ctl, history>>

\* With the mutex (again): leave because done, take, or prepare to wait.
GetCheck(c) ==
    /\ \/ pc[c] = "getLock"
       \/ pc[c] = "getWait" /\ c \notin notEmpty
    /\ ~Locked
    /\ \/ /\ done
          /\ Goto(c, "idle")
          /\ UNCHANGED <<items, lock, taken>>
       \/ /\ ~done
          /\ ~Empty
          /\ Take(c)
          /\ UNCHANGED lock
       \/ /\ ~done
          /\ Empty
          /\ lock' = c
          /\ Goto(c, "getToWait")
          /\ UNCHANGED <<items, taken>>
    /\ UNCHANGED <<active, done, notEmpty, notFull, ctl, puts, pushed>>

\* mNotEmpty.wait releases the mutex and starts waiting in one step.
GetWait(c) ==
    /\ pc[c] = "getToWait"
    /\ lock' = NoThread
    /\ notEmpty' = notEmpty \cup {c}
    /\ Goto(c, "getWait")
    /\ UNCHANGED <<items, active, done, notFull, ctl, history>>

\* Mutant: the wait of get() has no time limit.
GetNeverTimesOut(c) == c \in notEmpty /\ FALSE

\* The wait of get() is limited to timeOutMillis.
GetTimeout(c) ==
    /\ c \in notEmpty
    /\ notEmpty' = notEmpty \ {c}
    /\ UNCHANGED <<items, active, done, lock, notFull, pc, ctl, history>>

TryGetBegin(c) ==
    /\ pc[c] = "idle"
    /\ active
    /\ Goto(c, "tryLock")
    /\ UNCHANGED <<items, active, done, lock, notEmpty, notFull, ctl, history>>

\* tryGet() never looks at mDone.
TryGet(c) ==
    /\ pc[c] = "tryLock"
    /\ ~Locked
    /\ \/ /\ Empty
          /\ Goto(c, "idle")
          /\ UNCHANGED <<items, taken>>
       \/ /\ ~Empty
          /\ Take(c)
    /\ UNCHANGED <<active, done, lock, notEmpty, notFull, ctl, puts, pushed>>

\* mNotFull.wakeAll between the unlock and the relock, then the return.
Notify(c) ==
    /\ pc[c] = "notify"
    /\ notFull' = {}
    /\ Goto(c, "relock")
    /\ UNCHANGED <<items, active, done, lock, notEmpty, ctl, history>>

Relock(c) ==
    /\ pc[c] = "relock"
    /\ ~Locked
    /\ Goto(c, "idle")
    /\ UNCHANGED <<items, active, done, lock, notEmpty, notFull, ctl, history>>

-----------------------------------------------------------------------------
(* activate(), from one controlling thread; it never takes the mutex. *)

Activate ==
    /\ ctl = "idle"
    /\ ~active
    /\ active' = TRUE
    /\ UNCHANGED <<items, done, lock, notEmpty, notFull, pc, ctl, history>>

Deactivate ==
    /\ ctl = "idle"
    /\ active
    /\ active' = FALSE
    /\ ctl' = "setDone"
    /\ UNCHANGED <<items, done, lock, notEmpty, notFull, pc, history>>

SetDone ==
    /\ ctl = "setDone"
    /\ done' = TRUE
    /\ ctl' = "wakeNotFull"
    /\ UNCHANGED <<items, active, lock, notEmpty, notFull, pc, history>>

WakeNotFull ==
    /\ ctl = "wakeNotFull"
    /\ notFull' = {}
    /\ ctl' = "wakeNotEmpty"
    /\ UNCHANGED <<items, active, done, lock, notEmpty, pc, history>>

WakeNotEmpty ==
    /\ ctl = "wakeNotEmpty"
    /\ notEmpty' = {}
    /\ ctl' = "idle"
    /\ UNCHANGED <<items, active, done, lock, notFull, pc, history>>

-----------------------------------------------------------------------------

\* The steps of a call of put() that has begun.
PutStep(p) == PutCheckDone(p) \/ PutLocked(p) \/ PutResume(p)
\* The steps of a call of get() or tryGet() that has begun.
GetStep(c) ==
    \/ GetCheck(c) \/ GetWait(c) \/ GetTimeout(c)
    \/ TryGet(c) \/ Notify(c) \/ Relock(c)
\* The steps of a call of activate(false) that has begun.
DeactivateStep == SetDone \/ WakeNotFull \/ WakeNotEmpty

Next ==
    \/ \E p \in Producers : PutBegin(p) \/ PutStep(p)
    \/ \E c \in Consumers : GetBegin(c) \/ TryGetBegin(c) \/ GetStep(c)
    \/ Activate
    \/ Deactivate
    \/ DeactivateStep

Spec == Init /\ [][Next]_vars

\* A thread inside a call keeps running; nobody has to make a call.  A thread
\* waiting for the mutex gets it in the end: the other threads hold it for a
\* moment and a polling consumer then sleeps for up to a second.
Fairness ==
    /\ \A p \in Producers : SF_vars(PutStep(p))
    /\ \A c \in Consumers : WF_vars(GetStep(c))
    /\ WF_vars(DeactivateStep)

FairSpec == Spec /\ Fairness

\* The consumers loop on get(), as the worker of AsyncStore does.
PollingSpec == FairSpec /\ \A c \in Consumers : WF_vars(GetBegin(c))

-----------------------------------------------------------------------------
(* What the queue promises its callers: see QueuePromise. *)

In(threads, labels) == {t \in threads : pc[t] \in labels}

Promise == INSTANCE QueuePromise WITH
    closed <- done,
    inside <- items,
    delivered <- taken,
    number <- puts,
    putting <- In(Producers, {"putActive", "putLock", "putWait"}),
    getting <- In(Consumers, {"getLock", "getToWait", "getWait"}),
    trying <- In(Consumers, {"tryLock"})

\* The queue, with its mutex, conditions and time-outs, implements that promise.
KeepsPromise == Promise!Spec

-----------------------------------------------------------------------------
(* Properties *)

\* Every variable has its type.
TypeOK ==
    /\ items \in Seq(Items)
    /\ active \in BOOLEAN
    /\ done \in BOOLEAN
    /\ lock \in Consumers \cup {NoThread}
    /\ notEmpty \subseteq Consumers
    /\ notFull \subseteq Producers
    /\ pc \in [Threads -> ProducerPC \cup ConsumerPC]
    /\ \A p \in Producers : pc[p] \in ProducerPC
    /\ \A c \in Consumers : pc[c] \in ConsumerPC
    /\ ctl \in ControlPC
    /\ puts \in [Producers -> Nat]
    /\ pushed \in Seq(Items)
    /\ taken \in Seq(Items)

\* Items leave in the order they entered, none is lost and none is delivered
\* twice, whatever get(), tryGet(), put() and activate() interleave.
FIFO == pushed = taken \o items

\* No lost wake-up on the consumer side: while a consumer sleeps in mNotEmpty
\* the list is empty, because whoever pushes wakes every sleeper.
NoSleepOnItems == notEmpty # {} => items = <<>>

\* The mutex is held between two steps only by the consumer that found the
\* list empty and is about to wait, and the list stays empty until it waits.
LockHolder ==
    /\ \A c \in Consumers : pc[c] = "getToWait" <=> lock = c
    /\ Locked => items = <<>>

\* The items of one producer enter, and so leave, in the order of its calls,
\* one for each call at most.
InCallOrder ==
    \A i, j \in 1..Len(pushed) :
        i < j /\ pushed[i][1] = pushed[j][1] => pushed[i][2] < pushed[j][2]

\* Until activate(false) sets mDone the list never exceeds its capacity,
\* although put() does not look again after it waited.
CapacityUntilDone == Capacity > 0 /\ ~done => Len(items) <= Capacity

\* activate(false) lets every consumer go, even the one that read mDone just
\* before it was set and went to sleep after the wake-up: the wait times out.
ConsumersReleased ==
    \A c \in Consumers : (done /\ pc[c] # "idle") ~> pc[c] = "idle"

\* What entered the list is delivered, unless the queue is deactivated.
Delivered ==
    \A n \in 1..(MaxPuts * Cardinality(Producers)) :
        Len(pushed) >= n ~> Len(taken) >= n \/ done

\* The queue signals not-full when room appears ("Signaling not-full"): a
\* producer blocked on a list that has room again gets to put its item.
BlockedPutResumes ==
    \A p \in Producers :
        (pc[p] = "putWait" /\ ~Full /\ ~done) ~> pc[p] = "idle"

\* The inductive invariant the proofs use.  Until done, a producer that waits
\* has not been woken, because a list within its capacity never takes the
\* branch of Take that signals not-full, and only activate(false) wakes.
IInv ==
    /\ TypeOK
    /\ FIFO
    /\ LockHolder
    /\ NoSleepOnItems
    /\ CapacityUntilDone
    /\ ctl \in {"wakeNotFull", "wakeNotEmpty"} => done
    /\ ctl # "idle" => ~active
    /\ ~done => /\ \A p \in Producers : pc[p] = "putWait" => p \in notFull
                /\ \A c \in Consumers : pc[c] # "notify"
=============================================================================
