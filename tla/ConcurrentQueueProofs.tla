----------------------- MODULE ConcurrentQueueProofs -----------------------
(***************************************************************************)
(* Proofs about ConcurrentQueue for any producers, consumers and capacity. *)
(***************************************************************************)
EXTENDS ConcurrentQueue, SequenceTheorems, TLAPS

\* Moving the head of the list to the end of the history keeps it as well.
LEMMA FIFOTake ==
    ASSUME NEW S, NEW s \in Seq(S), NEW t \in Seq(S), t # <<>>
    PROVE  s \o t = Append(s, Head(t)) \o Tail(t)
<1>1. /\ Head(t) \in S
      /\ Tail(t) \in Seq(S)
      /\ t = <<Head(t)>> \o Tail(t)
  BY HeadTailProperties
<1>2. <<Head(t)>> \in Seq(S) /\ Append(s, Head(t)) = s \o <<Head(t)>>
  BY <1>1, AppendIsConcat
<1> QED
  BY <1>1, <1>2, ConcatAssociative
-----------------------------------------------------------------------------

\* The test on the size is a test for the empty list.
LEMMA EmptyList == ASSUME TypeOK PROVE Empty <=> items = <<>>
  BY EmptySeq, LenProperties DEF TypeOK, Empty

\* The part of TypeOK about program counters.
PCType ==
    /\ pc \in [Threads -> ProducerPC \cup ConsumerPC]
    /\ \A p \in Producers : pc[p] \in ProducerPC
    /\ \A c \in Consumers : pc[c] \in ConsumerPC

\* A jump of a producer to a producer's label is well typed.
LEMMA ProducerGoto ==
    ASSUME PCType, NEW p \in Producers, NEW l \in ProducerPC, Goto(p, l)
    PROVE  PCType'
  BY ThreadsAssumption DEF PCType, Goto, Threads

\* A jump of a consumer to a consumer's label is well typed.
LEMMA ConsumerGoto ==
    ASSUME PCType, NEW c \in Consumers, NEW l \in ConsumerPC, Goto(c, l)
    PROVE  PCType'
  BY ThreadsAssumption DEF PCType, Goto, Threads

\* Every variable keeps its type.
LEMMA TypeInductive == TypeOK /\ [Next]_vars => TypeOK'
<1> SUFFICES ASSUME TypeOK, [Next]_vars PROVE TypeOK'
  OBVIOUS
<1> USE DEF TypeOK, history
<1>0. /\ PCType
      /\ {"idle", "putActive", "putLock", "putWait"} \subseteq ProducerPC
      /\ {"idle", "getLock", "getToWait", "getWait", "tryLock", "notify", "relock"}
            \subseteq ConsumerPC
  BY DEF PCType, ProducerPC, ConsumerPC
<1>1. ASSUME NEW p \in Producers, PutBegin(p) PROVE TypeOK'
  <2>1. PCType'
    BY <1>0, <1>1, ProducerGoto DEF PutBegin, PCType
  <2>2. puts' \in [Producers -> Nat]
    BY <1>1 DEF PutBegin
  <2> QED
    BY <1>1, <2>1, <2>2 DEF PutBegin, PCType
<1>2. ASSUME NEW p \in Producers, PutCheckDone(p) PROVE TypeOK'
  <2>1. PCType'
    BY <1>0, <1>2, ProducerGoto DEF PutCheckDone
  <2> QED
    BY <1>2, <2>1 DEF PutCheckDone, PCType
<1>3. ASSUME NEW p \in Producers, Push(p)
      PROVE  /\ items' \in Seq(Items) /\ pushed' \in Seq(Items)
             /\ notEmpty' \subseteq Consumers
             /\ PCType'
  <2>1. Item(p) \in Items
    BY DEF Item, Items
  <2> QED
    BY <1>0, <1>3, <2>1, ProducerGoto DEF Push
<1>4. ASSUME NEW p \in Producers, PutLocked(p) PROVE TypeOK'
  <2>1. CASE Push(p) /\ UNCHANGED notFull
    BY <1>3, <1>4, <2>1 DEF PutLocked, PCType
  <2>2. CASE Goto(p, "putWait") /\ notFull' = notFull \cup {p}
                /\ UNCHANGED <<items, pushed, notEmpty>>
    <3>1. PCType'
      BY <1>0, <2>2, ProducerGoto
    <3> QED
      BY <1>4, <2>2, <3>1 DEF PutLocked, PCType
  <2> QED
    BY <1>4, <2>1, <2>2 DEF PutLocked
<1>5. ASSUME NEW p \in Producers, PutResume(p) PROVE TypeOK'
  BY <1>3, <1>5 DEF PutResume, PCType
<1>6. ASSUME NEW c \in Consumers, GetBegin(c) \/ TryGetBegin(c) PROVE TypeOK'
  <2>1. PCType'
    BY <1>0, <1>6, ConsumerGoto DEF GetBegin, TryGetBegin
  <2> QED
    BY <1>6, <2>1 DEF GetBegin, TryGetBegin, PCType
<1>7. ASSUME NEW c \in Consumers, Take(c), items # <<>>
      PROVE  items' \in Seq(Items) /\ taken' \in Seq(Items) /\ PCType'
  <2>1. PCType'
    BY <1>0, <1>7, ConsumerGoto DEF Take
  <2>2. Head(items) \in Items /\ Tail(items) \in Seq(Items)
    BY <1>7, HeadTailProperties
  <2> QED
    BY <1>7, <2>1, <2>2 DEF Take
<1>8. ASSUME NEW c \in Consumers, GetCheck(c) PROVE TypeOK'
  <2>1. CASE Take(c) /\ items # <<>> /\ UNCHANGED lock
    BY <1>7, <1>8, <2>1 DEF GetCheck, PCType
  <2>2. CASE /\ Goto(c, "idle") \/ (Goto(c, "getToWait") /\ lock' = c)
             /\ lock' \in {lock, c}
             /\ UNCHANGED <<items, taken>>
    <3>1. PCType'
      BY <1>0, <2>2, ConsumerGoto
    <3> QED
      BY <1>8, <2>2, <3>1 DEF GetCheck, PCType
  <2> QED
    BY <1>8, <2>1, <2>2, EmptyList DEF GetCheck
<1>9. ASSUME NEW c \in Consumers, GetWait(c) PROVE TypeOK'
  <2>1. PCType'
    BY <1>0, <1>9, ConsumerGoto DEF GetWait
  <2> QED
    BY <1>9, <2>1 DEF GetWait, PCType
<1>10. ASSUME NEW c \in Consumers, GetTimeout(c) PROVE TypeOK'
  BY <1>10 DEF GetTimeout
<1>11. ASSUME NEW c \in Consumers, TryGet(c) PROVE TypeOK'
  <2>1. CASE Take(c) /\ items # <<>>
    BY <1>7, <1>11, <2>1 DEF TryGet, PCType
  <2>2. CASE Goto(c, "idle") /\ UNCHANGED <<items, taken>>
    <3>1. PCType'
      BY <1>0, <2>2, ConsumerGoto
    <3> QED
      BY <1>11, <2>2, <3>1 DEF TryGet, PCType
  <2> QED
    BY <1>11, <2>1, <2>2, EmptyList DEF TryGet
<1>12. ASSUME NEW c \in Consumers, Notify(c) \/ Relock(c) PROVE TypeOK'
  <2>1. PCType'
    BY <1>0, <1>12, ConsumerGoto DEF Notify, Relock
  <2> QED
    BY <1>12, <2>1 DEF Notify, Relock, PCType
<1>13. CASE Activate \/ Deactivate
  BY <1>13 DEF Activate, Deactivate, ControlPC
<1>14. CASE DeactivateStep
  BY <1>14 DEF DeactivateStep, SetDone, WakeNotFull, WakeNotEmpty, ControlPC
<1>15. CASE UNCHANGED vars
  BY <1>15 DEF vars
<1> QED
  BY <1>1, <1>2, <1>4, <1>5, <1>6, <1>8, <1>9, <1>10, <1>11, <1>12,
     <1>13, <1>14, <1>15 DEF Next, PutStep, GetStep

\* The list and the history of what was taken make up what was pushed.
LEMMA FIFOInductive == TypeOK /\ FIFO /\ [Next]_vars => FIFO'
<1> SUFFICES ASSUME TypeOK, FIFO, [Next]_vars PROVE FIFO'
  OBVIOUS
<1> USE DEF FIFO
<1>1. ASSUME NEW p \in Producers, Push(p), UNCHANGED taken PROVE FIFO'
  <2>1. Item(p) \in Items
    BY DEF Item, Items, TypeOK
  <2>2. /\ taken \in Seq(Items) /\ items \in Seq(Items)
        /\ <<Item(p)>> \in Seq(Items)
    BY <2>1 DEF TypeOK
  <2>3. Append(items, Item(p)) = items \o <<Item(p)>>
    BY <2>1, <2>2, AppendIsConcat
  <2>4. Append(pushed, Item(p)) = (taken \o items) \o <<Item(p)>>
    BY <2>1, <2>2, AppendIsConcat, ConcatProperties
  <2>5. (taken \o items) \o <<Item(p)>> = taken \o (items \o <<Item(p)>>)
    BY <2>2, ConcatAssociative
  <2> QED
    BY <1>1, <2>3, <2>4, <2>5 DEF Push
<1>2. ASSUME NEW c \in Consumers, Take(c), items # <<>>, UNCHANGED pushed PROVE FIFO'
  BY <1>2, FIFOTake DEF Take, TypeOK
<1>3. ASSUME NEW p \in Producers, PutBegin(p) \/ PutStep(p) PROVE FIFO'
  BY <1>1, <1>3 DEF PutBegin, PutStep, PutCheckDone, PutLocked, PutResume, history
<1>4. ASSUME NEW c \in Consumers, GetBegin(c) \/ TryGetBegin(c) \/ GetStep(c) PROVE FIFO'
  BY <1>2, <1>4, EmptyList
     DEF GetBegin, TryGetBegin, GetStep, GetCheck, GetWait, GetTimeout, TryGet,
         Notify, Relock, history
<1>5. CASE Activate \/ Deactivate \/ DeactivateStep
  BY <1>5 DEF Activate, Deactivate, DeactivateStep, SetDone, WakeNotFull,
              WakeNotEmpty, history
<1>6. CASE UNCHANGED vars
  BY <1>6 DEF vars
<1> QED
  BY <1>3, <1>4, <1>5, <1>6 DEF Next

\* The conjuncts of IInv about the mutex, the sleepers and the capacity.
Monitor == LockHolder /\ NoSleepOnItems
Bounded ==
    /\ CapacityUntilDone
    /\ ctl \in {"wakeNotFull", "wakeNotEmpty"} => done
    /\ ctl # "idle" => ~active
    /\ ~done => /\ \A p \in Producers : pc[p] = "putWait" => p \in notFull
                /\ \A c \in Consumers : pc[c] # "notify"

\* Only the consumer about to wait holds the mutex, and nobody sleeps on items.
LEMMA MonitorInductive == TypeOK /\ Monitor /\ [Next]_vars => Monitor'
<1> SUFFICES ASSUME TypeOK, Monitor, [Next]_vars PROVE Monitor'
  OBVIOUS
<1> USE ThreadsAssumption
    DEF TypeOK, Monitor, LockHolder, NoSleepOnItems, Threads, Goto, Locked, history
<1>1. ASSUME NEW p \in Producers, PutBegin(p) \/ PutCheckDone(p) PROVE Monitor'
  BY <1>1 DEF PutBegin, PutCheckDone
<1>2. ASSUME NEW p \in Producers, PutLocked(p) \/ PutResume(p) PROVE Monitor'
  BY <1>2 DEF PutLocked, PutResume, Push
<1>3. ASSUME NEW c \in Consumers, GetBegin(c) \/ TryGetBegin(c) PROVE Monitor'
  BY <1>3 DEF GetBegin, TryGetBegin
<1>4. ASSUME NEW c \in Consumers, GetCheck(c) PROVE Monitor'
  BY <1>4, EmptyList DEF GetCheck, Take
<1>5. ASSUME NEW c \in Consumers, GetWait(c) \/ GetTimeout(c) PROVE Monitor'
  BY <1>5 DEF GetWait, GetTimeout
<1>6. ASSUME NEW c \in Consumers, TryGet(c) PROVE Monitor'
  BY <1>6, EmptyList DEF TryGet, Take
<1>7. ASSUME NEW c \in Consumers, Notify(c) \/ Relock(c) PROVE Monitor'
  BY <1>7 DEF Notify, Relock
<1>8. CASE Activate \/ Deactivate \/ DeactivateStep
  BY <1>8 DEF Activate, Deactivate, DeactivateStep, SetDone, WakeNotFull, WakeNotEmpty
<1>9. CASE UNCHANGED vars
  BY <1>9 DEF vars
<1> QED
  BY <1>1, <1>2, <1>3, <1>4, <1>5, <1>6, <1>7, <1>8, <1>9 DEF Next, PutStep, GetStep

\* Popping the head of a list shortens it by one.
LEMMA TailLength ==
    ASSUME NEW S, NEW s \in Seq(S), s # <<>>
    PROVE  Len(Tail(s)) = Len(s) - 1 /\ Len(s) \in Nat
  BY HeadTailProperties, LenProperties

\* Until done nobody is woken, so nobody pushes past the capacity.
LEMMA BoundedInductive == TypeOK /\ Bounded /\ [Next]_vars => Bounded'
<1> SUFFICES ASSUME TypeOK, Bounded, [Next]_vars PROVE Bounded'
  OBVIOUS
<1> USE ThreadsAssumption, CapacityAssumption
    DEF TypeOK, Bounded, CapacityUntilDone, Threads, Goto, Locked, history
<1>1. ASSUME NEW p \in Producers, PutBegin(p) \/ PutCheckDone(p) PROVE Bounded'
  BY <1>1 DEF PutBegin, PutCheckDone
<1>2. ASSUME NEW p \in Producers, PutLocked(p) PROVE Bounded'
  <2>1. Len(Append(items, Item(p))) = Len(items) + 1 /\ Len(items) \in Nat
    BY DEF Item, Items
  <2> QED
    BY <1>2, <2>1 DEF PutLocked, Push, Full
<1>3. ASSUME NEW p \in Producers, PutResume(p) PROVE Bounded'
  BY <1>3 DEF PutResume, Push
<1>4. ASSUME NEW c \in Consumers, GetBegin(c) \/ TryGetBegin(c) PROVE Bounded'
  BY <1>4 DEF GetBegin, TryGetBegin
<1>5. ASSUME NEW c \in Consumers, Take(c), items # <<>>,
             UNCHANGED <<active, done, notFull, ctl>>
      PROVE  Bounded'
  <2>1. Len(Tail(items)) = Len(items) - 1 /\ Len(items) \in Nat
    BY <1>5, TailLength
  <2> QED
    BY <1>5, <2>1 DEF Take
<1>6. ASSUME NEW c \in Consumers, GetCheck(c) PROVE Bounded'
  BY <1>5, <1>6, EmptyList DEF GetCheck
<1>7. ASSUME NEW c \in Consumers, TryGet(c) PROVE Bounded'
  BY <1>5, <1>7, EmptyList DEF TryGet
<1>8. ASSUME NEW c \in Consumers, GetWait(c) \/ GetTimeout(c) PROVE Bounded'
  BY <1>8 DEF GetWait, GetTimeout
<1>9. ASSUME NEW c \in Consumers, Notify(c) \/ Relock(c) PROVE Bounded'
  BY <1>9 DEF Notify, Relock
<1>10. CASE Activate \/ Deactivate \/ DeactivateStep
  BY <1>10 DEF Activate, Deactivate, DeactivateStep, SetDone, WakeNotFull, WakeNotEmpty
<1>11. CASE UNCHANGED vars
  BY <1>11 DEF vars
<1> QED
  BY <1>1, <1>2, <1>3, <1>4, <1>6, <1>7, <1>8, <1>9, <1>10, <1>11
     DEF Next, PutStep, GetStep

-----------------------------------------------------------------------------

\* The inductive invariant holds in every reachable state.
THEOREM Invariance == Spec => []IInv
<1>1. ASSUME Init PROVE IInv
  <2>1. TypeOK
    <3>1. PCType
      BY <1>1 DEF Init, PCType, Threads, ProducerPC, ConsumerPC
    <3>2. <<>> \in Seq(Items)
      BY EmptySeq
    <3>3. puts \in [Producers -> Nat]
      BY <1>1 DEF Init
    <3> QED
      BY <1>1, <3>1, <3>2, <3>3 DEF Init, TypeOK, PCType, ControlPC
  <2>2. FIFO
    BY <1>1, ConcatEmptySeq, EmptySeq DEF Init, FIFO
  <2>3. LockHolder
    BY <1>1, ThreadsAssumption DEF Init, LockHolder, Threads, Locked
  <2>4. NoSleepOnItems /\ CapacityUntilDone
    BY <1>1, CapacityAssumption DEF Init, NoSleepOnItems, CapacityUntilDone
  <2> QED
    BY <1>1, <2>1, <2>2, <2>3, <2>4 DEF Init, IInv, Threads
<1>2. IInv /\ [Next]_vars => IInv'
  BY TypeInductive, FIFOInductive, MonitorInductive, BoundedInductive
     DEF IInv, Monitor, Bounded
<1> QED
  BY <1>1, <1>2, PTL DEF Spec

\* Type correctness.
THEOREM TypeCorrect == Spec => []TypeOK
<1>1. IInv => TypeOK
  BY DEF IInv
<1> QED
  BY <1>1, Invariance, PTL

\* No item is lost, duplicated or overtaken, for any threads and capacity.
THEOREM FIFOOrder == Spec => []FIFO
<1>1. IInv => FIFO
  BY DEF IInv
<1> QED
  BY <1>1, Invariance, PTL

\* No consumer ever sleeps while there is something in the list.
THEOREM NoLostWakeup == Spec => []NoSleepOnItems
<1>1. IInv => NoSleepOnItems
  BY DEF IInv
<1> QED
  BY <1>1, Invariance, PTL

\* The capacity is respected until the queue is done.
THEOREM CapacityRespected == Spec => []CapacityUntilDone
<1>1. IInv => CapacityUntilDone
  BY DEF IInv
<1> QED
  BY <1>1, Invariance, PTL

-----------------------------------------------------------------------------
(* The order of the calls of one producer *)

Putting == In(Producers, {"putActive", "putLock", "putWait"})

\* No number in the history is ahead of its producer's calls, and the call that
\* is in progress has not entered yet.
Numbered ==
    \A i \in 1..Len(pushed) :
        /\ pushed[i][2] <= puts[pushed[i][1]]
        /\ pushed[i][1] \in Putting => pushed[i][2] < puts[pushed[i][1]]

\* Calls enter in their order, one item for each.
LEMMA CallOrderInductive ==
    TypeOK /\ Numbered /\ InCallOrder /\ [Next]_vars => Numbered' /\ InCallOrder'
<1> SUFFICES ASSUME TypeOK, Numbered, InCallOrder, [Next]_vars
             PROVE  Numbered' /\ InCallOrder'
  OBVIOUS
<1>0. /\ PCType
      /\ Producers \subseteq Threads /\ Consumers \subseteq Threads
      /\ pushed \in Seq(Items) /\ puts \in [Producers -> Nat]
      /\ \A i \in 1..Len(pushed) : pushed[i][1] \in Producers /\ pushed[i][2] \in Nat
  <2>1. pushed \in Seq(Items) /\ \A i \in 1..Len(pushed) : pushed[i] \in Items
    BY ElementOfSeq DEF TypeOK
  <2> QED
    BY <2>1 DEF TypeOK, PCType, Threads, Items
<1>1. ASSUME UNCHANGED <<pushed, puts>>, Putting' \subseteq Putting
      PROVE  Numbered' /\ InCallOrder'
  BY <1>1 DEF Numbered, InCallOrder
<1>2. ASSUME NEW p \in Producers, PutBegin(p) PROVE Numbered' /\ InCallOrder'
  <2>1. p \notin Putting /\ Putting' \subseteq Putting \cup {p}
    BY <1>0, <1>2 DEF PutBegin, Putting, In, Goto, PCType
  <2>2. /\ puts'[p] = puts[p] + 1
        /\ \A q \in Producers : q # p => puts'[q] = puts[q]
        /\ pushed' = pushed
    BY <1>0, <1>2 DEF PutBegin
  <2> QED
    BY <1>0, <2>1, <2>2 DEF Numbered, InCallOrder
<1>3. ASSUME NEW p \in Producers, Push(p), UNCHANGED puts, p \in Putting
      PROVE  Numbered' /\ InCallOrder'
  <2>1. p \notin Putting' /\ Putting' \subseteq Putting
    BY <1>0, <1>3, ThreadsAssumption DEF Push, Putting, In, Goto, PCType
  <2>2. Item(p) \in Items /\ Item(p)[1] = p /\ Item(p)[2] = puts[p]
    BY <1>0 DEF Item, Items
  <2> DEFINE n == Len(pushed)
             new == Item(p)
  <2>3. /\ n \in Nat
        /\ Len(pushed') = n + 1
        /\ pushed'[n + 1] = new
        /\ \A i \in 1..n : pushed'[i] = pushed[i]
    BY <1>0, <1>3, <2>2, LenProperties, AppendProperties DEF Push
  <2>4. \A i \in 1..n : pushed[i][1] = p => pushed[i][2] < puts[p]
    BY <1>3 DEF Numbered
  <2> HIDE DEF new
  <2>5. new[1] = p /\ new[2] = puts[p] /\ puts[p] \in Nat
    BY <1>0, <2>2 DEF new
  <2>6. Numbered'
    BY <1>0, <1>3, <2>1, <2>3, <2>5 DEF Numbered
  <2>7. ASSUME NEW i \in 1..Len(pushed'), NEW j \in 1..Len(pushed'), i < j,
               pushed'[i][1] = pushed'[j][1]
        PROVE  pushed'[i][2] < pushed'[j][2]
    <3>1. i \in 1..n
      BY <2>3, <2>7
    <3>2. CASE j \in 1..n
      BY <2>3, <2>7, <3>1, <3>2 DEF InCallOrder
    <3>3. CASE j = n + 1
      BY <2>3, <2>4, <2>5, <2>7, <3>1, <3>3
    <3> QED
      BY <2>3, <3>2, <3>3
  <2>8. InCallOrder'
    BY <2>7 DEF InCallOrder
  <2> QED
    BY <2>6, <2>8
<1>4. ASSUME NEW p \in Producers, PutStep(p) PROVE Numbered' /\ InCallOrder'
  <2>1. CASE PutCheckDone(p)
    <3>1. Putting' \subseteq Putting /\ UNCHANGED <<pushed, puts>>
      BY <1>0, <2>1 DEF PutCheckDone, Putting, In, Goto, PCType, history
    <3> QED
      BY <1>1, <3>1
  <2>2. CASE PutLocked(p)
    <3>1. p \in Putting
      BY <2>2 DEF PutLocked, Putting, In
    <3>2. CASE Push(p)
      BY <1>3, <2>2, <3>1, <3>2 DEF PutLocked
    <3>3. CASE Goto(p, "putWait") /\ UNCHANGED pushed
      <4>1. Putting' \subseteq Putting /\ UNCHANGED <<pushed, puts>>
        BY <1>0, <2>2, <3>1, <3>3 DEF PutLocked, Putting, In, Goto, PCType
      <4> QED
        BY <1>1, <4>1
    <3> QED
      BY <2>2, <3>2, <3>3 DEF PutLocked
  <2>3. CASE PutResume(p)
    <3>1. p \in Putting
      BY <2>3 DEF PutResume, Putting, In
    <3> QED
      BY <1>3, <2>3, <3>1 DEF PutResume
  <2> QED
    BY <1>4, <2>1, <2>2, <2>3 DEF PutStep
<1>5. ASSUME NEW c \in Consumers, GetBegin(c) \/ TryGetBegin(c) \/ GetStep(c)
      PROVE  Numbered' /\ InCallOrder'
  <2>1. UNCHANGED <<pushed, puts>> /\ \A p \in Producers : pc'[p] = pc[p]
    BY <1>0, <1>5, ThreadsAssumption
       DEF GetBegin, TryGetBegin, GetStep, GetCheck, GetWait, GetTimeout, TryGet,
           Notify, Relock, Take, Goto, PCType, history
  <2> QED
    BY <1>1, <2>1 DEF Putting, In
<1>6. CASE Activate \/ Deactivate \/ DeactivateStep \/ UNCHANGED vars
  <2>1. UNCHANGED <<pushed, puts, pc>>
    BY <1>6 DEF Activate, Deactivate, DeactivateStep, SetDone, WakeNotFull,
                WakeNotEmpty, history, vars
  <2> QED
    BY <1>1, <2>1 DEF Putting, In
<1> QED
  BY <1>2, <1>4, <1>5, <1>6 DEF Next

\* Each call of put() adds its item once at most, and the items of one producer
\* are in the order of its calls, whatever the others and activate() do.
THEOREM CallsInOrder == Spec => []InCallOrder
<1>1. Init => Numbered /\ InCallOrder
  BY DEF Init, Numbered, InCallOrder
<1>2. IInv => TypeOK
  BY DEF IInv
<1> QED
  BY <1>1, <1>2, Invariance, CallOrderInductive, PTL DEF Spec

-----------------------------------------------------------------------------
(* The queue implements QueuePromise *)

Getting == In(Consumers, {"getLock", "getToWait", "getWait"})
Trying == In(Consumers, {"tryLock"})
abstract == <<active, done, items, taken, puts, Putting, Getting, Trying>>

\* The jump of a producer leaves the consumers' calls alone.
LEMMA ProducerCalls ==
    ASSUME PCType, NEW p \in Producers, NEW l, Goto(p, l)
    PROVE  /\ UNCHANGED <<Getting, Trying>>
           /\ Putting' = IF l \in {"putActive", "putLock", "putWait"}
                         THEN Putting \cup {p} ELSE Putting \ {p}
  BY ThreadsAssumption DEF In, Goto, PCType, Threads, Putting, Getting, Trying

\* The jump of a consumer leaves the producers' calls alone.
LEMMA ConsumerCalls ==
    ASSUME PCType, NEW c \in Consumers, NEW l, Goto(c, l)
    PROVE  /\ UNCHANGED Putting
           /\ Getting' = IF l \in {"getLock", "getToWait", "getWait"}
                         THEN Getting \cup {c} ELSE Getting \ {c}
           /\ Trying' = IF l = "tryLock" THEN Trying \cup {c} ELSE Trying \ {c}
  BY ThreadsAssumption DEF In, Goto, PCType, Threads, Putting, Getting, Trying

\* The jump that ends a call of put().
LEMMA ProducerEnds ==
    ASSUME PCType, NEW p \in Producers, Goto(p, "idle")
    PROVE  UNCHANGED <<Getting, Trying>> /\ Putting' = Putting \ {p}
  BY ProducerCalls

\* The jumps that end a call of get() or tryGet(), or what it does in the list.
LEMMA ConsumerEnds ==
    ASSUME PCType, NEW c \in Consumers, NEW l \in {"notify", "idle"}, Goto(c, l)
    PROVE  Putting' = Putting /\ Getting' = Getting \ {c} /\ Trying' = Trying \ {c}
  BY ConsumerCalls

\* A jump within a call, or outside of one, neither begins nor ends one.
LEMMA ConsumerStays ==
    ASSUME PCType, NEW c \in Consumers, NEW l, Goto(c, l),
           l \in {"getLock", "getToWait", "getWait"} <=> c \in Getting,
           l = "tryLock" <=> c \in Trying
    PROVE  Putting' = Putting /\ Getting' = Getting /\ Trying' = Trying
<1>1. CASE c \in Getting
  BY <1>1, ConsumerCalls
<1>2. CASE c \in Trying
  BY <1>2, ConsumerCalls
<1>3. CASE c \notin Getting /\ c \notin Trying
  BY <1>3, ConsumerCalls
<1> QED
  BY <1>1, <1>2, <1>3

\* Nobody's call begins or ends where no thread moves.
LEMMA SameCalls == UNCHANGED pc => UNCHANGED <<Putting, Getting, Trying>>
  BY DEF In, Putting, Getting, Trying

\* put(): accepted or ignored, then the item enters or a closed queue refuses it.
LEMMA PutPromise ==
    ASSUME IInv, NEW p \in Producers, PutBegin(p) \/ PutStep(p)
    PROVE  Promise!Put(p) \/ Promise!Enter(p) \/ Promise!Refuse(p) \/ UNCHANGED abstract
<1> USE DEF Promise!switches, Promise!list, Promise!producing, Promise!consuming,
            Putting, Getting, Trying
<1>0. PCType /\ puts \in [Producers -> Nat] /\ Len(items) \in Nat
  BY LenProperties DEF IInv, TypeOK, PCType
<1>1. CASE PutBegin(p)
  <2>1. p \notin Putting
    BY <1>1 DEF PutBegin, In
  <2>2. CASE active
    BY <1>0, <1>1, <2>1, <2>2, ProducerCalls DEF PutBegin, Promise!Put
  <2>3. CASE ~active
    BY <1>1, <2>1, <2>3, SameCalls DEF PutBegin, Promise!Put
  <2> QED
    BY <2>2, <2>3
<1>2. CASE PutCheckDone(p)
  <2>1. p \in Putting
    BY <1>2 DEF PutCheckDone, In
  <2>2. CASE done
    BY <1>0, <1>2, <2>1, <2>2, ProducerCalls DEF PutCheckDone, history, Promise!Refuse
  <2>3. CASE ~done
    <3>1. Putting' = Putting \cup {p}
      BY <1>0, <1>2, <2>3, ProducerCalls DEF PutCheckDone
    <3>2. UNCHANGED <<Getting, Trying>>
      BY <1>0, <1>2, <2>3, ProducerCalls DEF PutCheckDone
    <3>3. Putting' = Putting
      BY <2>1, <3>1
    <3> QED
      BY <1>2, <3>2, <3>3 DEF PutCheckDone, history, abstract
  <2> QED
    BY <2>2, <2>3
<1>3. ASSUME p \in Putting, Push(p), Promise!Room \/ done,
             UNCHANGED <<active, done, puts, taken>>
      PROVE  Promise!Enter(p)
  <2>1. Goto(p, "idle") /\ items' = Append(items, <<p, puts[p]>>)
    BY <1>3 DEF Push, Item
  <2>2. UNCHANGED <<Getting, Trying>> /\ Putting' = Putting \ {p}
    BY <1>0, <2>1, ProducerEnds
  <2> QED
    BY <1>3, <2>1, <2>2, Zenon DEF Promise!Enter
<1>4. CASE PutLocked(p)
  <2>1. p \in Putting
    BY <1>4 DEF PutLocked, In
  <2>2. CASE Full /\ Goto(p, "putWait") /\ UNCHANGED items
    <3>1. Putting' = Putting \cup {p}
      BY <1>0, <2>2, ProducerCalls
    <3>2. UNCHANGED <<Getting, Trying>>
      BY <1>0, <2>2, ProducerCalls
    <3>3. Putting' = Putting
      BY <2>1, <3>1
    <3> QED
      BY <1>4, <2>2, <3>2, <3>3 DEF PutLocked, abstract
  <2>3. CASE ~Full /\ Push(p)
    <3>1. Promise!Room
      BY <1>0, <2>3, CapacityAssumption DEF Full, Promise!Room
    <3> QED
      BY <1>3, <1>4, <2>1, <2>3, <3>1 DEF PutLocked
  <2> QED
    BY <1>4, <2>2, <2>3 DEF PutLocked
<1>5. CASE PutResume(p)
  <2>1. p \in Putting
    BY <1>5 DEF PutResume, In
  <2>2. done
    BY <1>5 DEF PutResume, IInv
  <2> QED
    BY <1>3, <1>5, <2>1, <2>2 DEF PutResume
<1> QED
  BY <1>1, <1>2, <1>4, <1>5 DEF PutStep

\* get() and tryGet(): asked, then answered with the oldest item, or with none
\* by a closed queue or an empty list.
LEMMA GetPromise ==
    ASSUME IInv, NEW c \in Consumers, GetBegin(c) \/ TryGetBegin(c) \/ GetStep(c)
    PROVE  Promise!Ask(c) \/ Promise!Deliver(c) \/ Promise!ComeBackEmpty(c)
              \/ UNCHANGED abstract
<1> USE DEF Promise!switches, Promise!list, Promise!producing, Promise!consuming,
            Putting, Getting, Trying
<1>0. PCType /\ TypeOK
  BY DEF IInv, TypeOK, PCType
<1>1. CASE GetBegin(c) \/ TryGetBegin(c)
  <2>1. c \notin Getting \cup Trying
    BY <1>1 DEF GetBegin, TryGetBegin, In
  <2>2. Trying \ {c} = Trying /\ Getting \ {c} = Getting
    BY <2>1
  <2>3. CASE GetBegin(c)
    BY <1>0, <2>1, <2>2, <2>3, ConsumerCalls DEF GetBegin, history, Promise!Ask
  <2>4. CASE TryGetBegin(c)
    BY <1>0, <2>1, <2>2, <2>4, ConsumerCalls DEF TryGetBegin, history, Promise!Ask
  <2> QED
    BY <1>1, <2>3, <2>4
<1>2. ASSUME c \in Getting \cup Trying, items # <<>>, Take(c),
             UNCHANGED <<active, done, puts>>
      PROVE  Promise!Deliver(c)
  <2>1. PICK l \in {"notify", "idle"} : Goto(c, l)
    BY <1>2 DEF Take
  <2>2. /\ Putting' = Putting
        /\ Getting' = Getting \ {c}
        /\ Trying' = Trying \ {c}
    BY <1>0, <2>1, ConsumerEnds
  <2> QED
    BY <1>2, <2>2 DEF Take, Promise!Deliver, Promise!Answered
<1>3. ASSUME Goto(c, "idle"),
             (c \in Getting /\ done) \/ (c \in Trying /\ items = <<>>),
             UNCHANGED <<active, done, items, taken, puts>>
      PROVE  Promise!ComeBackEmpty(c)
  <2>2. /\ Putting' = Putting
        /\ Getting' = Getting \ {c}
        /\ Trying' = Trying \ {c}
    BY <1>0, <1>3, ConsumerEnds
  <2> QED
    BY <1>3, <2>2, Zenon DEF Promise!ComeBackEmpty, Promise!Answered
<1>4. ASSUME NEW l, Goto(c, l), UNCHANGED <<active, done, items, taken, puts>>,
             l \in {"getLock", "getToWait", "getWait"} <=> c \in Getting,
             l = "tryLock" <=> c \in Trying
      PROVE  UNCHANGED abstract
  <2>1. Putting' = Putting /\ Getting' = Getting /\ Trying' = Trying
    BY <1>0, <1>4, ConsumerStays
  <2> QED
    BY <1>4, <2>1 DEF abstract
<1>5. CASE GetCheck(c)
  <2>1. c \in Getting /\ c \notin Trying
    BY <1>5 DEF GetCheck, In
  <2>2. UNCHANGED <<active, done, puts>>
    BY <1>5 DEF GetCheck
  <2>3. CASE done /\ Goto(c, "idle") /\ UNCHANGED <<items, taken>>
    BY <1>3, <2>1, <2>2, <2>3
  <2>4. CASE ~Empty /\ Take(c)
    BY <1>0, <1>2, <2>1, <2>2, <2>4, EmptyList
  <2>5. CASE Goto(c, "getToWait") /\ UNCHANGED <<items, taken>>
    BY <1>4, <2>1, <2>2, <2>5
  <2> QED
    BY <1>5, <2>3, <2>4, <2>5 DEF GetCheck
<1>6. CASE GetWait(c)
  <2>1. c \in Getting /\ c \notin Trying /\ Goto(c, "getWait")
    BY <1>6 DEF GetWait, In
  <2> QED
    BY <1>4, <1>6, <2>1 DEF GetWait, history
<1>7. CASE GetTimeout(c)
  BY <1>7, SameCalls DEF GetTimeout, history, abstract
<1>8. CASE TryGet(c)
  <2>1. c \in Trying
    BY <1>8 DEF TryGet, In
  <2>2. UNCHANGED <<active, done, puts>>
    BY <1>8 DEF TryGet
  <2>3. CASE Empty /\ Goto(c, "idle") /\ UNCHANGED <<items, taken>>
    BY <1>0, <1>3, <2>1, <2>2, <2>3, EmptyList
  <2>4. CASE ~Empty /\ Take(c)
    BY <1>0, <1>2, <2>1, <2>2, <2>4, EmptyList
  <2> QED
    BY <1>8, <2>3, <2>4 DEF TryGet
<1>9. CASE Notify(c) \/ Relock(c)
  <2>1. c \notin Getting /\ c \notin Trying
    BY <1>9 DEF Notify, Relock, In
  <2>2. UNCHANGED <<active, done, items, taken, puts>>
    BY <1>9 DEF Notify, Relock, history
  <2>3. PICK l \in {"relock", "idle"} : Goto(c, l)
    BY <1>9 DEF Notify, Relock
  <2> QED
    BY <1>4, <2>1, <2>2, <2>3
<1> QED
  BY <1>1, <1>5, <1>6, <1>7, <1>8, <1>9 DEF GetStep

\* activate() switches the queue, and closes it once it is off.
LEMMA SwitchPromise ==
    ASSUME IInv, Activate \/ Deactivate \/ DeactivateStep
    PROVE  Promise!Switch \/ Promise!Close \/ UNCHANGED abstract
<1> USE DEF Promise!switches, Promise!list, Promise!producing, Promise!consuming,
            Putting, Getting, Trying, history
<1>1. UNCHANGED <<Putting, Getting, Trying, items, taken, puts>>
  BY SameCalls DEF Activate, Deactivate, DeactivateStep, SetDone, WakeNotFull,
                   WakeNotEmpty
<1>2. CASE Activate
  BY <1>1, <1>2, Zenon DEF Activate, Promise!Switch
<1>3. CASE Deactivate
  BY <1>1, <1>3, Zenon DEF Deactivate, Promise!Switch
<1>4. CASE SetDone
  <2>1. ~active
    BY <1>4 DEF SetDone, IInv
  <2> QED
    BY <1>1, <1>4, <2>1, Zenon DEF SetDone, Promise!Close
<1>5. CASE WakeNotFull \/ WakeNotEmpty
  BY <1>1, <1>5 DEF WakeNotFull, WakeNotEmpty, abstract
<1> QED
  BY <1>2, <1>3, <1>4, <1>5 DEF DeactivateStep

\* Every step is a step of the promise, or does not concern it.
LEMMA StepPromise ==
    ASSUME IInv, [Next]_vars
    PROVE  [Promise!Next]_(Promise!vars)
<1>1. ASSUME UNCHANGED abstract PROVE UNCHANGED Promise!vars
  BY <1>1 DEF abstract, Promise!vars, Putting, Getting, Trying
<1>2. ASSUME NEW p \in Producers, PutBegin(p) \/ PutStep(p)
      PROVE  [Promise!Next]_(Promise!vars)
  BY <1>1, <1>2, PutPromise DEF Promise!Next
<1>3. ASSUME NEW c \in Consumers, GetBegin(c) \/ TryGetBegin(c) \/ GetStep(c)
      PROVE  [Promise!Next]_(Promise!vars)
  BY <1>1, <1>3, GetPromise DEF Promise!Next
<1>4. CASE Activate \/ Deactivate \/ DeactivateStep
  BY <1>1, <1>4, SwitchPromise DEF Promise!Next
<1>5. CASE UNCHANGED vars
  BY <1>1, <1>5, SameCalls DEF vars, abstract
<1> QED
  BY <1>2, <1>3, <1>4, <1>5 DEF Next

\* For any threads and capacity the queue does what QueuePromise says: items
\* enter and leave one by one in order, no get() comes back without an item
\* while the queue is open, no put() exceeds the capacity while it is.
THEOREM KeepsItsPromise == Spec => KeepsPromise
<1>1. Init => Promise!Init
  BY DEF Init, Promise!Init, In, Threads
<1>2. IInv /\ [Next]_vars => [Promise!Next]_(Promise!vars)
  BY StepPromise
<1> QED
  BY <1>1, <1>2, Invariance, PTL DEF Spec, KeepsPromise, Promise!Spec
=============================================================================
