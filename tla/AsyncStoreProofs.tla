-------------------------- MODULE AsyncStoreProofs --------------------------
(***************************************************************************)
(* What AsyncStore guarantees for every set of threads, contents,          *)
(* failures and bounds.                                                    *)
(*                                                                         *)
(* CountersHonest is not inductive: a second thread running an event in    *)
(* the middle of a save would break it.  Shape says what the variables are *)
(* made of, OneRunner that only one thread ever runs events and only while *)
(* the store is active, InProgress that a save has its thread, and         *)
(* Versions that no counter is ahead of mAutoIncrement, so that a version  *)
(* just made differs from all others.  These make Basis, which holds also  *)
(* of a store whose content is changed past it (DataBookProofs).           *)
(* Agreement, that the save writes what is in memory and the counters tell *)
(* the truth, needs that every change goes through the store.              *)
(*                                                                         *)
(* The later sections add to this invariant: Serving, for the refinement   *)
(* of StorePromise; Order and Kinds, for the order of the events and the   *)
(* types, which again need Basis only; Lifetime, for what the store has    *)
(* come to when activate(false) ends.  The last two say why answers come:  *)
(* Placed and ToCome follow each event from the queue to its callbacks,    *)
(* Attended and Finishing the worker to the end of activate(false).        *)
(***************************************************************************)
EXTENDS AsyncStore, SequenceTheorems, TLAPS

Places == {"idle", "have", "wait", "off", "loop", "get", "exited"} \cup Busy
EventSet == [state : {"pending", "finished", "lost"}, waiting : Nat, called : Nat]
TypeNames ==
    {"none", "status", "clear", "get", "set", "load", "save", "generate", "synchronize", "complete"}
TaskSet == [id : Nat, type : TypeNames, data : Data \cup {Nothing}]
GoodTask ==
    {task \in TaskSet : IF task.type = "set" THEN task.data \in Data ELSE task.data = Nothing}

\* The thread that runs events.
Runner == IF synchronous THEN Main ELSE Worker

Shape ==
    /\ synchronous \in BOOLEAN /\ active \in BOOLEAN
    /\ closing \in {"no", "synchronize", "complete", "join"}
    /\ disk \in Nat /\ mem \in Nat /\ auto \in Nat /\ cycles \in Nat
    /\ memory \in Content
    /\ file \in Content \cup {Torn, NoFile}
    /\ saving \in Content \cup {Nothing}
    /\ unseen \in {"none"} \cup (CanFail \cap {"fileRead", "fileWrite"})
    /\ events \in Seq(EventSet)
    /\ pc \in [Threads -> Places]

TasksOK ==
    /\ queue \in Seq(GoodTask)
    /\ cur \in [Threads -> GoodTask]

OneRunner ==
    /\ \A t \in Threads : pc[t] \in Busy => t = Runner /\ active
    /\ pc[Worker] = "get" => ~synchronous
    /\ pc[Worker] \in {"loop", "get"} => active
    /\ active => cycles > 0
    /\ mem # 0 => cycles > 0

InProgress == saving # Nothing <=> pc[Runner] = "write"

Versions == disk <= auto /\ mem <= auto

\* What holds also if the content in memory is changed past the store.
Basis == Shape /\ TasksOK /\ OneRunner /\ InProgress /\ Versions

\* A save in progress writes what is in memory, and the counters tell the truth.
Agreement == (saving # Nothing => saving = memory) /\ CountersHonest

IInv == Basis /\ Agreement

-----------------------------------------------------------------------------

\* Threads are threads, and the runner is one of them.
LEMMA RunnerIsThread == Runner \in Threads /\ Main \in Threads /\ Worker \in Threads /\ Main # Worker
  BY ThreadAssumption DEF Runner, Threads

\* Moving one thread moves no other.
LEMMA Moved ==
  ASSUME NEW t \in Threads, NEW l \in Places, pc \in [Threads -> Places], Goto(t, l)
  PROVE  /\ pc' \in [Threads -> Places]
         /\ pc'[t] = l
         /\ \A u \in Threads : u # t => pc'[u] = pc[u]
  BY DEF Goto

\* Nobody's task is a good one.
LEMMA NoTaskIsGood == NoTask \in GoodTask /\ \A n \in Nat : [NoTask EXCEPT !.id = n] \in GoodTask
<1>1. ASSUME NEW n \in Nat PROVE [id |-> n, type |-> "none", data |-> Nothing] \in GoodTask
  BY DEF GoodTask, TaskSet, TypeNames
<1>2. \A n \in Nat : [NoTask EXCEPT !.id = n] = [id |-> n, type |-> "none", data |-> Nothing]
  BY DEF NoTask
<1> QED
  BY <1>1, <1>2 DEF NoTask

\* So is a request a client or activate(false) makes.
LEMMA RequestIsGood ==
  ASSUME NEW type \in TypeNames, NEW d \in Payloads(type), events \in Seq(EventSet)
  PROVE  Task(type, d) \in GoodTask
<1>1. Len(events) + 1 \in Nat
  OBVIOUS
<1>2. d \in Data \cup {Nothing} /\ IF type = "set" THEN d \in Data ELSE d = Nothing
  BY DEF Payloads
<1> QED
  BY <1>1, <1>2 DEF Task, GoodTask, TaskSet

\* An update of one event keeps the sequence one of events.
LEMMA UpdateKeepsEvents ==
  ASSUME NEW e \in Seq(EventSet), NEW i, NEW r, i \in 1..Len(e) => r \in EventSet
  PROVE  [e EXCEPT ![i] = r] \in Seq(EventSet)
<1> DEFINE f == [e EXCEPT ![i] = r]
<1>1. Len(e) \in Nat /\ e \in [1..Len(e) -> EventSet]
  OBVIOUS
<1>2. f \in [1..Len(e) -> EventSet]
  BY <1>1
<1> HIDE DEF f
<1>3. f \in Seq(EventSet)
  BY <1>1, <1>2, SeqDef
<1> QED
  BY <1>3 DEF f

\* What a thread carries out, and that it is at it.
LEMMA OperationAt ==
  ASSUME NEW t \in Threads, Operation(t) # "idle"
  PROVE  /\ pc[t] \in {"exec", "save"}
         /\ Operation(t) = "set" => cur[t].type = "set"
  BY DEF Operation, SyncChoice

\* The runner goes on within an event or is done with it.
LEMMA RunnerMoves ==
  ASSUME Basis, NEW t \in Threads, pc[t] \in Busy, NEW l \in Places \ {"get"}, Goto(t, l),
         UNCHANGED <<synchronous, active, cycles>>
  PROVE  /\ t = Runner /\ active /\ cycles > 0
         /\ Runner' = Runner
         /\ pc' \in [Threads -> Places]
         /\ pc'[Runner] = l
         /\ OneRunner'
<1>1. t = Runner /\ active /\ cycles > 0
  BY DEF Basis, OneRunner
<1>2. pc \in [Threads -> Places] /\ cycles \in Nat
  BY DEF Basis, Shape
<1>3. pc' \in [Threads -> Places] /\ pc'[t] = l /\ \A u \in Threads : u # t => pc'[u] = pc[u]
  BY <1>2, Moved
<1>4. Runner' = Runner
  BY DEF Runner
<1>5. OneRunner'
  <2>1. ASSUME NEW u \in Threads, pc'[u] \in Busy PROVE u = Runner' /\ active'
    BY <1>1, <1>3, <1>4, <2>1 DEF Basis, OneRunner
  <2>2. /\ pc'[Worker] = "get" => ~synchronous'
        /\ pc'[Worker] \in {"loop", "get"} => active'
    BY <1>1, <1>3, RunnerIsThread DEF Basis, OneRunner
  <2> QED
    BY <2>1, <2>2, <1>1 DEF OneRunner
<1> QED
  BY <1>1, <1>3, <1>4, <1>5

\* Steps beside the running of events: they leave the content and the versions
\* alone, and nobody starts or stops to run an event.
LEMMA BesideRunner ==
  ASSUME Basis, UNCHANGED <<store, synchronous, cycles>>,
         events' \in Seq(EventSet), TasksOK',
         pc' \in [Threads -> Places], active' \in BOOLEAN,
         closing' \in {"no", "synchronize", "complete", "join"},
         \A t \in Threads : pc'[t] \in Busy => pc[t] = pc'[t],
         pc[Runner] \in Busy => pc'[Runner] = pc[Runner],
         pc'[Worker] = "get" => ~synchronous,
         pc'[Worker] \in {"loop", "get"} => active',
         (\E t \in Threads : pc'[t] \in Busy) => active',
         active' => active
  PROVE  Basis' /\ (Agreement => Agreement')
<1>1. Runner' = Runner /\ Runner \in Threads
  BY RunnerIsThread DEF Runner
<1>2. Shape'
  BY DEF Basis, Shape, store, versions, content
<1>3. OneRunner'
  <2>1. \A t \in Threads : pc'[t] \in Busy => t = Runner' /\ active'
    BY <1>1 DEF Basis, OneRunner
  <2> QED
    BY <2>1 DEF Basis, OneRunner, store, versions
<1>4. InProgress'
  <2>1. pc'[Runner] = "write" <=> pc[Runner] = "write"
    BY <1>1 DEF Busy
  <2> QED
    BY <1>1, <2>1 DEF Basis, InProgress, store, content
<1>5. Versions' /\ (Agreement => Agreement')
  BY DEF Basis, Versions, Agreement, CountersHonest, store, versions, content
<1> QED
  BY <1>2, <1>3, <1>4, <1>5 DEF Basis

-----------------------------------------------------------------------------
(* The operations on the content: one step of the runner each.               *)

\* Only looking at the content.
LEMMA LookStep ==
  ASSUME Basis, NEW t \in Threads, Look(t)
  PROVE  Basis' /\ (Agreement => Agreement')
<1>1. pc[t] \in Busy /\ pc[t] # "write"
  BY OperationAt DEF Look, Busy
<1>2. OneRunner' /\ pc'[Runner] = "notify" /\ Runner' = Runner /\ t = Runner
      /\ pc' \in [Threads -> Places]
  BY <1>1, RunnerMoves DEF Look, Done, Places, Busy, control, setup
<1>3. Shape' /\ TasksOK'
  BY <1>2 DEF Basis, Shape, TasksOK, Look, control, setup, store, versions, content
<1>4. InProgress'
  BY <1>1, <1>2 DEF Basis, InProgress, Look, store, content
<1>5. Versions' /\ (Agreement => Agreement')
  BY DEF Basis, Versions, Agreement, CountersHonest, Look, store, versions, content
<1> QED
  BY <1>2, <1>3, <1>4, <1>5 DEF Basis

\* A set makes a version that no other counter has.
LEMMA SetStep ==
  ASSUME Basis, NEW t \in Threads, Set(t)
  PROVE  Basis' /\ (Agreement => Agreement')
<1>1. pc[t] \in Busy /\ pc[t] # "write" /\ cur[t].type = "set"
  BY OperationAt DEF Set, Busy
<1>2. OneRunner' /\ pc'[Runner] = "notify" /\ Runner' = Runner /\ t = Runner
      /\ pc' \in [Threads -> Places]
  <2>1. UNCHANGED <<synchronous, active, cycles>> /\ Goto(t, "notify")
    BY DEF Set, Done, control, setup
  <2> QED
    BY <2>1, <1>1, RunnerMoves DEF Places, Busy
<1>3. cur[t].data \in Data
  BY <1>1 DEF Basis, TasksOK, GoodTask
<1>4. Shape' /\ TasksOK'
  BY <1>2, <1>3 DEF Basis, Shape, TasksOK, Set, control, setup, Content
<1>5. InProgress'
  BY <1>1, <1>2 DEF Basis, InProgress, Set
<1>6. Versions'
  BY DEF Basis, Shape, Versions, Set
<1>7. ASSUME Agreement PROVE Agreement'
  <2>1. saving' = Nothing
    BY <1>1, <1>2 DEF Basis, InProgress, Set
  <2>2. CASE UNCHANGED <<memory, auto, mem>>
    BY <1>7, <2>1, <2>2 DEF Agreement, CountersHonest, Set
  <2>3. CASE mem' = auto + 1 /\ disk' = disk
    BY <2>1, <2>3 DEF Basis, Shape, Versions, Agreement, CountersHonest
  <2> QED
    BY <2>2, <2>3 DEF Set
<1> QED
  BY <1>2, <1>4, <1>5, <1>6, <1>7 DEF Basis

\* A clear sets back the counter of each side that it clears.
LEMMA ClearStep ==
  ASSUME Basis, NEW t \in Threads, Clear(t)
  PROVE  Basis' /\ (Agreement => Agreement')
<1>1. pc[t] \in Busy /\ pc[t] # "write"
  BY OperationAt DEF Clear, Busy
<1>2. OneRunner' /\ pc'[Runner] = "notify" /\ Runner' = Runner /\ t = Runner
      /\ pc' \in [Threads -> Places]
  <2>1. UNCHANGED <<synchronous, active, cycles>> /\ Goto(t, "notify")
    BY DEF Clear, Done, control, setup
  <2> QED
    BY <2>1, <1>1, RunnerMoves DEF Places, Busy
<1>3. /\ (file' = NoFile /\ disk' = 0) \/ (file' = file /\ disk' = disk)
      /\ (memory' = Blank /\ mem' = 0) \/ (memory' = memory /\ mem' = mem)
  BY DEF Clear
<1>4. Shape' /\ TasksOK'
  BY <1>2, <1>3 DEF Basis, Shape, TasksOK, Clear, control, setup, Content
<1>5. InProgress'
  BY <1>1, <1>2 DEF Basis, InProgress, Clear
<1>6. Versions'
  BY <1>3 DEF Basis, Shape, Versions, Clear
<1>7. ASSUME Agreement PROVE Agreement'
  <2>1. saving' = Nothing
    BY <1>1, <1>2 DEF Basis, InProgress, Clear
  <2> QED
    BY <1>3, <1>7, <2>1 DEF Agreement, CountersHonest, Clear
<1> QED
  BY <1>2, <1>4, <1>5, <1>6, <1>7 DEF Basis

\* What comes of a load: the content of the file, an empty map instead of it, or
\* nothing.
LoadOutcome ==
  \/ file \notin {NoFile, Torn} /\ memory' = file /\ mem' = disk /\ unseen' = "none"
  \/ "fileRead" \in CanFail /\ file # NoFile /\ memory' = Blank /\ mem' = disk /\ unseen' = "fileRead"
  \/ (CanFail # {} \/ file \in {NoFile, Torn}) /\ UNCHANGED <<memory, mem, unseen>>

\* That is all that can come of it.
LEMMA LoadOutcomes == ASSUME NEW t \in Threads, Load(t) PROVE LoadOutcome
<1>1. PICK b \in Outcomes("loadBackend"), f \in Outcomes("setFrontend"), r \in Outcomes("fileRead") :
        IF b /\ f /\ Loadable(r)
        THEN memory' = Read(r) /\ mem' = disk /\ unseen' = IF r THEN "none" ELSE "fileRead"
        ELSE UNCHANGED <<memory, mem, unseen>>
  BY DEF Load
<1>2. b \in BOOLEAN /\ f \in BOOLEAN /\ r \in BOOLEAN /\ (r \/ "fileRead" \in CanFail)
      /\ (CanFail # {} \/ (b /\ f /\ r))
  BY DEF Outcomes
<1> QED
  BY <1>1, <1>2 DEF LoadOutcome, Loadable, Read

\* A load brings both sides to the version on disk.
LEMMA LoadStep ==
  ASSUME Basis, NEW t \in Threads, Load(t)
  PROVE  Basis' /\ (Agreement => Agreement')
<1>1. pc[t] \in Busy /\ pc[t] # "write"
  BY OperationAt DEF Load, Busy
<1>2. OneRunner' /\ pc'[Runner] = "notify" /\ Runner' = Runner /\ t = Runner
      /\ pc' \in [Threads -> Places]
  <2>1. UNCHANGED <<synchronous, active, cycles>> /\ Goto(t, "notify")
    BY DEF Load, Done, control, setup
  <2> QED
    BY <2>1, <1>1, RunnerMoves DEF Places, Busy
<1>3. LoadOutcome
  BY LoadOutcomes
<1>4. Shape' /\ TasksOK'
  BY <1>2, <1>3 DEF Basis, Shape, TasksOK, Load, LoadOutcome, control, setup, Content
<1>5. InProgress'
  BY <1>1, <1>2 DEF Basis, InProgress, Load
<1>6. Versions'
  BY <1>3 DEF Basis, Shape, Versions, Load, LoadOutcome
<1>7. ASSUME Agreement PROVE Agreement'
  <2>1. saving' = Nothing
    BY <1>1, <1>2 DEF Basis, InProgress, Load
  <2> QED
    BY <1>3, <1>7, <2>1 DEF Basis, Shape, Versions, Agreement, CountersHonest, Load, LoadOutcome
<1> QED
  BY <1>2, <1>4, <1>5, <1>6, <1>7 DEF Basis

\* So does a generate, which a bootstrap follows with a save.
LEMMA GenerateStep ==
  ASSUME Basis, NEW t \in Threads, Generate(t)
  PROVE  Basis' /\ (Agreement => Agreement')
<1>1. pc[t] \in Busy /\ pc[t] # "write"
  BY OperationAt DEF Generate, Busy
<1>2. OneRunner' /\ pc'[Runner] \in {"notify", "save"} /\ Runner' = Runner /\ pc' \in [Threads -> Places]
  <2>1. UNCHANGED <<synchronous, active, cycles>> /\ (Goto(t, "notify") \/ Goto(t, "save"))
    BY DEF Generate, Done, control, setup
  <2>2. CASE Goto(t, "notify")
    BY <2>1, <2>2, <1>1, RunnerMoves DEF Places, Busy
  <2>3. CASE Goto(t, "save")
    BY <2>1, <2>3, <1>1, RunnerMoves DEF Places, Busy
  <2> QED
    BY <2>1, <2>2, <2>3
<1>3. t = Runner
  BY <1>1 DEF Basis, OneRunner
<1>4. Shape' /\ TasksOK'
  BY <1>2 DEF Basis, Shape, TasksOK, Generate, control, setup, Content
<1>5. InProgress'
  BY <1>1, <1>2, <1>3 DEF Basis, InProgress, Generate
<1>6. Versions'
  BY DEF Basis, Shape, Versions, Generate
<1>7. ASSUME Agreement PROVE Agreement'
  <2>1. saving' = Nothing
    BY <1>1, <1>2, <1>3 DEF Basis, InProgress, Generate
  <2> QED
    BY <1>7, <2>1 DEF Basis, Shape, Versions, Agreement, CountersHonest, Generate
<1> QED
  BY <1>2, <1>4, <1>5, <1>6, <1>7 DEF Basis

\* From the truncation on the save is in progress.
LEMMA SaveOpenStep ==
  ASSUME Basis, NEW t \in Threads, SaveOpen(t)
  PROVE  Basis' /\ (Agreement => Agreement')
<1>1. pc[t] \in Busy /\ pc[t] # "write"
  BY OperationAt DEF SaveOpen, Busy
<1>2. UNCHANGED <<synchronous, active, cycles>>
  BY DEF SaveOpen, control, setup
<1>3. CASE Goto(t, "write") /\ saving' = memory /\ file' = Blank
  <2>1. OneRunner' /\ pc'[Runner] = "write" /\ Runner' = Runner /\ pc' \in [Threads -> Places]
    BY <1>1, <1>2, <1>3, RunnerMoves DEF Places, Busy
  <2>2. Shape' /\ TasksOK'
    BY <1>3, <2>1 DEF Basis, Shape, TasksOK, SaveOpen, control, setup, versions, Content
  <2>3. memory # Nothing
    BY DataAssumption DEF Basis, Shape, Content
  <2>4. InProgress' /\ Versions' /\ (Agreement => Agreement')
    BY <1>3, <2>1, <2>3 DEF Basis, InProgress, Versions, Agreement, CountersHonest, SaveOpen, versions
  <2> QED
    BY <2>1, <2>2, <2>4 DEF Basis
<1>4. CASE Goto(t, "notify") /\ UNCHANGED <<saving, file>>
  <2>1. OneRunner' /\ pc'[Runner] = "notify" /\ Runner' = Runner /\ pc' \in [Threads -> Places]
        /\ t = Runner
    BY <1>1, <1>2, <1>4, RunnerMoves DEF Places, Busy
  <2>2. Shape' /\ TasksOK'
    BY <1>4, <2>1 DEF Basis, Shape, TasksOK, SaveOpen, control, setup, versions, Content
  <2>3. InProgress' /\ Versions' /\ (Agreement => Agreement')
    BY <1>1, <1>4, <2>1 DEF Basis, InProgress, Versions, Agreement, CountersHonest, SaveOpen, versions
  <2> QED
    BY <2>1, <2>2, <2>3 DEF Basis
<1> QED
  BY <1>3, <1>4 DEF SaveOpen, Done

\* The end of the save: what was written is still what is in memory.
LEMMA SaveWriteStep ==
  ASSUME Basis, NEW t \in Threads, SaveWrite(t)
  PROVE  Basis' /\ (Agreement => Agreement')
<1>1. pc[t] \in Busy /\ pc[t] = "write"
  BY DEF SaveWrite, Busy
<1>2. OneRunner' /\ pc'[Runner] = "notify" /\ Runner' = Runner /\ t = Runner
      /\ pc' \in [Threads -> Places]
  <2>1. UNCHANGED <<synchronous, active, cycles>> /\ Goto(t, "notify")
    BY DEF SaveWrite, Done, control, setup
  <2> QED
    BY <2>1, <1>1, RunnerMoves DEF Places, Busy
<1>3. saving # Nothing
  BY <1>1, <1>2 DEF Basis, InProgress
<1>4. Shape' /\ TasksOK'
  BY <1>2, <1>3 DEF Basis, Shape, TasksOK, SaveWrite, WriteFile, control, setup, Content
<1>5. InProgress' /\ Versions' /\ (Agreement => Agreement')
  BY <1>2, <1>3 DEF Basis, Shape, InProgress, Versions, Agreement, CountersHonest, SaveWrite, WriteFile
<1> QED
  BY <1>2, <1>4, <1>5 DEF Basis

\* The end of the store changes nothing of its content.
LEMMA CompleteStep ==
  ASSUME Basis, NEW t \in Threads, Complete(t)
  PROVE  Basis' /\ (Agreement => Agreement')
<1>1. pc[t] \in Busy /\ pc[t] # "write"
  BY OperationAt DEF Complete, Busy
<1>2. OneRunner' /\ pc'[Runner] = "notify" /\ Runner' = Runner /\ t = Runner
      /\ pc' \in [Threads -> Places]
  <2>1. UNCHANGED <<synchronous, active, cycles>> /\ Goto(t, "notify")
    BY DEF Complete, Done, setup
  <2> QED
    BY <2>1, <1>1, RunnerMoves DEF Places, Busy
<1>3. Shape' /\ TasksOK'
  BY <1>2 DEF Basis, Shape, TasksOK, Complete, setup, store, versions, content
<1>4. InProgress' /\ Versions' /\ (Agreement => Agreement')
  BY <1>1, <1>2
     DEF Basis, InProgress, Versions, Agreement, CountersHonest, Complete, store, versions, content
<1> QED
  BY <1>2, <1>3, <1>4 DEF Basis

\* Nor does telling those who wait.
LEMMA NotifyStep ==
  ASSUME Basis, NEW t \in Threads, NotifyFinished(t)
  PROVE  Basis' /\ (Agreement => Agreement')
<1>1. pc[t] \in Busy /\ pc[t] # "write"
  BY DEF NotifyFinished, Busy
<1>2. OneRunner' /\ pc'[Runner] = "post" /\ Runner' = Runner /\ t = Runner /\ pc' \in [Threads -> Places]
  <2>1. UNCHANGED <<synchronous, active, cycles>> /\ Goto(t, "post")
    BY DEF NotifyFinished, control, setup
  <2> QED
    BY <2>1, <1>1, RunnerMoves DEF Places, Busy
<1>3. events' \in Seq(EventSet)
  <2> DEFINE i == cur[t].id
             r == [events[i] EXCEPT !.state = "finished"]
  <2>1. events \in Seq(EventSet) /\ events' = [events EXCEPT ![i] = r]
    BY DEF Basis, Shape, NotifyFinished
  <2>2. ASSUME i \in 1..Len(events) PROVE r \in EventSet
    <3>1. events[i] \in EventSet
      BY <2>1, <2>2
    <3> QED
      BY <3>1 DEF EventSet
  <2> HIDE DEF i, r
  <2> QED
    BY <2>1, <2>2, UpdateKeepsEvents
<1>4. Shape' /\ TasksOK'
  BY <1>2, <1>3 DEF Basis, Shape, TasksOK, NotifyFinished, control, setup, store, versions, content
<1>5. InProgress' /\ Versions' /\ (Agreement => Agreement')
  BY <1>1, <1>2 DEF Basis, InProgress, Versions, Agreement, CountersHonest, NotifyFinished, store,
     versions, content
<1> QED
  BY <1>2, <1>4, <1>5 DEF Basis

\* Where a request leaves the thread that made it.
LEMMA ContinueTo ==
  ASSUME Basis, NEW t \in Threads, events' \in Seq(EventSet), Continue(t)
  PROVE  /\ Goto(t, "idle") \/ Goto(t, "have")
         /\ cur' \in [Threads -> GoodTask]
         /\ closing' \in {"no", "synchronize", "complete", "join"}
<1>1. cur \in [Threads -> GoodTask] /\ closing \in {"no", "synchronize", "complete", "join"}
  BY DEF Basis, TasksOK, Shape
<1>2. NoTask \in GoodTask /\ [NoTask EXCEPT !.id = Len(events')] \in GoodTask
  <2>1. Len(events') \in Nat
    OBVIOUS
  <2> QED
    BY <2>1, NoTaskIsGood
<1> QED
  BY <1>1, <1>2 DEF Continue

\* The runner is done with its event.
LEMMA PostStep ==
  ASSUME Basis, NEW t \in Threads, Post(t)
  PROVE  Basis' /\ (Agreement => Agreement')
<1>1. pc[t] \in Busy /\ pc[t] # "write"
      /\ UNCHANGED <<synchronous, active, cycles, events, queue, store>>
  BY DEF Post, Busy, setup
<1>2. /\ Goto(t, "idle") \/ Goto(t, "have") \/ Goto(t, "loop")
      /\ cur' \in [Threads -> GoodTask]
      /\ closing' \in {"no", "synchronize", "complete", "join"}
  <2>1. CASE t = Worker
    BY <2>1, NoTaskIsGood DEF Basis, TasksOK, Shape, Post, AfterRun
  <2>2. CASE t # Worker
    <3>1. Continue(t) /\ events' \in Seq(EventSet)
      BY <2>2, <1>1 DEF Post, AfterRun, Basis, Shape
    <3> QED
      BY <3>1, ContinueTo
  <2> QED
    BY <2>1, <2>2
<1>3. \A l \in {"idle", "have", "loop"} : Goto(t, l) =>
         /\ OneRunner' /\ pc'[Runner] = l /\ Runner' = Runner /\ t = Runner
         /\ pc' \in [Threads -> Places]
  BY <1>1, RunnerMoves DEF Places, Busy
<1>4. OneRunner' /\ pc'[Runner] # "write" /\ Runner' = Runner /\ t = Runner
      /\ pc' \in [Threads -> Places]
  BY <1>2, <1>3
<1>5. Shape' /\ TasksOK'
  BY <1>1, <1>2, <1>4 DEF Basis, Shape, TasksOK, store, versions, content
<1>6. InProgress' /\ Versions' /\ (Agreement => Agreement')
  BY <1>1, <1>4 DEF Basis, InProgress, Versions, Agreement, CountersHonest, store, versions, content
<1> QED
  BY <1>4, <1>5, <1>6 DEF Basis

-----------------------------------------------------------------------------
(* The steps beside the running of events.                                   *)

\* A new event joins the others.
LEMMA MadeEvents ==
  ASSUME Basis, NEW run \in BOOLEAN, events' = Append(events, NewEvent(run))
  PROVE  events' \in Seq(EventSet)
<1>1. NewEvent(run) \in EventSet
  BY DEF NewEvent, EventSet
<1> QED
  BY <1>1 DEF Basis, Shape

\* An activation counts a version that is newer than any.
LEMMA ActivateStep ==
  ASSUME Basis, Activate
  PROVE  Basis' /\ (Agreement => Agreement')
<1>1. /\ Runner' = Runner /\ Runner \in Threads
      /\ \A t \in Threads : pc[t] \notin Busy
  BY RunnerIsThread DEF Basis, OneRunner, Activate, Runner, setup
<1>2. /\ pc' \in [Threads -> Places] /\ pc'[Worker] = "loop"
      /\ \A u \in Threads : u # Worker => pc'[u] = pc[u]
  BY Moved, RunnerIsThread DEF Basis, Shape, Activate, Places
<1>3. \A t \in Threads : pc'[t] \notin Busy
  BY <1>1, <1>2 DEF Busy
<1>4. active' /\ cycles' > 0
  BY DEF Basis, Shape, Activate
<1>5. OneRunner'
  BY <1>2, <1>3, <1>4 DEF OneRunner
<1>6. Shape' /\ TasksOK'
  BY <1>2 DEF Basis, Shape, TasksOK, Activate, setup, content
<1>7. InProgress'
  BY <1>1, <1>3 DEF Basis, InProgress, Activate, content, Busy
<1>8. Versions' /\ (Agreement => Agreement')
  BY DEF Basis, Shape, Versions, Agreement, CountersHonest, Activate, content
<1> QED
  BY <1>5, <1>6, <1>7, <1>8 DEF Basis

\* activate(false) begins.
LEMMA DeactivateStep ==
  ASSUME Basis, Deactivate
  PROVE  Basis' /\ (Agreement => Agreement')
<1>1. UNCHANGED <<store, synchronous, cycles, active, events, pc, queue, cur>>
      /\ closing' = "synchronize"
  BY DEF Deactivate, setup
<1>2. events' \in Seq(EventSet) /\ pc' \in [Threads -> Places] /\ TasksOK' /\ active' \in BOOLEAN
  BY <1>1 DEF Basis, Shape, TasksOK
<1>3. /\ \A t \in Threads : pc'[t] \in Busy => active'
      /\ pc'[Worker] = "get" => ~synchronous
      /\ pc'[Worker] \in {"loop", "get"} => active'
  BY <1>1 DEF Basis, OneRunner
<1> QED
  BY <1>1, <1>2, <1>3, BesideRunner

\* activate(false) ends: the main thread was not running an event, nor was the
\* worker, which has left.
LEMMA JoinStep ==
  ASSUME Basis, Join
  PROVE  Basis' /\ (Agreement => Agreement')
<1>1. /\ UNCHANGED <<store, synchronous, cycles, events, pc, queue, cur>>
      /\ closing' = "no" /\ active' = FALSE /\ active \in BOOLEAN
      /\ pc[Main] = "idle" /\ pc[Worker] = "exited"
  BY DEF Basis, Shape, Join, setup
<1>2. events' \in Seq(EventSet) /\ pc' \in [Threads -> Places] /\ TasksOK'
  BY <1>1 DEF Basis, Shape, TasksOK
<1>3. \A t \in Threads : pc[t] \notin Busy
  BY <1>1 DEF Basis, OneRunner, Runner, Busy
<1>4. Shape'
  BY <1>1, <1>2 DEF Basis, Shape, store, versions, content
<1>5. OneRunner'
  BY <1>1, <1>3 DEF Basis, OneRunner, store, versions
<1>6. InProgress'
  BY <1>1 DEF Basis, InProgress, Runner, store, content
<1>7. Versions' /\ (Agreement => Agreement')
  BY <1>1 DEF Basis, Versions, Agreement, CountersHonest, store, versions, content
<1> QED
  BY <1>2, <1>4, <1>5, <1>6, <1>7 DEF Basis

\* A thread that runs no event moves to a place where it runs none.
LEMMA MoveBeside ==
  ASSUME Basis, NEW t \in Threads, pc[t] \notin Busy, NEW l \in Places \ Busy, Goto(t, l),
         UNCHANGED <<store, synchronous, cycles, active>>,
         events' \in Seq(EventSet), TasksOK',
         closing' \in {"no", "synchronize", "complete", "join"},
         t = Worker => (l \notin {"loop", "get"} \/ active) /\ (l = "get" => ~synchronous)
  PROVE  Basis' /\ (Agreement => Agreement')
<1>1. pc \in [Threads -> Places] /\ active \in BOOLEAN
  BY DEF Basis, Shape
<1>2. pc' \in [Threads -> Places] /\ pc'[t] = l /\ \A u \in Threads : u # t => pc'[u] = pc[u]
  BY <1>1, Moved
<1>3. \A u \in Threads : pc'[u] \in Busy => pc[u] = pc'[u] /\ active'
  BY <1>2 DEF Basis, OneRunner
<1>4. pc[Runner] \in Busy => pc'[Runner] = pc[Runner]
  BY <1>2, RunnerIsThread
<1>5. /\ pc'[Worker] = "get" => ~synchronous
      /\ pc'[Worker] \in {"loop", "get"} => active'
  BY <1>2, RunnerIsThread DEF Basis, OneRunner
<1> QED
  BY <1>1, <1>2, <1>3, <1>4, <1>5, BesideRunner

\* A request is put on the queue.
LEMMA EnqueueStep ==
  ASSUME Basis, NEW t \in Threads, t # Worker, NEW type \in TypeNames, Enqueue(t, type)
  PROVE  Basis' /\ (Agreement => Agreement')
<1>1. /\ UNCHANGED <<store, synchronous, cycles, active>>
      /\ pc[t] \notin Busy /\ Continue(t)
  BY DEF Enqueue, setup, Busy
<1>2. events' \in Seq(EventSet)
  <2>1. (active /\ open = "open") \in BOOLEAN
    OBVIOUS
  <2>2. events' = Append(events, NewEvent(active /\ open = "open"))
    BY DEF Enqueue
  <2> QED
    BY <2>1, <2>2, MadeEvents
<1>3. queue' \in Seq(GoodTask)
  <2>1. queue \in Seq(GoodTask) /\ events \in Seq(EventSet)
    BY DEF Basis, TasksOK, Shape
  <2>2. PICK d \in Payloads(type) : queue' \in {queue, Append(queue, Task(type, d))}
    BY DEF Enqueue
  <2>3. Task(type, d) \in GoodTask
    BY <2>1, RequestIsGood
  <2> QED
    BY <2>1, <2>2, <2>3
<1>4. /\ Goto(t, "idle") \/ Goto(t, "have")
      /\ cur' \in [Threads -> GoodTask]
      /\ closing' \in {"no", "synchronize", "complete", "join"}
  BY <1>1, <1>2, ContinueTo
<1>5. TasksOK'
  BY <1>3, <1>4 DEF TasksOK
<1>6. {"idle", "have"} \subseteq Places \ Busy
  BY DEF Places, Busy
<1> QED
  BY <1>1, <1>2, <1>4, <1>5, <1>6, MoveBeside

\* In synchronous mode the main thread becomes the runner.
LEMMA RunInlineStep ==
  ASSUME Basis, NEW type \in TypeNames, RunInline(Main, type)
  PROVE  Basis' /\ (Agreement => Agreement')
<1>1. /\ UNCHANGED <<store, synchronous, cycles, active, queue>>
      /\ pc[Main] = "idle" /\ pc[Main] \notin Busy /\ synchronous
  BY DEF RunInline, setup, Busy
<1>2. events' \in Seq(EventSet)
  <2>1. active \in BOOLEAN /\ events' = Append(events, NewEvent(active))
    BY DEF Basis, Shape, RunInline
  <2> QED
    BY <2>1, MadeEvents
<1>3. CASE ~active
  <2>1. Continue(Main)
    BY <1>3 DEF RunInline
  <2>2. /\ Goto(Main, "idle") \/ Goto(Main, "have")
        /\ cur' \in [Threads -> GoodTask]
        /\ closing' \in {"no", "synchronize", "complete", "join"}
    BY <1>2, <2>1, ContinueTo, RunnerIsThread
  <2>3. TasksOK'
    BY <1>1, <2>2 DEF Basis, TasksOK
  <2>4. {"idle", "have"} \subseteq Places \ Busy
    BY DEF Places, Busy
  <2> QED
    BY <1>1, <1>2, <2>2, <2>3, <2>4, MoveBeside, RunnerIsThread
<1>4. CASE active
  <2>1. PICK d \in Payloads(type) : cur' = [cur EXCEPT ![Main] = Task(type, d)]
    BY <1>4 DEF RunInline
  <2>2. Task(type, d) \in GoodTask
    BY RequestIsGood DEF Basis, Shape
  <2>3. TasksOK'
    BY <1>1, <2>1, <2>2 DEF Basis, TasksOK
  <2>4. /\ pc' \in [Threads -> Places] /\ pc'[Main] = "exec"
        /\ \A u \in Threads : u # Main => pc'[u] = pc[u]
    BY <1>4, Moved, RunnerIsThread DEF RunInline, Basis, Shape, Places, Busy
  <2>5. Runner = Main /\ Runner' = Main
    BY <1>1 DEF Runner
  <2>6. OneRunner'
    BY <1>1, <1>4, <2>4, <2>5, RunnerIsThread DEF Basis, OneRunner, store, versions
  <2>7. Shape'
    BY <1>1, <1>2, <1>4, <2>4 DEF Basis, Shape, RunInline, store, versions, content
  <2>8. InProgress' /\ Versions' /\ (Agreement => Agreement')
    BY <1>1, <2>4, <2>5
       DEF Basis, InProgress, Versions, Agreement, CountersHonest, store, versions, content
  <2> QED
    BY <2>3, <2>6, <2>7, <2>8 DEF Basis
<1> QED
  BY <1>3, <1>4

\* A callback is registered, ...
LEMMA OnFinishedStep ==
  ASSUME Basis, NEW t \in Threads, OnFinished(t)
  PROVE  Basis' /\ (Agreement => Agreement')
<1>1. /\ UNCHANGED <<store, synchronous, cycles, active, closing, queue, pc, cur>>
      /\ events' = [events EXCEPT ![cur[t].id] = [events[cur[t].id] EXCEPT !.waiting = 1]]
  BY DEF OnFinished, control, setup
<1>2. events' \in Seq(EventSet)
  <2> DEFINE i == cur[t].id
             r == [events[i] EXCEPT !.waiting = 1]
  <2>1. events \in Seq(EventSet)
    BY DEF Basis, Shape
  <2>2. ASSUME i \in 1..Len(events) PROVE r \in EventSet
    <3>1. events[i] \in EventSet
      BY <2>1, <2>2
    <3> QED
      BY <3>1 DEF EventSet
  <2>3. events' = [events EXCEPT ![i] = r]
    BY <1>1
  <2> HIDE DEF i, r
  <2> QED
    BY <2>1, <2>2, <2>3, UpdateKeepsEvents
<1>3. pc' \in [Threads -> Places] /\ TasksOK' /\ active' \in BOOLEAN
      /\ closing' \in {"no", "synchronize", "complete", "join"}
  BY <1>1 DEF Basis, Shape, TasksOK
<1>4. /\ \A u \in Threads : pc'[u] \in Busy => active'
      /\ pc'[Worker] = "get" => ~synchronous
      /\ pc'[Worker] \in {"loop", "get"} => active'
  BY <1>1 DEF Basis, OneRunner
<1> QED
  BY <1>1, <1>2, <1>3, <1>4, BesideRunner

\* ... a thread waits for its event, ...
LEMMA WaitForFinishedStep ==
  ASSUME Basis, NEW t \in Threads, WaitForFinished(t)
  PROVE  Basis' /\ (Agreement => Agreement')
<1>1. /\ UNCHANGED <<store, synchronous, cycles, active, closing, queue, events, cur>>
      /\ pc[t] \notin Busy /\ Goto(t, "wait")
  BY DEF WaitForFinished, control, setup, Busy
<1>2. events' \in Seq(EventSet) /\ TasksOK' /\ closing' \in {"no", "synchronize", "complete", "join"}
  BY <1>1 DEF Basis, Shape, TasksOK
<1>3. "wait" \in Places \ Busy
  BY DEF Places, Busy
<1> QED
  BY <1>1, <1>2, <1>3, MoveBeside

\* ... and is done with it.
LEMMA ReleaseStep ==
  ASSUME Basis, NEW t \in Threads, Release(t)
  PROVE  Basis' /\ (Agreement => Agreement')
<1>1. /\ UNCHANGED <<store, synchronous, cycles, active, closing, queue, events>>
      /\ pc[t] \notin Busy /\ Goto(t, "idle") /\ cur' = [cur EXCEPT ![t] = NoTask]
  BY DEF Release, control, setup, Busy
<1>2. events' \in Seq(EventSet) /\ TasksOK' /\ closing' \in {"no", "synchronize", "complete", "join"}
  BY <1>1, NoTaskIsGood DEF Basis, Shape, TasksOK
<1>3. "idle" \in Places \ Busy
  BY DEF Places, Busy
<1> QED
  BY <1>1, <1>2, <1>3, MoveBeside

\* The event loop calls what was registered.
LEMMA RunCallbacksStep ==
  ASSUME Basis, RunCallbacks
  PROVE  Basis' /\ (Agreement => Agreement')
<1> DEFINE i == Head(posted)
           r == [events[i] EXCEPT !.called = @ + events[i].waiting, !.waiting = 0]
<1>1. /\ UNCHANGED <<store, synchronous, cycles, active, closing, queue, pc, cur>>
      /\ events' = [events EXCEPT ![i] = r]
  BY DEF RunCallbacks, control, setup
<1>2. events' \in Seq(EventSet)
  <2>1. events \in Seq(EventSet)
    BY DEF Basis, Shape
  <2>2. ASSUME i \in 1..Len(events) PROVE r \in EventSet
    <3>1. events[i] \in EventSet
      BY <2>1, <2>2
    <3>2. events[i].called \in Nat /\ events[i].waiting \in Nat
      BY <3>1 DEF EventSet
    <3>3. events[i].called + events[i].waiting \in Nat
      BY <3>2
    <3> HIDE DEF i
    <3> QED
      BY <3>1, <3>3 DEF EventSet
  <2> HIDE DEF i, r
  <2> QED
    BY <1>1, <2>1, <2>2, UpdateKeepsEvents
<1>3. pc' \in [Threads -> Places] /\ TasksOK' /\ active' \in BOOLEAN
      /\ closing' \in {"no", "synchronize", "complete", "join"}
  BY <1>1 DEF Basis, Shape, TasksOK
<1>4. /\ \A u \in Threads : pc'[u] \in Busy => active'
      /\ pc'[Worker] = "get" => ~synchronous
      /\ pc'[Worker] \in {"loop", "get"} => active'
  BY <1>1 DEF Basis, OneRunner
<1> QED
  BY <1>1, <1>2, <1>3, <1>4, BesideRunner

\* The worker looks whether it is to go on.
LEMMA WorkerLoopStep ==
  ASSUME Basis, WorkerLoop
  PROVE  Basis' /\ (Agreement => Agreement')
<1>1. /\ UNCHANGED <<store, synchronous, cycles, active, closing, queue, events, cur>>
      /\ pc[Worker] = "loop" /\ pc[Worker] \notin Busy
      /\ Goto(Worker, "exited") \/ (Goto(Worker, "get") /\ ~synchronous)
  BY DEF WorkerLoop, control, setup, Busy
<1>2. events' \in Seq(EventSet) /\ TasksOK' /\ closing' \in {"no", "synchronize", "complete", "join"}
  BY <1>1 DEF Basis, Shape, TasksOK
<1>3. active
  BY <1>1 DEF Basis, OneRunner
<1>4. {"exited", "get"} \subseteq Places \ Busy
  BY DEF Places, Busy
<1> QED
  BY <1>1, <1>2, <1>3, <1>4, MoveBeside, RunnerIsThread

\* The worker takes the oldest event: it is the runner, for no other thread runs
\* events when the store is not synchronous.
LEMMA WorkerGetStep ==
  ASSUME Basis, WorkerGet
  PROVE  Basis' /\ (Agreement => Agreement')
<1>1. /\ UNCHANGED <<store, synchronous, cycles, active, closing, events>>
      /\ pc[Worker] = "get" /\ pc[Worker] \notin Busy
  BY DEF WorkerGet, control, setup, Busy
<1>2. ~synchronous /\ active
  BY <1>1 DEF Basis, OneRunner
<1>3. CASE Goto(Worker, "loop") /\ UNCHANGED <<queue, cur>>
  <2>1. events' \in Seq(EventSet) /\ TasksOK' /\ closing' \in {"no", "synchronize", "complete", "join"}
    BY <1>1, <1>3 DEF Basis, Shape, TasksOK
  <2>2. "loop" \in Places \ Busy
    BY DEF Places, Busy
  <2> QED
    BY <1>1, <1>2, <1>3, <2>1, <2>2, MoveBeside, RunnerIsThread
<1>4. CASE /\ queue # <<>> /\ queue' = Tail(queue)
           /\ cur' = [cur EXCEPT ![Worker] = Head(queue)]
           /\ Goto(Worker, "exec")
  <2>1. queue \in Seq(GoodTask) /\ cur \in [Threads -> GoodTask]
    BY DEF Basis, TasksOK
  <2>2. TasksOK'
    <3>1. Head(queue) \in GoodTask /\ Tail(queue) \in Seq(GoodTask)
      BY <1>4, <2>1, HeadTailProperties
    <3> QED
      BY <1>4, <2>1, <3>1 DEF TasksOK
  <2>3. /\ pc' \in [Threads -> Places] /\ pc'[Worker] = "exec"
        /\ \A u \in Threads : u # Worker => pc'[u] = pc[u]
    BY <1>4, Moved, RunnerIsThread DEF Basis, Shape, Places, Busy
  <2>4. Runner = Worker /\ Runner' = Worker
    BY <1>1, <1>2 DEF Runner
  <2>5. OneRunner'
    BY <1>1, <1>2, <2>3, <2>4, RunnerIsThread DEF Basis, OneRunner, store, versions
  <2>6. Shape'
    BY <1>1, <2>3 DEF Basis, Shape, store, versions, content
  <2>7. InProgress' /\ Versions' /\ (Agreement => Agreement')
    BY <1>1, <2>3, <2>4
       DEF Basis, InProgress, Versions, Agreement, CountersHonest, store, versions, content
  <2> QED
    BY <2>2, <2>5, <2>6, <2>7 DEF Basis
<1> QED
  BY <1>3, <1>4 DEF WorkerGet

\* A process that starts again has everything to do.
LEMMA RestartStep ==
  ASSUME Basis, Restart
  PROVE  Basis' /\ (Agreement => Agreement')
<1>1. Shape'
  <2>1. pc' \in [Threads -> Places]
    BY DEF Restart, Quiet, Places
  <2>2. events' \in Seq(EventSet)
    BY DEF Restart
  <2>3. file' \in Content \cup {Torn, NoFile}
    BY DEF Restart, Basis, Shape, Content
  <2> QED
    BY <2>1, <2>2, <2>3 DEF Basis, Restart, Shape, Content
<1>2. TasksOK'
  BY NoTaskIsGood DEF Restart, TasksOK
<1>3. OneRunner'
  BY RunnerIsThread DEF Restart, OneRunner, Quiet, Busy
<1>4. InProgress'
  <2>1. \A t \in Threads : pc'[t] # "write"
    BY DEF Restart, Quiet
  <2>2. Runner' \in Threads
    BY RunnerIsThread DEF Runner
  <2> QED
    BY <2>1, <2>2 DEF Restart, InProgress
<1>5. Versions' /\ (Agreement => Agreement')
  BY DEF Restart, Versions, Agreement, CountersHonest
<1> QED
  BY <1>1, <1>2, <1>3, <1>4, <1>5 DEF Basis

-----------------------------------------------------------------------------
(* The invariant.                                                            *)

\* What a user of the store can request.
LEMMA UsersRequest ==
  ASSUME Basis, NEW t \in Users
  PROVE  /\ t \in Threads /\ t # Worker
         /\ synchronous => t = Main
         /\ \A type \in Requests(t) : type \in TypeNames
<1>1. t \in Threads /\ t # Worker /\ (synchronous => t = Main)
  BY ThreadAssumption DEF Users, Clients, Threads
<1>2. \A type \in Requests(t) : type \in TypeNames
  BY RequestAssumption DEF Requests, TypeNames, Basis, Shape
<1> QED
  BY <1>1, <1>2

LEMMA RequestsAreTypes ==
  ASSUME IInv, NEW t \in Users
  PROVE  /\ t \in Threads /\ t # Worker
         /\ synchronous => t = Main
         /\ \A type \in Requests(t) : type \in TypeNames
  BY UsersRequest DEF IInv

\* Running an event keeps the invariant.
LEMMA RunStepStep ==
  ASSUME Basis, NEW t \in Threads, RunStep(t)
  PROVE  Basis' /\ (Agreement => Agreement')
  BY LookStep, SetStep, ClearStep, LoadStep, GenerateStep, SaveOpenStep, SaveWriteStep,
     CompleteStep, NotifyStep, PostStep DEF RunStep

\* Every step keeps the invariant.
LEMMA NextBasis ==
  ASSUME Basis, [Next]_vars
  PROVE  Basis' /\ (Agreement => Agreement')
<1>1. ASSUME NEW t \in Users, NEW type \in Requests(t), Request(t, type)
      PROVE  Basis' /\ (Agreement => Agreement')
  <2>1. CASE Enqueue(t, type)
    BY <2>1, UsersRequest, EnqueueStep
  <2>2. CASE RunInline(t, type)
    <3>1. t = Main /\ type \in TypeNames
      BY <2>2, UsersRequest DEF RunInline
    <3> QED
      BY <2>2, <3>1, RunInlineStep
  <2> QED
    BY <1>1, <2>1, <2>2 DEF Request
<1>2. ASSUME NEW t \in Users, OnFinished(t) \/ WaitForFinished(t) \/ Release(t)
      PROVE  Basis' /\ (Agreement => Agreement')
  BY <1>2, UsersRequest, OnFinishedStep, WaitForFinishedStep, ReleaseStep
<1>3. CASE Activate \/ Deactivate \/ Join \/ RunCallbacks \/ Restart
  BY <1>3, ActivateStep, DeactivateStep, JoinStep, RunCallbacksStep, RestartStep
<1>4. CASE WorkerLoop \/ WorkerGet
  BY <1>4, WorkerLoopStep, WorkerGetStep
<1>5. CASE UNCHANGED vars
  <2>1. UNCHANGED <<synchronous, active, closing, disk, mem, auto, cycles, memory, file, saving,
                    unseen, events, pc, queue, cur>>
    BY <1>5 DEF vars, control, setup, store, versions, content
  <2>2. Shape' /\ TasksOK'
    BY <2>1 DEF Basis, Shape, TasksOK
  <2>3. OneRunner' /\ InProgress' /\ Versions'
    BY <2>1 DEF Basis, OneRunner, InProgress, Versions, Runner
  <2>4. Agreement => Agreement'
    BY <2>1 DEF Agreement, CountersHonest
  <2> QED
    BY <2>2, <2>3, <2>4 DEF Basis
<1> QED
  BY <1>1, <1>2, <1>3, <1>4, <1>5, RunStepStep DEF Next

LEMMA NextIInv == ASSUME IInv, [Next]_vars PROVE IInv'
  BY NextBasis DEF IInv

\* It holds initially.
THEOREM InitIInv == Init => IInv
<1> SUFFICES ASSUME Init PROVE IInv
  OBVIOUS
<1>1. Shape
  <2>1. pc \in [Threads -> Places]
    BY DEF Init, Quiet, Places
  <2>2. events \in Seq(EventSet)
    BY DEF Init
  <2> QED
    BY <2>1, <2>2 DEF Init, Shape, Content
<1>2. TasksOK
  BY NoTaskIsGood DEF Init, TasksOK
<1>3. OneRunner
  BY RunnerIsThread DEF Init, OneRunner, Quiet, Busy
<1>4. InProgress
  BY RunnerIsThread DEF Init, InProgress, Quiet
<1>5. Versions /\ Agreement
  BY DEF Init, Versions, Agreement, CountersHonest
<1> QED
  BY <1>1, <1>2, <1>3, <1>4, <1>5 DEF IInv, Basis

\* The invariant holds of every reachable state.
THEOREM InvariantHolds == Spec => []IInv
<1>1. IInv /\ [Next]_vars => IInv'
  BY NextIInv
<1> QED
  BY InitIInv, <1>1, PTL DEF Spec

\* When the counters agree on a version, the file holds what is in memory, for
\* every order of requests, failures, crashes and activations.
THEOREM CountersTellTruth == Spec => []CountersHonest
<1>1. IInv => CountersHonest
  BY DEF IInv, Agreement
<1> QED
  BY InvariantHolds, <1>1, PTL

\* Events run on an active store only, and a save in progress has its thread.
THEOREM StoreInUse == Spec => []InUse
<1>1. IInv => InUse
  <2> SUFFICES ASSUME IInv PROVE InUse
    OBVIOUS
  <2>1. (\E t \in Threads : pc[t] \in Busy) => active
    BY DEF IInv, Basis, OneRunner
  <2>2. (\E t \in Threads : pc[t] = "write") => pc[Runner] = "write"
    BY DEF IInv, Basis, OneRunner, Busy
  <2>3. Runner \in Threads
    BY RunnerIsThread
  <2> QED
    BY <2>1, <2>2, <2>3 DEF InUse, IInv, Basis, Agreement, InProgress
<1> QED
  BY InvariantHolds, <1>1, PTL

\* In a process that has activated its store once, the load of synchronize() never
\* overwrites what a client has set.  (After a second activation it may.)
LEMMA OneActivation == Spec => [](cycles <= 1 => LoadNeverDiscards)
<1> DEFINE Once == cycles <= 1 => LoadNeverDiscards
<1>1. Init => Once
  BY DEF Init, LoadNeverDiscards
<1>2. ASSUME IInv, Once, [Next]_vars PROVE Once'
  <2>1. /\ disk \in Nat /\ mem \in Nat /\ auto \in Nat /\ cycles \in Nat
        /\ disk <= auto /\ mem <= auto /\ (mem # 0 => cycles > 0)
    BY <1>2 DEF IInv, Basis, Shape, Versions, OneRunner
  <2>2. CASE Activate
    BY <2>1, <2>2 DEF LoadNeverDiscards, Activate
  <2>3. CASE Restart
    BY <2>3 DEF LoadNeverDiscards, Restart
  <2>4. CASE UNCHANGED <<versions, cycles>>
    BY <1>2, <2>4 DEF LoadNeverDiscards, versions
  <2>5. ASSUME NEW t \in Threads, RunStep(t) PROVE Once'
    <3>0. cycles' = cycles
      BY <2>5 DEF RunStep, Look, Set, Clear, Load, Generate, SaveOpen, SaveWrite, Complete,
                  NotifyFinished, Post, control
    <3>1. CASE Set(t) \/ Generate(t)
      <4>1. /\ (mem' = auto + 1 \/ mem' = mem)
            /\ disk' = disk
        BY <3>1 DEF Set, Generate
      <4> QED
        BY <1>2, <2>1, <3>0, <4>1 DEF LoadNeverDiscards
    <3>2. CASE Clear(t)
      <4>1. (mem' = 0 \/ mem' = mem) /\ (disk' = 0 \/ disk' = disk)
        BY <3>2 DEF Clear
      <4> QED
        BY <1>2, <2>1, <3>0, <4>1 DEF LoadNeverDiscards
    <3>3. CASE Load(t)
      <4>1. (mem' = disk \/ mem' = mem) /\ disk' = disk
        BY <3>3 DEF Load
      <4> QED
        BY <1>2, <2>1, <3>0, <4>1 DEF LoadNeverDiscards
    <3>4. CASE SaveWrite(t)
      BY <2>1, <3>4 DEF LoadNeverDiscards, SaveWrite
    <3>5. CASE Look(t) \/ SaveOpen(t) \/ Complete(t) \/ NotifyFinished(t) \/ Post(t)
      BY <2>4, <3>0, <3>5 DEF Look, SaveOpen, Complete, NotifyFinished, Post, store
    <3> QED
      BY <2>5, <3>1, <3>2, <3>3, <3>4, <3>5 DEF RunStep
  <2>6. CASE \/ Deactivate \/ Join \/ RunCallbacks \/ WorkerLoop \/ WorkerGet
             \/ \E t \in Users :
                   \/ \E type \in Requests(t) : Request(t, type)
                   \/ OnFinished(t) \/ WaitForFinished(t) \/ Release(t)
    <3>1. UNCHANGED versions
      BY <2>6 DEF Deactivate, Join, RunCallbacks, WorkerLoop, WorkerGet, Request, Enqueue,
                  RunInline, OnFinished, WaitForFinished, Release, store
    <3>2. UNCHANGED cycles
      BY <2>6 DEF Deactivate, Join, RunCallbacks, WorkerLoop, WorkerGet, Request, Enqueue,
                  RunInline, OnFinished, WaitForFinished, Release, control
    <3> QED
      BY <3>1, <3>2, <2>4
  <2>7. CASE UNCHANGED vars
    BY <2>4, <2>7 DEF vars, store, control
  <2> QED
    BY <1>2, <2>2, <2>3, <2>5, <2>6, <2>7 DEF Next
<1> QED
  BY InvariantHolds, <1>1, <1>2, PTL DEF Spec

\* So it is in every process that activates its store only once.
THEOREM LoadDiscardsNothing ==
  ASSUME MaxCycles <= 1
  PROVE  Spec => []LoadNeverDiscards
<1>1. Init => cycles <= MaxCycles
  BY BoundsAssumption DEF Init
<1>2. ASSUME IInv, cycles <= MaxCycles, [Next]_vars PROVE (cycles <= MaxCycles)'
  <2>1. MaxCycles \in Nat /\ cycles \in Nat
    BY <1>2, BoundsAssumption DEF IInv, Basis, Shape
  <2>2. CASE Activate \/ Restart
    BY <2>1, <2>2 DEF Activate, Restart
  <2>3. CASE UNCHANGED cycles
    BY <1>2, <2>3
  <2>4. CASE \E t \in Threads : RunStep(t)
    BY <2>3, <2>4 DEF RunStep, Look, Set, Clear, Load, Generate, SaveOpen, SaveWrite, Complete,
                      NotifyFinished, Post, control
  <2>5. CASE \/ Deactivate \/ Join \/ RunCallbacks \/ WorkerLoop \/ WorkerGet
             \/ \E t \in Users :
                   \/ \E type \in Requests(t) : Request(t, type)
                   \/ OnFinished(t) \/ WaitForFinished(t) \/ Release(t)
    BY <2>3, <2>5 DEF Deactivate, Join, RunCallbacks, WorkerLoop, WorkerGet, Request, Enqueue,
                      RunInline, OnFinished, WaitForFinished, Release, control
  <2>6. CASE UNCHANGED vars
    BY <2>3, <2>6 DEF vars, control
  <2> QED
    BY <1>2, <2>2, <2>4, <2>5, <2>6 DEF Next
<1>3. IInv /\ cycles <= MaxCycles => cycles <= 1
  BY BoundsAssumption DEF IInv, Basis, Shape
<1> QED
  BY InvariantHolds, OneActivation, <1>1, <1>2, <1>3, PTL DEF Spec

-----------------------------------------------------------------------------
(* The promise: AsyncStore implements StorePromise.                          *)

Middle == {"exec", "save", "write"}

\* What the runner is at, and that a save is still called for.
Serving ==
    /\ \A i \in 1..Len(queue) : queue[i].type # "none"
    /\ pc[Runner] \in Middle => cur[Runner].type # "none"
    /\ pc[Runner] = "save" => cur[Runner].type = "synchronize"
    /\ pc[Runner] = "write" => cur[Runner].type \in {"save", "synchronize"}
    /\ pc[Runner] \in {"save", "write"} /\ cur[Runner].type = "synchronize" => disk < mem

\* What the promise sees of the store is what the runner does.
LEMMA RunnerServes ==
  ASSUME IInv
  PROVE  /\ pc[Runner] \in Middle => Doing = cur[Runner].type /\ With = cur[Runner].data
         /\ pc[Runner] \notin Middle => Doing = "nothing" /\ With = Nothing
         /\ pc[Runner] # "write" => Saved = file
<1>1. Running = IF pc[Runner] \in Middle THEN {Runner} ELSE {}
  BY RunnerIsThread DEF IInv, Basis, OneRunner, Running, Middle, Busy
<1>2. (CHOOSE t \in {Runner} : TRUE) = Runner
  OBVIOUS
<1> QED
  BY <1>1, <1>2 DEF Doing, With, Saved, IInv, Basis, Agreement, InProgress

\* So it is after a step.
LEMMA RunnerServesThen ==
  ASSUME IInv'
  PROVE  /\ pc'[Runner'] \in Middle => Doing' = cur'[Runner'].type /\ With' = cur'[Runner'].data
         /\ pc'[Runner'] \notin Middle => Doing' = "nothing" /\ With' = Nothing
         /\ pc'[Runner'] # "write" => Saved' = file'
<1>1. Running' = IF pc'[Runner'] \in Middle THEN {Runner'} ELSE {}
  <2>1. Runner' \in Threads
    BY RunnerIsThread DEF Runner
  <2> QED
    BY <2>1 DEF IInv, Basis, OneRunner, Running, Middle, Busy
<1>2. (CHOOSE t \in {Runner'} : TRUE) = Runner'
  OBVIOUS
<1> QED
  BY <1>1, <1>2 DEF Doing, With, Saved, IInv, Basis, Agreement, InProgress

\* The runner carries out its event and is done with it.
LEMMA RunnerEnds ==
  ASSUME IInv, IInv', Serving, NEW t \in Threads, pc[t] \in Middle, Goto(t, "notify"),
         UNCHANGED <<synchronous, cur, queue>>
  PROVE  /\ t = Runner /\ Serving'
         /\ Doing = cur[t].type /\ With = cur[t].data /\ Doing \notin {"none", "nothing"}
         /\ Doing' = "nothing" /\ With' = Nothing
         /\ pc[t] # "write" => Saved = file
         /\ Saved' = file'
<1>1. t = Runner /\ Runner' = Runner /\ pc \in [Threads -> Places]
  BY DEF IInv, Basis, OneRunner, Shape, Middle, Busy, Runner
<1>2. pc'[Runner] = "notify"
  BY <1>1 DEF Goto
<1>3. cur[t] \in GoodTask /\ cur[t].type # "none"
  BY <1>1 DEF IInv, Basis, TasksOK, Serving
<1>4. cur[t].type \in TypeNames /\ "nothing" \notin TypeNames
  BY <1>3, RequestAssumption DEF GoodTask, TaskSet, TypeNames
<1>5. Serving'
  BY <1>1, <1>2 DEF Serving, Middle
<1> QED
  BY <1>1, <1>2, <1>3, <1>4, <1>5, RunnerServes, RunnerServesThen DEF Middle

\* Where setSync() ends, so does the set.
LEMMA SetPromise ==
  ASSUME IInv, IInv', Serving, NEW t \in Threads, Set(t)
  PROVE  Serving' /\ [Promise!Next]_(Promise!vars)
<1>1. /\ pc[t] = "exec" /\ cur[t].type = "set" /\ Goto(t, "notify")
      /\ UNCHANGED <<synchronous, cur, queue, disk, file>>
  BY DEF Set, Done, Operation, SyncChoice, control, setup
<1>2. /\ Serving' /\ Doing = "set" /\ With = cur[t].data /\ Doing' = "nothing" /\ With' = Nothing
      /\ Saved = file /\ Saved' = file'
  BY <1>1, RunnerEnds DEF Middle
<1>3. mem \in Nat /\ disk \in Nat /\ auto \in Nat /\ disk <= auto
  BY DEF IInv, Basis, Shape, Versions
<1>4. CASE memory' = cur[t].data /\ mem' = auto + 1
  <2>1. mem' # 0 /\ ((disk' # 0 /\ disk' < mem') <=> disk # 0)
    BY <1>1, <1>3, <1>4
  <2>2. Promise!Set
    BY <1>1, <1>2, <1>4, <2>1 DEF Promise!Set, Promise!Job, Promise!Renew, Promise!End, Set
  <2> QED
    BY <1>2, <2>2 DEF Promise!Next
<1>5. CASE UNCHANGED <<memory, mem>> /\ CanFail # {}
  <2>1. Promise!Look
    BY <1>1, <1>2, <1>5 DEF Promise!Look, Promise!Job, Promise!End, Set
  <2> QED
    BY <1>2, <2>1 DEF Promise!Next
<1> QED
  BY <1>4, <1>5 DEF Set, Outcomes

\* Where a step only looks, fails or completes, the request is over.
LEMMA LookPromise ==
  ASSUME IInv, IInv', Serving, NEW t \in Threads, Look(t) \/ Complete(t)
  PROVE  Serving' /\ [Promise!Next]_(Promise!vars)
<1>1. /\ pc[t] = "exec" /\ Goto(t, "notify")
      /\ UNCHANGED <<synchronous, cur, queue, mem, disk, file, memory>>
  BY DEF Look, Complete, Done, Operation, SyncChoice, control, setup, store, versions, content
<1>2. /\ Serving' /\ Doing = cur[t].type /\ Doing # "nothing" /\ Doing' = "nothing" /\ With' = Nothing
      /\ Saved = file /\ Saved' = file'
  BY <1>1, RunnerEnds DEF Middle
<1>3. mem \in Nat /\ disk \in Nat
  BY DEF IInv, Basis, Shape
<1>4. Promise!Job \in {"status", "get", "complete"}
  <2>1. CASE cur[t].type = "synchronize"
    <3>1. disk = mem /\ disk # 0
      BY <1>1, <1>3, <2>1 DEF Look, Complete, Operation, SyncChoice
    <3> QED
      BY <3>1, <1>2, <1>3, <2>1 DEF Promise!Job
  <2>2. CASE cur[t].type # "synchronize"
    <3>1. cur[t].type \in {"status", "get", "complete", "none"}
      BY <1>1, <2>2 DEF Look, Complete, Operation
    <3>2. Doing # "none"
      BY <1>1, RunnerEnds DEF Middle
    <3> QED
      BY <3>1, <3>2, <1>2, <2>2 DEF Promise!Job
  <2> QED
    BY <2>1, <2>2
<1>5. Promise!Look
  BY <1>1, <1>2, <1>4 DEF Promise!Look, Promise!End, Look, Complete, store, content
<1> QED
  BY <1>2, <1>5 DEF Promise!Next

\* Where clearSync() ends, so does the clear, of whatever could be cleared.
LEMMA ClearPromise ==
  ASSUME IInv, IInv', Serving, NEW t \in Threads, Clear(t)
  PROVE  Serving' /\ [Promise!Next]_(Promise!vars)
<1>1. /\ pc[t] = "exec" /\ cur[t].type = "clear" /\ Goto(t, "notify")
      /\ UNCHANGED <<synchronous, cur, queue>>
  BY DEF Clear, Done, Operation, SyncChoice, control, setup
<1>2. /\ Serving' /\ Doing = "clear" /\ Doing' = "nothing" /\ With' = Nothing
      /\ Saved = file /\ Saved' = file'
  BY <1>1, RunnerEnds DEF Middle
<1>3. mem \in Nat /\ disk \in Nat
  BY DEF IInv, Basis, Shape
<1>4. /\ \/ file' = NoFile /\ disk' = 0
         \/ CanFail # {} /\ file' = file /\ disk' = disk
      /\ \/ memory' = Blank /\ mem' = 0
         \/ CanFail # {} /\ memory' = memory /\ mem' = mem
  BY DEF Clear, Outcomes
<1>5. (disk' # 0 /\ disk' < mem') <=> ((disk # 0 /\ disk < mem) /\ disk' # 0 /\ mem' # 0)
  BY <1>3, <1>4
<1>6. Promise!Clear
  BY <1>2, <1>4, <1>5 DEF Promise!Clear, Promise!Job, Promise!End, Clear
<1> QED
  BY <1>2, <1>6 DEF Promise!Next

\* Where loadSync() ends, so does the load; synchronize() loads only when memory
\* holds nothing.
LEMMA LoadPromise ==
  ASSUME IInv, IInv', Serving, LoadNeverDiscards, NEW t \in Threads, Load(t)
  PROVE  Serving' /\ [Promise!Next]_(Promise!vars)
<1>1. /\ pc[t] = "exec" /\ Goto(t, "notify")
      /\ UNCHANGED <<synchronous, cur, queue, disk, file>>
  BY DEF Load, Done, Operation, SyncChoice, control, setup
<1>2. /\ Serving' /\ Doing = cur[t].type /\ Doing # "nothing" /\ Doing' = "nothing" /\ With' = Nothing
      /\ Saved = file /\ Saved' = file'
  BY <1>1, RunnerEnds DEF Middle
<1>3. mem \in Nat /\ disk \in Nat
  BY DEF IInv, Basis, Shape
<1>4. Promise!Job = "load"
  <2>1. CASE cur[t].type = "synchronize"
    <3>1. disk > mem
      BY <1>1, <1>3, <2>1 DEF Load, Operation, SyncChoice
    <3>2. mem = 0 /\ disk # 0
      BY <3>1, <1>3 DEF LoadNeverDiscards
    <3> QED
      BY <3>2, <1>2, <2>1 DEF Promise!Job
  <2>2. CASE cur[t].type # "synchronize"
    <3>1. cur[t].type = "load"
      BY <1>1, <2>2 DEF Load, Operation
    <3> QED
      BY <3>1, <1>2 DEF Promise!Job
  <2> QED
    BY <2>1, <2>2
<1>5. CASE /\ mem' = disk
           /\ \/ file \notin {NoFile, Torn} /\ memory' = file /\ unseen' = "none"
              \/ "fileRead" \in CanFail /\ file # NoFile /\ memory' = Blank /\ unseen' = "fileRead"
  <2>1. (mem' # 0 <=> disk # 0) /\ ~(disk' # 0 /\ disk' < mem')
    BY <1>1, <1>3, <1>5
  <2>2. Promise!Load
    BY <1>1, <1>2, <1>4, <1>5, <2>1 DEF Promise!Load, Promise!Readable, Promise!End
  <2> QED
    BY <1>2, <2>2 DEF Promise!Next
<1>6. CASE UNCHANGED <<memory, mem, unseen>> /\ (CanFail # {} \/ file \in {NoFile, Torn})
  <2>1. Promise!Look
    BY <1>1, <1>2, <1>4, <1>6 DEF Promise!Look, Promise!Readable, Promise!End
  <2> QED
    BY <1>2, <2>1 DEF Promise!Next
<1> QED
  BY <1>5, <1>6, LoadOutcomes DEF LoadOutcome

\* The runner goes on with its event.
LEMMA RunnerGoesOn ==
  ASSUME IInv, IInv', NEW t \in Threads, pc[t] \in Middle, NEW l \in {"save", "write"}, Goto(t, l),
         UNCHANGED <<synchronous, cur>>
  PROVE  /\ t = Runner /\ Runner' = Runner /\ pc'[Runner] = l
         /\ Doing = cur[t].type /\ Doing' = Doing /\ With' = With
         /\ pc[t] # "write" => Saved = file
         /\ l = "save" => Saved' = file'
<1>1. t = Runner /\ Runner' = Runner /\ pc \in [Threads -> Places]
  BY DEF IInv, Basis, OneRunner, Shape, Middle, Busy, Runner
<1>2. pc'[Runner] = l
  BY <1>1 DEF Goto
<1> QED
  BY <1>1, <1>2, RunnerServes, RunnerServesThen DEF Middle

\* Where generateSync() ends, the memory is new; a bootstrap goes on with a save.
LEMMA GeneratePromise ==
  ASSUME IInv, IInv', Serving, NEW t \in Threads, Generate(t)
  PROVE  Serving' /\ [Promise!Next]_(Promise!vars)
<1>1. /\ pc[t] = "exec" /\ UNCHANGED <<synchronous, cur, queue, disk, file>>
      /\ \/ cur[t].type = "generate" /\ Operation(t) = "generate"
         \/ cur[t].type = "synchronize" /\ Operation(t) = "bootstrap"
  BY RequestAssumption DEF Generate, Operation, SyncChoice, control, setup, IInv, Basis, TasksOK,
     GoodTask, TaskSet, TypeNames
<1>2. mem \in Nat /\ disk \in Nat /\ auto \in Nat /\ disk <= auto
  BY DEF IInv, Basis, Shape, Versions
<1>3. ASSUME Doing = cur[t].type PROVE Promise!Job = "generate"
  <2>1. CASE cur[t].type = "synchronize"
    <3>1. disk = 0 /\ mem = 0
      BY <1>1, <1>2, <2>1 DEF Operation, SyncChoice
    <3> QED
      BY <3>1, <2>1, <1>3 DEF Promise!Job
  <2>2. CASE cur[t].type # "synchronize"
    BY <1>1, <2>2, <1>3 DEF Promise!Job
  <2> QED
    BY <2>1, <2>2
<1>4. CASE Goto(t, "notify") /\ UNCHANGED <<memory, auto, mem>> /\ CanFail # {}
  <2>1. /\ Serving' /\ Doing = cur[t].type /\ Doing # "nothing" /\ Doing' = "nothing" /\ With' = Nothing
        /\ Saved = file /\ Saved' = file'
    BY <1>1, <1>4, RunnerEnds DEF Middle
  <2>2. Promise!Look
    BY <1>1, <1>4, <2>1 DEF Promise!Look, Promise!End, Generate
  <2> QED
    BY <2>1, <2>2 DEF Promise!Next
<1>5. CASE /\ memory' \in Data /\ mem' = auto + 1
           /\ Goto(t, IF Operation(t) = "generate" THEN "notify" ELSE "save")
  <2>1. mem' # 0 /\ ((disk' # 0 /\ disk' < mem') <=> disk # 0) /\ disk' < mem'
    BY <1>1, <1>2, <1>5
  <2>2. CASE cur[t].type = "generate"
    <3>1. Goto(t, "notify")
      BY <1>1, <1>5, <2>2
    <3>2. /\ Serving' /\ Doing = cur[t].type /\ Doing' = "nothing" /\ With' = Nothing
          /\ Saved = file /\ Saved' = file'
      BY <1>1, <3>1, RunnerEnds DEF Middle
    <3>3. Promise!Generate
      BY <1>1, <1>3, <1>5, <2>1, <2>2, <3>2
         DEF Promise!Generate, Promise!Renew, Promise!End, Generate
    <3> QED
      BY <3>2, <3>3 DEF Promise!Next
  <2>3. CASE cur[t].type = "synchronize"
    <3>1. Goto(t, "save")
      BY <1>1, <1>5, <2>3
    <3>2. /\ t = Runner /\ Runner' = Runner /\ pc'[Runner] = "save"
          /\ Doing = cur[t].type /\ Doing' = Doing /\ With' = With
          /\ Saved = file /\ Saved' = file'
      BY <1>1, <3>1, RunnerGoesOn DEF Middle
    <3>3. Promise!Generate
      BY <1>1, <1>3, <1>5, <2>1, <2>3, <3>2
         DEF Promise!Generate, Promise!Renew, Generate
    <3>4. Serving'
      BY <1>1, <2>1, <2>3, <3>2 DEF Serving, Middle
    <3> QED
      BY <3>3, <3>4 DEF Promise!Next
  <2> QED
    BY <1>1, <2>2, <2>3
<1> QED
  BY <1>4, <1>5 DEF Generate, Done

\* The promise does not see a save that is in progress, ...
LEMMA SaveOpenPromise ==
  ASSUME IInv, IInv', Serving, NEW t \in Threads, SaveOpen(t)
  PROVE  Serving' /\ [Promise!Next]_(Promise!vars)
<1>1. /\ pc[t] \in {"exec", "save"} /\ UNCHANGED <<synchronous, cur, queue, mem, disk, memory, unseen>>
      /\ Operation(t) = "save"
  BY DEF SaveOpen, Operation, SyncChoice, control, setup, versions
<1>2. mem \in Nat /\ disk \in Nat /\ t = Runner
  BY <1>1 DEF IInv, Basis, Shape, OneRunner, Busy
<1>3. cur[t].type \in {"save", "synchronize"} /\ (cur[t].type = "synchronize" => disk < mem)
  BY <1>1, <1>2 DEF Operation, SyncChoice, Serving
<1>4. CASE Goto(t, "write") /\ saving' = memory /\ before' = file
  <2>1. /\ Runner' = Runner /\ pc'[Runner] = "write" /\ Doing' = Doing /\ With' = With /\ Saved = file
    BY <1>1, <1>4, RunnerGoesOn DEF Middle
  <2>2. Saved' = file
    BY <1>4, DataAssumption DEF IInv, Basis, Shape, Content, Saved
  <2>3. Serving'
    BY <1>1, <1>2, <1>3, <2>1 DEF Serving, Middle
  <2> QED
    BY <1>1, <2>1, <2>2, <2>3 DEF Promise!vars
<1>5. CASE Goto(t, "notify") /\ UNCHANGED <<saving, before, file>> /\ CanFail # {}
  <2>1. /\ Serving' /\ Doing # "nothing" /\ Doing' = "nothing" /\ With' = Nothing
        /\ Saved = file /\ Saved' = file'
    BY <1>1, <1>5, RunnerEnds DEF Middle
  <2>2. Promise!Look
    BY <1>1, <1>5, <2>1 DEF Promise!Look, Promise!End, SaveOpen
  <2> QED
    BY <2>1, <2>2 DEF Promise!Next
<1> QED
  BY <1>4, <1>5 DEF SaveOpen, Done

\* ... only its end.
LEMMA SaveWritePromise ==
  ASSUME IInv, IInv', Serving, NEW t \in Threads, SaveWrite(t)
  PROVE  Serving' /\ [Promise!Next]_(Promise!vars)
<1>1. /\ pc[t] = "write" /\ Goto(t, "notify")
      /\ UNCHANGED <<synchronous, cur, queue, mem, memory>> /\ WriteFile /\ disk' = mem
  BY DEF SaveWrite, Done, control, setup
<1>2. /\ Serving' /\ t = Runner /\ Doing = cur[t].type /\ Doing' = "nothing" /\ With' = Nothing
      /\ Saved' = file'
  BY <1>1, RunnerEnds DEF Middle
<1>3. mem \in Nat /\ disk \in Nat /\ saving = memory
  BY <1>1, <1>2 DEF IInv, Basis, Agreement, Shape, InProgress
<1>4. Promise!Job = "save"
  BY <1>1, <1>2, <1>3 DEF Serving, Promise!Job
<1>5. Promise!Save
  BY <1>1, <1>2, <1>3, <1>4 DEF Promise!Save, Promise!End, WriteFile
<1> QED
  BY <1>2, <1>5 DEF Promise!Next

\* A step that leaves the content alone and neither begins nor ends an event.
LEMMA BesidePromise ==
  ASSUME IInv, IInv', Serving, UNCHANGED <<store, synchronous>>,
         \A i \in 1..Len(queue') : queue'[i].type # "none",
         IF pc[Runner] \in Middle THEN pc'[Runner] = pc[Runner] /\ cur'[Runner] = cur[Runner]
                                  ELSE pc'[Runner] \notin Middle
  PROVE  Serving' /\ [Promise!Next]_(Promise!vars)
<1>1. Runner' = Runner
  BY DEF Runner
<1>2. UNCHANGED <<memory, mem, disk, file, saving, before, unseen>>
  BY DEF store, versions, content
<1>3. UNCHANGED <<Doing, With>>
  BY <1>1, RunnerServes, RunnerServesThen
<1>4. Saved' = Saved
  BY <1>2 DEF Saved
<1>5. Serving'
  BY <1>1, <1>2 DEF Serving, Middle
<1> QED
  BY <1>2, <1>3, <1>4, <1>5 DEF Promise!vars

\* Where a request leaves the other threads.
LEMMA ContinueMoves ==
  ASSUME Basis, NEW t \in Threads, Continue(t)
  PROVE  /\ pc'[t] \in {"idle", "have"}
         /\ \A u \in Threads : u # t => pc'[u] = pc[u] /\ cur'[u] = cur[u]
<1>1. pc \in [Threads -> Places] /\ cur \in [Threads -> GoodTask]
  BY DEF Basis, Shape, TasksOK
<1>2. Goto(t, "idle") \/ Goto(t, "have")
  BY DEF Continue
<1>3. pc'[t] \in {"idle", "have"} /\ \A u \in Threads : u # t => pc'[u] = pc[u]
  BY <1>1, <1>2 DEF Goto
<1>4. \A u \in Threads : u # t => cur'[u] = cur[u]
  BY <1>1 DEF Continue
<1> QED
  BY <1>3, <1>4

\* Telling those who wait and posting the callbacks is no part of the promise.
LEMMA AfterwardsPromise ==
  ASSUME IInv, IInv', Serving, NEW t \in Threads, NotifyFinished(t) \/ Post(t)
  PROVE  Serving' /\ [Promise!Next]_(Promise!vars)
<1>1. /\ pc[t] \in {"notify", "post"} /\ UNCHANGED <<store, synchronous, queue>>
  BY DEF NotifyFinished, Post, control, setup
<1>2. t = Runner /\ pc \in [Threads -> Places]
  BY <1>1 DEF IInv, Basis, OneRunner, Shape, Busy
<1>3. pc'[t] \in {"post", "loop", "idle", "have"}
  <2>1. CASE NotifyFinished(t) \/ t = Worker
    BY <2>1, <1>2 DEF NotifyFinished, Post, AfterRun, Goto
  <2>2. CASE Post(t) /\ t # Worker
    BY <2>2, ContinueMoves DEF IInv, Post, AfterRun
  <2> QED
    BY <2>1, <2>2
<1>4. \A i \in 1..Len(queue') : queue'[i].type # "none"
  BY <1>1 DEF Serving
<1> QED
  BY <1>1, <1>2, <1>3, <1>4, BesidePromise DEF Middle

\* A file that exists is discovered by a store that holds nothing yet.
LEMMA ActivatePromise ==
  ASSUME MaxCycles <= 1, IInv, IInv', Serving, Activate
  PROVE  Serving' /\ [Promise!Next]_(Promise!vars)
<1>1. UNCHANGED <<synchronous, queue, mem, cur, content>> /\ Runner' = Runner
  BY DEF Activate, setup, Runner
<1>2. pc[Runner] \notin Busy /\ pc'[Runner] \notin Busy
  BY RunnerIsThread DEF IInv, Basis, OneRunner, Shape, Activate, Goto, Busy
<1>3. /\ Doing = "nothing" /\ With = Nothing /\ Doing' = "nothing" /\ With' = Nothing
      /\ Saved = file /\ Saved' = file
  BY <1>1, <1>2, RunnerServes, RunnerServesThen DEF Middle, Busy, content
<1>4. mem = 0
  BY BoundsAssumption DEF Activate, IInv, Basis, Shape, OneRunner
<1>5. Serving'
  BY <1>1, <1>2 DEF Serving, Middle, Busy
<1>6. CASE file # NoFile
  <2>1. disk' # 0
    BY <1>6 DEF Activate, IInv, Basis, Shape
  <2>2. (disk' # 0 /\ disk' < mem') = (disk # 0 /\ disk < mem)
    BY <1>1, <1>4, <2>1 DEF IInv, Basis, Shape
  <2>3. Promise!Discover
    BY <1>1, <1>3, <1>4, <1>6, <2>1, <2>2 DEF Promise!Discover, content
  <2> QED
    BY <1>5, <2>3 DEF Promise!Next
<1>7. CASE file = NoFile
  <2>1. disk' = disk
    BY <1>7 DEF Activate
  <2> QED
    BY <1>1, <1>3, <1>5, <2>1 DEF Promise!vars, content
<1> QED
  BY <1>6, <1>7

\* A process that dies forgets all and may leave a file that is half written.
LEMMA RestartPromise ==
  ASSUME IInv, IInv', Serving, Restart
  PROVE  Serving' /\ [Promise!Next]_(Promise!vars)
<1>1. Runner' \in Threads /\ pc'[Runner'] \notin Middle
  BY RunnerIsThread DEF Restart, Quiet, Middle, Runner
<1>2. /\ memory' = Blank /\ mem' = 0 /\ disk' = 0 /\ queue' = <<>>
      /\ file' \in IF saving = Nothing THEN {file} ELSE {Blank, Torn, saving}
  BY DEF Restart
<1>3. Doing' = "nothing" /\ With' = Nothing /\ Saved' = file'
  BY <1>1, RunnerServesThen DEF Middle
<1>4. Serving'
  BY <1>1, <1>2 DEF Serving, Middle
<1>5. file' \in IF Promise!Job = "save" THEN {Saved, Blank, Torn, memory} ELSE {Saved}
  <2>1. CASE saving = Nothing
    BY <2>1, <1>2 DEF Saved
  <2>2. CASE saving # Nothing
    <3>1. pc[Runner] = "write" /\ saving = memory
      BY <2>2 DEF IInv, Basis, Agreement, InProgress
    <3>2. Doing = cur[Runner].type /\ mem \in Nat /\ disk \in Nat
      BY <3>1, RunnerServes DEF Middle, IInv, Basis, Shape
    <3>3. Promise!Job = "save"
      BY <3>1, <3>2 DEF Serving, Promise!Job
    <3> QED
      BY <3>1, <3>3, <2>2, <1>2
  <2> QED
    BY <2>1, <2>2
<1>6. Promise!Crash
  BY <1>2, <1>3, <1>5 DEF Promise!Crash, Promise!End, Restart
<1> QED
  BY <1>4, <1>6 DEF Promise!Next

\* What can be requested.
LEMMA RequestNames ==
  ASSUME IInv, NEW t \in Users, NEW type \in Requests(t)
  PROVE  type \in Promise!Requests /\ type # "none"
  BY RequestAssumption DEF Requests, Promise!Requests, IInv, Basis, Shape

\* The runner begins with the next event.
LEMMA BeginPromise ==
  ASSUME IInv, IInv', Serving, UNCHANGED <<store, synchronous>>,
         \A i \in 1..Len(queue') : queue'[i].type # "none",
         pc[Runner] \notin Middle, pc'[Runner] = "exec",
         cur'[Runner] \in GoodTask, cur'[Runner].type \in Promise!Requests
  PROVE  Serving' /\ [Promise!Next]_(Promise!vars)
<1>1. Runner' = Runner
  BY DEF Runner
<1>2. UNCHANGED <<memory, mem, disk, file, saving, before, unseen>>
  BY DEF store, versions, content
<1>3. Doing = "nothing" /\ Doing' = cur'[Runner].type /\ With' = cur'[Runner].data
  BY <1>1, RunnerServes, RunnerServesThen DEF Middle
<1>4. With' \in IF Doing' = "set" THEN Data ELSE {Nothing}
  BY <1>3 DEF GoodTask
<1>5. Serving'
  BY <1>1 DEF Serving, Middle, Promise!Requests
<1>6. Saved' = Saved
  BY <1>2 DEF Saved
<1>7. Promise!Begin
  BY <1>2, <1>3, <1>4, <1>6 DEF Promise!Begin
<1> QED
  BY <1>5, <1>7 DEF Promise!Next

\* The promise does not see the queue, only who runs an event.
LEMMA RequestPromise ==
  ASSUME IInv, IInv', Serving, NEW t \in Users, NEW type \in Requests(t), Request(t, type)
  PROVE  Serving' /\ [Promise!Next]_(Promise!vars)
<1>1. /\ t \in Threads /\ t # Worker /\ type \in Promise!Requests /\ type # "none" /\ type \in TypeNames
      /\ UNCHANGED <<store, synchronous>> /\ pc[t] = "idle"
  BY RequestsAreTypes, RequestNames DEF Request, Enqueue, RunInline, setup
<1>2. queue \in Seq(GoodTask) /\ pc \in [Threads -> Places] /\ cur \in [Threads -> GoodTask]
      /\ events \in Seq(EventSet)
  BY DEF IInv, Basis, TasksOK, Shape
<1>3. CASE Enqueue(t, type)
  <2>1. Runner # t /\ Continue(t)
    BY <1>1, <1>3 DEF Enqueue, Runner
  <2>2. pc'[Runner] = pc[Runner] /\ cur'[Runner] = cur[Runner]
    BY <1>1, <2>1, ContinueMoves, RunnerIsThread DEF IInv
  <2>3. \A i \in 1..Len(queue') : queue'[i].type # "none"
    <3>1. PICK d \in Payloads(type) : queue' \in {queue, Append(queue, Task(type, d))}
      BY <1>3 DEF Enqueue
    <3>2. Task(type, d).type = type
      BY DEF Task
    <3> HIDE DEF Task
    <3> QED
      BY <3>1, <3>2, <1>1, <1>2 DEF Serving
  <2> QED
    BY <1>1, <2>2, <2>3, BesidePromise
<1>4. CASE RunInline(t, type)
  <2>1. t = Runner /\ queue' = queue
    BY <1>1, <1>4, RequestsAreTypes DEF RunInline, Runner
  <2>2. \A i \in 1..Len(queue') : queue'[i].type # "none"
    BY <2>1 DEF Serving
  <2>3. CASE active
    <3>1. PICK d \in Payloads(type) : cur' = [cur EXCEPT ![t] = Task(type, d)]
      BY <1>4, <2>3 DEF RunInline
    <3>2. pc'[t] = "exec"
      BY <1>1, <1>2, <1>4, <2>3 DEF RunInline, Goto
    <3>3. cur'[t] = Task(type, d) /\ Task(type, d) \in GoodTask
      BY <1>1, <1>2, <3>1, RequestIsGood
    <3>4. cur'[t].type = type
      BY <3>3 DEF Task
    <3> QED
      BY <1>1, <2>1, <2>2, <3>2, <3>3, <3>4, BeginPromise DEF Middle
  <2>4. CASE ~active
    <3>1. pc'[t] \in {"idle", "have"}
      BY <1>1, <1>4, <2>4, ContinueMoves DEF IInv, RunInline
    <3> QED
      BY <1>1, <2>1, <2>2, <3>1, BesidePromise DEF Middle
  <2> QED
    BY <2>3, <2>4
<1> QED
  BY <1>3, <1>4 DEF Request

\* Nor what a thread does with its event, nor how activate(false) goes on.
LEMMA ClientPromise ==
  ASSUME IInv, IInv', Serving,
         \/ \E t \in Users : OnFinished(t) \/ WaitForFinished(t) \/ Release(t)
         \/ Deactivate \/ Join \/ RunCallbacks
  PROVE  Serving' /\ [Promise!Next]_(Promise!vars)
<1>1. UNCHANGED <<store, synchronous, queue>>
  BY DEF OnFinished, WaitForFinished, Release, Deactivate, Join, RunCallbacks, control, setup
<1>2. pc \in [Threads -> Places] /\ cur \in [Threads -> GoodTask]
  BY DEF IInv, Basis, TasksOK, Shape
<1>3. \A i \in 1..Len(queue') : queue'[i].type # "none"
  BY <1>1 DEF Serving
<1>4. CASE UNCHANGED <<pc, cur>>
  BY <1>1, <1>3, <1>4, BesidePromise
<1>5. ASSUME NEW t \in Users, WaitForFinished(t) \/ Release(t)
      PROVE  Serving' /\ [Promise!Next]_(Promise!vars)
  <2>1. pc[t] \in {"have", "wait"} /\ t \in Threads
    BY <1>5, RequestsAreTypes DEF WaitForFinished, Release
  <2>2. /\ pc'[t] \in {"wait", "idle"}
        /\ \A u \in Threads : u # t => pc'[u] = pc[u] /\ cur'[u] = cur[u]
    BY <1>2, <1>5, <2>1 DEF WaitForFinished, Release, Goto
  <2> QED
    BY <1>1, <1>3, <2>1, <2>2, BesidePromise, RunnerIsThread DEF Middle
<1> QED
  BY <1>4, <1>5 DEF OnFinished, Deactivate, Join, RunCallbacks

\* The worker begins with what it took from the queue.
LEMMA WorkerPromise ==
  ASSUME IInv, IInv', Serving, WorkerLoop \/ WorkerGet
  PROVE  Serving' /\ [Promise!Next]_(Promise!vars)
<1>1. UNCHANGED <<store, synchronous>> /\ pc[Worker] \in {"loop", "get"}
  BY DEF WorkerLoop, WorkerGet, control, setup
<1>2. /\ pc \in [Threads -> Places] /\ cur \in [Threads -> GoodTask] /\ queue \in Seq(GoodTask)
      /\ Runner \in Threads /\ Worker \in Threads
  BY RunnerIsThread DEF IInv, Basis, TasksOK, Shape
<1>3. CASE UNCHANGED <<queue, cur>>
           /\ (Goto(Worker, "exited") \/ Goto(Worker, "get") \/ Goto(Worker, "loop"))
  <2>1. /\ pc'[Worker] \in {"exited", "get", "loop"}
        /\ \A u \in Threads : u # Worker => pc'[u] = pc[u]
    BY <1>2, <1>3 DEF Goto
  <2>2. \A i \in 1..Len(queue') : queue'[i].type # "none"
    BY <1>3 DEF Serving
  <2> QED
    BY <1>1, <1>2, <1>3, <2>1, <2>2, BesidePromise DEF Middle
<1>4. CASE WorkerGet /\ queue # <<>> /\ queue' = Tail(queue)
           /\ cur' = [cur EXCEPT ![Worker] = Head(queue)] /\ Goto(Worker, "exec")
  <2>1. Runner = Worker
    BY <1>4 DEF IInv, Basis, OneRunner, Runner, WorkerGet
  <2>2. pc'[Worker] = "exec" /\ cur'[Worker] = queue[1] /\ queue[1] \in GoodTask /\ 1 \in 1..Len(queue)
    BY <1>2, <1>4 DEF Goto
  <2>3. \A i \in 1..Len(queue') : queue'[i].type # "none"
    BY <1>2, <1>4 DEF Serving
  <2>4. cur'[Worker].type \in Promise!Requests
    <3>1. queue[1].type \in TypeNames \ {"none"}
      BY <2>2 DEF Serving, GoodTask, TaskSet
    <3> QED
      BY <3>1, <2>2, RequestAssumption DEF TypeNames, Promise!Requests
  <2> QED
    BY <1>1, <2>1, <2>2, <2>3, <2>4, BeginPromise DEF Middle
<1> QED
  BY <1>3, <1>4 DEF WorkerLoop, WorkerGet

\* In a process that activates its store once, AsyncStore implements StorePromise:
\* whatever the threads, the queue, the two counters, failures and crashes do, the
\* store does to one memory and one file what it promises, one request at a time.
THEOREM KeepsItsPromise ==
  ASSUME MaxCycles <= 1
  PROVE  Spec => KeepsPromise
<1>1. Init => Serving /\ Promise!Init
  <2> SUFFICES ASSUME Init PROVE Serving /\ Promise!Init
    OBVIOUS
  <2>1. IInv
    BY InitIInv
  <2>2. pc[Runner] \notin Middle
    BY RunnerIsThread DEF Init, Quiet, Middle
  <2>3. Doing = "nothing" /\ With = Nothing /\ Saved = file
    BY <2>1, <2>2, RunnerServes DEF Middle
  <2>4. Serving
    BY <2>2 DEF Init, Serving, Middle
  <2> QED
    BY <2>3, <2>4 DEF Init, Promise!Init
<1>2. ASSUME IInv, IInv', LoadNeverDiscards, Serving, [Next]_vars
      PROVE  Serving' /\ [Promise!Next]_(Promise!vars)
  <2>1. ASSUME NEW t \in Threads, RunStep(t) PROVE Serving' /\ [Promise!Next]_(Promise!vars)
    BY <1>2, <2>1, SetPromise, LookPromise, ClearPromise, LoadPromise, GeneratePromise, SaveOpenPromise,
       SaveWritePromise, AfterwardsPromise DEF RunStep
  <2>2. ASSUME NEW t \in Users, NEW type \in Requests(t), Request(t, type)
        PROVE  Serving' /\ [Promise!Next]_(Promise!vars)
    BY <1>2, <2>2, RequestPromise
  <2>3. CASE \/ \E t \in Users : OnFinished(t) \/ WaitForFinished(t) \/ Release(t)
             \/ Deactivate \/ Join \/ RunCallbacks
    BY <1>2, <2>3, ClientPromise
  <2>4. CASE WorkerLoop \/ WorkerGet
    BY <1>2, <2>4, WorkerPromise
  <2>5. CASE Activate \/ Restart
    BY <1>2, <2>5, ActivatePromise, RestartPromise
  <2>6. CASE UNCHANGED vars
    <3>1. UNCHANGED <<store, synchronous, queue, pc, cur>>
      BY <2>6 DEF vars, control, setup
    <3>2. \A i \in 1..Len(queue') : queue'[i].type # "none"
      BY <1>2, <3>1 DEF Serving
    <3> QED
      BY <1>2, <3>1, <3>2, BesidePromise
  <2> QED
    BY <1>2, <2>1, <2>2, <2>3, <2>4, <2>5, <2>6 DEF Next
<1>3. Spec => []LoadNeverDiscards
  BY LoadDiscardsNothing
<1>4. Spec => []IInv
  BY InvariantHolds
<1> QED
  BY <1>1, <1>2, <1>3, <1>4, PTL DEF Spec, KeepsPromise, Promise!Spec

-----------------------------------------------------------------------------
(* The order of the events.                                                  *)

\* The queue holds pending events in the order they were made, and what was or is
\* being run was made before them.
Order ==
    /\ synchronous => queue = <<>>
    /\ \A i \in 1..Len(queue) :
          /\ queue[i].id \in 1..Len(events)
          /\ events[queue[i].id].state = "pending"
          /\ \A e \in 1..Len(events) : events[e].state = "finished" => e < queue[i].id
          /\ pc[Runner] \in Busy => cur[Runner].id < queue[i].id
    /\ \A i, j \in 1..Len(queue) : i < j => queue[i].id < queue[j].id
    /\ pc[Runner] \in Busy => cur[Runner].id \in 1..Len(events)

\* What TypeOK says beyond Shape and TasksOK; a callback is called at most once.
Kinds ==
    /\ open \in {"new", "open", "done"} /\ completed \in BOOLEAN /\ crashes \in Nat
    /\ before \in Content \cup {Torn, NoFile, Nothing}
    /\ posted \in Seq(1..Len(events))
    /\ \A t \in Threads : cur[t].id \in 0..Len(events)
    /\ \A e \in 1..Len(events) : events[e].waiting + events[e].called <= 1

\* A sequence of small numbers is one of larger ones.
LEMMA SeqWidens ==
  ASSUME NEW m \in Nat, NEW n \in Nat, m <= n, NEW s \in Seq(1..m)
  PROVE  s \in Seq(1..n)
<1>1. Len(s) \in Nat /\ s \in [1..Len(s) -> 1..m]
  OBVIOUS
<1>2. s \in [1..Len(s) -> 1..n]
  BY <1>1
<1> QED
  BY <1>1, <1>2, SeqDef

\* A step that leaves the queue and what became of the events alone.
LEMMA SameOrder ==
  ASSUME Basis, Order, UNCHANGED <<queue, synchronous>>, Len(events') = Len(events),
         \A e \in 1..Len(events) : events'[e].state = events[e].state,
         pc'[Runner] \in Busy => pc[Runner] \in Busy /\ cur'[Runner] = cur[Runner]
  PROVE  Order'
<1>1. Runner' = Runner
  BY DEF Runner
<1>2. ASSUME NEW i \in 1..Len(queue)
      PROVE  /\ queue[i].id \in 1..Len(events')
             /\ events'[queue[i].id].state = "pending"
             /\ \A e \in 1..Len(events') : events'[e].state = "finished" => e < queue[i].id
             /\ pc'[Runner] \in Busy => cur'[Runner].id < queue[i].id
  BY <1>2 DEF Order
<1>3. pc'[Runner] \in Busy => cur'[Runner].id \in 1..Len(events')
  BY DEF Order
<1> QED
  BY <1>1, <1>2, <1>3 DEF Order

\* A step that makes and calls no event.
LEMMA SameKinds ==
  ASSUME Kinds, UNCHANGED <<events, crashes>>,
         posted' \in Seq(1..Len(events)),
         open' \in {"new", "open", "done"}, completed' \in BOOLEAN,
         before' \in Content \cup {Torn, NoFile, Nothing},
         \A t \in Threads : cur'[t].id \in 0..Len(events)
  PROVE  Kinds'
  BY DEF Kinds

\* A thread that makes a request and moves on holds the new event or none.
LEMMA ContinueHolds ==
  ASSUME Basis, Kinds, NEW t \in Threads, Continue(t), events' \in Seq(EventSet),
         Len(events') >= Len(events)
  PROVE  \A u \in Threads : cur'[u].id \in 0..Len(events')
<1>1. cur \in [Threads -> GoodTask] /\ Len(events) \in Nat /\ Len(events') \in Nat
  BY DEF Basis, TasksOK, Shape
<1>2. NoTask.id = 0 /\ [NoTask EXCEPT !.id = Len(events')].id = Len(events')
  BY DEF NoTask
<1>3. PICK n \in {NoTask, [NoTask EXCEPT !.id = Len(events')]} : cur' = [cur EXCEPT ![t] = n]
  BY DEF Continue
<1>4. n.id \in 0..Len(events')
  <2>1. n.id = 0 \/ n.id = Len(events')
    BY <1>2, <1>3, Zenon
  <2> QED
    BY <2>1, <1>1
<1>5. \A u \in Threads : cur'[u] = IF u = t THEN n ELSE cur[u]
  BY <1>1, <1>3
<1> QED
  BY <1>1, <1>4, <1>5 DEF Kinds

\* Running an event up to its end.
LEMMA OperationOrder ==
  ASSUME Basis, Basis', Order, Kinds, NEW t \in Threads,
         Look(t) \/ Set(t) \/ Clear(t) \/ Load(t) \/ Generate(t) \/ SaveOpen(t) \/ SaveWrite(t) \/ Complete(t)
  PROVE  Order' /\ Kinds'
<1>1. pc[t] \in Middle /\ UNCHANGED <<queue, events, posted, cur, synchronous, crashes>>
  BY OperationAt
     DEF Look, Set, Clear, Load, Generate, SaveOpen, SaveWrite, Complete, Middle, control, setup
<1>2. t = Runner /\ pc[Runner] \in Busy
  BY <1>1 DEF Basis, OneRunner, Middle, Busy
<1>3. Order'
  BY <1>1, <1>2, SameOrder
<1>4. open' \in {"new", "open", "done"} /\ completed' \in BOOLEAN
      /\ before' \in Content \cup {Torn, NoFile, Nothing}
  <2>1. (open' = open \/ open' = "done") /\ (completed' = completed \/ completed' = TRUE)
    BY DEF Look, Set, Clear, Load, Generate, SaveOpen, SaveWrite, Complete, control
  <2>2. before' \in {before, file, Nothing}
    BY DEF Look, Set, Clear, Load, Generate, SaveOpen, SaveWrite, Complete, store, content
  <2> QED
    BY <2>1, <2>2 DEF Kinds, Basis, Shape
<1>5. Kinds'
  BY <1>1, <1>4, SameKinds DEF Kinds
<1> QED
  BY <1>3, <1>5

\* The event that is finished was made before all that wait in the queue.
LEMMA NotifyOrder ==
  ASSUME Basis, Basis', Order, Kinds, NEW t \in Threads, NotifyFinished(t)
  PROVE  Order' /\ Kinds'
<1> DEFINE k == cur[t].id
<1>1. /\ UNCHANGED <<queue, posted, cur, synchronous, crashes, open, completed, before>>
      /\ events' = [events EXCEPT ![k].state = "finished"] /\ pc[t] = "notify"
  BY DEF NotifyFinished, control, setup, store, content
<1>2. t = Runner /\ pc[Runner] \in Busy /\ events \in Seq(EventSet) /\ Len(events) \in Nat
  BY <1>1 DEF Basis, OneRunner, Busy, Shape
<1>3. /\ Len(events') = Len(events)
      /\ \A e \in 1..Len(events) :
            /\ events'[e].state = IF e = k THEN "finished" ELSE events[e].state
            /\ events'[e].waiting = events[e].waiting /\ events'[e].called = events[e].called
  <2> HIDE DEF k
  <2>1. Len(events') = Len(events) /\ \A e \in 1..Len(events) :
            events'[e] = IF e = k THEN [events[e] EXCEPT !.state = "finished"] ELSE events[e]
    BY <1>1, <1>2
  <2>2. \A e \in 1..Len(events) : events[e] \in EventSet
    BY <1>2
  <2> QED
    BY <2>1, <2>2 DEF EventSet
<1> HIDE DEF k
<1>4. Order'
  <2>1. Runner' = Runner /\ cur' = cur /\ cur[Runner].id = k /\ k \in 1..Len(events)
    BY <1>1, <1>2 DEF Runner, Order, k
  <2>2. ASSUME NEW i \in 1..Len(queue)
        PROVE  /\ queue[i].id \in 1..Len(events')
               /\ events'[queue[i].id].state = "pending"
               /\ \A e \in 1..Len(events') : events'[e].state = "finished" => e < queue[i].id
               /\ k < queue[i].id
    <3>1. /\ queue[i].id \in 1..Len(events) /\ k < queue[i].id
          /\ events[queue[i].id].state = "pending"
          /\ \A e \in 1..Len(events) : events[e].state = "finished" => e < queue[i].id
      BY <1>2, <2>2 DEF Order, k
    <3> QED
      BY <3>1, <1>3, <2>1
  <2> QED
    BY <2>1, <2>2, <1>1, <1>3 DEF Order
<1>5. Kinds'
  BY <1>1, <1>3 DEF Kinds
<1> QED
  BY <1>4, <1>5

\* The runner is done with its event, and its callbacks are posted.
LEMMA PostOrder ==
  ASSUME Basis, Basis', Order, Kinds, NEW t \in Threads, Post(t)
  PROVE  Order' /\ Kinds'
<1>1. /\ UNCHANGED <<queue, events, synchronous, crashes, open, completed, before>> /\ pc[t] = "post"
      /\ AfterRun(t)
  BY DEF Post, setup, store, content
<1>2. /\ t = Runner /\ pc[Runner] \in Busy /\ events \in Seq(EventSet) /\ Len(events) \in Nat
      /\ pc \in [Threads -> Places] /\ cur \in [Threads -> GoodTask]
  BY <1>1 DEF Basis, OneRunner, Busy, Shape, TasksOK
<1>3. pc'[t] \notin Busy
  BY <1>1, <1>2, ContinueMoves DEF AfterRun, Goto, Busy
<1>4. Order'
  BY <1>1, <1>2, <1>3, SameOrder
<1>5. \A u \in Threads : cur'[u].id \in 0..Len(events)
  <2>1. CASE t = Worker
    <3>1. \A u \in Threads : cur'[u] = IF u = t THEN NoTask ELSE cur[u]
      BY <1>1, <1>2, <2>1 DEF AfterRun
    <3> QED
      BY <3>1, <1>2 DEF Kinds, NoTask
  <2>2. CASE t # Worker
    <3>1. events' \in Seq(EventSet) /\ Len(events') >= Len(events) /\ Continue(t)
      BY <2>2, <1>1, <1>2 DEF AfterRun
    <3> QED
      BY <3>1, <1>1, ContinueHolds
  <2> QED
    BY <2>1, <2>2
<1>6. posted' \in Seq(1..Len(events))
  <2> DEFINE ids == 1..Len(events)
  <2>1. cur[t].id \in ids /\ posted \in Seq(ids)
    BY <1>2 DEF Order, Kinds
  <2>2. posted' = posted \/ posted' = Append(posted, cur[t].id)
    BY DEF Post
  <2> HIDE DEF ids
  <2>3. posted' \in Seq(ids)
    BY <2>1, <2>2
  <2> QED
    BY <2>3 DEF ids
<1>7. Kinds'
  BY <1>1, <1>5, <1>6, SameKinds DEF Kinds
<1> QED
  BY <1>4, <1>7

\* Running an event.
LEMMA RunStepOrder ==
  ASSUME Basis, Basis', Order, Kinds, NEW t \in Threads, RunStep(t)
  PROVE  Order' /\ Kinds'
  BY OperationOrder, NotifyOrder, PostOrder DEF RunStep

\* A new event comes after all others; it is put at the end of the queue or nowhere.
LEMMA PutOrder ==
  ASSUME Basis, Basis', Order, Kinds, ~synchronous,
         NEW run \in BOOLEAN, NEW task \in GoodTask, task.id = Len(events) + 1,
         events' = Append(events, NewEvent(run)),
         queue' = IF run THEN Append(queue, task) ELSE queue,
         UNCHANGED <<synchronous, crashes, open, completed, before, posted>>,
         pc'[Runner] = pc[Runner], cur'[Runner] = cur[Runner],
         \A u \in Threads : cur'[u].id \in 0..Len(events) + 1
  PROVE  Order' /\ Kinds'
<1> DEFINE n == Len(events)
           new == NewEvent(run)
<1>1. /\ queue \in Seq(GoodTask) /\ events \in Seq(EventSet) /\ n \in Nat
      /\ Runner' = Runner /\ ~synchronous'
  BY DEF Basis, TasksOK, Shape, Runner
<1>2. /\ new.state \in {"pending", "lost"} /\ (run => new.state = "pending")
      /\ new.waiting = 0 /\ new.called = 0
  BY DEF NewEvent
<1>3. events' = Append(events, new)
  OBVIOUS
<1> HIDE DEF new
<1>4. /\ Len(events') = n + 1
      /\ \A e \in 1..n : events'[e] = events[e]
      /\ events'[n + 1] = new
  BY <1>1, <1>3
<1> HIDE DEF n
<1>5. \A i \in 1..Len(queue) : /\ queue[i].id \in 1..n
                               /\ events'[queue[i].id].state = "pending"
                               /\ \A e \in 1..n + 1 : events'[e].state = "finished" => e < queue[i].id
  <2>1. ASSUME NEW i \in 1..Len(queue), NEW e \in 1..n + 1, events'[e].state = "finished"
        PROVE  e < queue[i].id
    <3>1. e # n + 1
      BY <2>1, <1>2, <1>4
    <3>2. e \in 1..n /\ events[e].state = "finished"
      BY <2>1, <3>1, <1>1, <1>4
    <3> QED
      BY <3>2 DEF Order, n
  <2>2. \A i \in 1..Len(queue) : queue[i].id \in 1..n /\ events[queue[i].id].state = "pending"
    BY DEF Order, n
  <2> QED
    BY <2>1, <2>2, <1>4
<1>6. pc'[Runner] \in Busy => /\ cur'[Runner].id \in 1..n
                              /\ \A i \in 1..Len(queue) : cur'[Runner].id < queue[i].id
  BY DEF Order, n
<1>7. ASSUME ~run
      PROVE  Order'
  <2>1. queue' = queue /\ 1..n \subseteq 1..n + 1
    BY <1>1, <1>7 DEF n
  <2>2. \A i, j \in 1..Len(queue') : i < j => queue'[i].id < queue'[j].id
    BY <2>1 DEF Order
  <2>3. \A i \in 1..Len(queue') :
           /\ queue'[i].id \in 1..n + 1
           /\ events'[queue'[i].id].state = "pending"
           /\ \A e \in 1..n + 1 : events'[e].state = "finished" => e < queue'[i].id
           /\ pc'[Runner] \in Busy => cur'[Runner].id < queue'[i].id
    BY <2>1, <1>5, <1>6
  <2>4. pc'[Runner] \in Busy => cur'[Runner].id \in 1..n + 1
    BY <1>6, <2>1
  <2>5. /\ \A i \in 1..Len(queue') :
              /\ queue'[i].id \in 1..Len(events')
              /\ events'[queue'[i].id].state = "pending"
              /\ \A e \in 1..Len(events') : events'[e].state = "finished" => e < queue'[i].id
              /\ pc'[Runner'] \in Busy => cur'[Runner'].id < queue'[i].id
        /\ pc'[Runner'] \in Busy => cur'[Runner'].id \in 1..Len(events')
    BY <2>3, <2>4, <1>1, <1>4, Zenon
  <2>6. Order'
    BY <1>1, <2>2, <2>5, Zenon DEF Order
  <2> QED
    BY <2>6
<1>8. ASSUME run
      PROVE  Order'
  <2>1. queue' = Append(queue, task)
    BY <1>8
  <2>2. /\ Len(queue') = Len(queue) + 1 /\ Len(queue) \in Nat
        /\ \A i \in 1..Len(queue) : queue'[i] = queue[i]
        /\ queue'[Len(queue) + 1] = task
    BY <2>1, <1>1
  <2>3. \A i \in 1..Len(queue') : \/ i \in 1..Len(queue) /\ queue'[i] = queue[i]
                                  \/ i = Len(queue) + 1 /\ queue'[i] = task
    BY <2>2
  <2>4. task.id = n + 1
    BY DEF n
  <2>5. \A i \in 1..Len(queue') :
           /\ queue'[i].id \in 1..n + 1
           /\ events'[queue'[i].id].state = "pending"
           /\ \A e \in 1..n + 1 : events'[e].state = "finished" => e < queue'[i].id
           /\ pc'[Runner] \in Busy => cur'[Runner].id < queue'[i].id
    <3>1. ASSUME NEW i \in 1..Len(queue'), i \in 1..Len(queue), queue'[i] = queue[i]
          PROVE  /\ queue'[i].id \in 1..n + 1
                 /\ events'[queue'[i].id].state = "pending"
                 /\ \A e \in 1..n + 1 : events'[e].state = "finished" => e < queue'[i].id
                 /\ pc'[Runner] \in Busy => cur'[Runner].id < queue'[i].id
      <4>1. queue[i].id \in 1..n + 1
        BY <3>1, <1>1, <1>5 DEF n
      <4> QED
        BY <3>1, <4>1, <1>5, <1>6
    <3>2. ASSUME NEW i \in 1..Len(queue'), i = Len(queue) + 1, queue'[i] = task
          PROVE  /\ queue'[i].id \in 1..n + 1
                 /\ events'[queue'[i].id].state = "pending"
                 /\ \A e \in 1..n + 1 : events'[e].state = "finished" => e < queue'[i].id
                 /\ pc'[Runner] \in Busy => cur'[Runner].id < queue'[i].id
      <4>1. events'[n + 1].state = "pending"
        BY <1>2, <1>4, <1>8
      <4>2. \A e \in 1..n + 1 : events'[e].state = "finished" => e < n + 1
        BY <4>1, <1>1 DEF n
      <4>3. pc'[Runner] \in Busy => cur'[Runner].id < n + 1
        BY <1>1, <1>6 DEF n
      <4>4. n + 1 \in 1..n + 1
        BY <1>1 DEF n
      <4> QED
        BY <3>2, <4>1, <4>2, <4>3, <4>4, <2>4
    <3> QED
      BY <2>3, <3>1, <3>2
  <2>6. ASSUME NEW i \in 1..Len(queue'), NEW j \in 1..Len(queue'), i < j
        PROVE  queue'[i].id < queue'[j].id
    <3>1. i \in 1..Len(queue) /\ queue'[i] = queue[i] /\ queue[i].id \in 1..n
      BY <2>2, <2>6, <1>5
    <3>2. CASE j \in 1..Len(queue)
      <4>1. queue'[j] = queue[j]
        BY <2>2, <3>2
      <4> QED
        BY <4>1, <3>1, <3>2, <2>6 DEF Order
    <3>3. CASE j = Len(queue) + 1
      <4>1. queue'[j].id = n + 1
        BY <2>2, <2>4, <3>3
      <4> QED
        BY <4>1, <3>1, <1>1 DEF n
    <3> QED
      BY <2>3, <3>2, <3>3
  <2>7. pc'[Runner] \in Busy => cur'[Runner].id \in 1..n + 1
    BY <1>1, <1>6 DEF n
  <2>8. /\ \A i \in 1..Len(queue') :
              /\ queue'[i].id \in 1..Len(events')
              /\ events'[queue'[i].id].state = "pending"
              /\ \A e \in 1..Len(events') : events'[e].state = "finished" => e < queue'[i].id
              /\ pc'[Runner'] \in Busy => cur'[Runner'].id < queue'[i].id
        /\ pc'[Runner'] \in Busy => cur'[Runner'].id \in 1..Len(events')
    BY <2>5, <2>7, <1>1, <1>4, Zenon
  <2> QED
    BY <1>1, <2>6, <2>8, Zenon DEF Order
<1>9. posted' \in Seq(1..Len(events'))
  BY <1>1, <1>4, SeqWidens DEF Kinds, n
<1>10. \A e \in 1..Len(events') : events'[e].waiting + events'[e].called <= 1
  <2>1. \A e \in 1..n + 1 : e \in 1..n \/ e = n + 1
    BY <1>1 DEF n
  <2> QED
    BY <2>1, <1>2, <1>4 DEF Kinds, n
<1>11. Kinds'
  BY <1>4, <1>9, <1>10 DEF Kinds, n
<1> QED
  BY <1>7, <1>8, <1>11

\* So it is with a request.
LEMMA RequestOrder ==
  ASSUME Basis, Basis', Order, Kinds, NEW t \in Users, NEW type \in TypeNames, Request(t, type)
  PROVE  Order' /\ Kinds'
<1> DEFINE n == Len(events)
<1>1. /\ t \in Threads /\ t # Worker /\ pc[t] = "idle"
      /\ UNCHANGED <<synchronous, crashes, open, completed, before, posted>> /\ Runner' = Runner
      /\ Runner \in Threads
  BY UsersRequest, RunnerIsThread DEF Request, Enqueue, RunInline, setup, store, content, Runner
<1>2. /\ queue \in Seq(GoodTask) /\ pc \in [Threads -> Places] /\ cur \in [Threads -> GoodTask]
      /\ events \in Seq(EventSet) /\ events' \in Seq(EventSet) /\ n \in Nat
  BY DEF Basis, TasksOK, Shape
<1>3. PICK new : events' = Append(events, new) /\ new \in {NewEvent(TRUE), NewEvent(FALSE)}
  <2>1. CASE Enqueue(t, type)
    BY <2>1 DEF Enqueue, NewEvent
  <2>2. CASE RunInline(t, type)
    BY <2>2 DEF RunInline, NewEvent
  <2> QED
    BY <2>1, <2>2 DEF Request
<1>4. /\ Len(events') = n + 1
      /\ \A e \in 1..n : events'[e] = events[e]
      /\ events'[n + 1] = new
      /\ new.waiting = 0 /\ new.called = 0
  BY <1>2, <1>3 DEF NewEvent
<1> HIDE DEF n
<1>5. CASE Enqueue(t, type)
  <2>1. ~synchronous /\ Runner # t /\ Continue(t)
    BY <1>1, <1>5 DEF Enqueue, Runner
  <2>2. pc'[Runner] = pc[Runner] /\ cur'[Runner] = cur[Runner]
    BY <1>1, <2>1, ContinueMoves
  <2>3. \A u \in Threads : cur'[u].id \in 0..Len(events) + 1
    BY <2>1, <1>1, <1>2, <1>4, ContinueHolds DEF n
  <2> DEFINE run == active /\ open = "open"
  <2>4. PICK d \in Payloads(type) :
           /\ events' = Append(events, NewEvent(run))
           /\ queue' = IF run THEN Append(queue, Task(type, d)) ELSE queue
    BY <1>5 DEF Enqueue
  <2> DEFINE task == Task(type, d)
  <2>5. task \in GoodTask /\ task.id = Len(events) + 1 /\ run \in BOOLEAN
    BY <1>2, RequestIsGood DEF Task
  <2>6. queue' = IF run THEN Append(queue, task) ELSE queue
    BY <2>4
  <2> HIDE DEF task, run
  <2> QED
    BY <1>1, <2>1, <2>2, <2>3, <2>4, <2>5, <2>6, PutOrder
<1>6. CASE RunInline(t, type)
  <2>1. synchronous /\ t = Runner /\ queue = <<>> /\ queue' = <<>>
    BY <1>1, <1>6, UsersRequest DEF RunInline, Runner, Order
  <2>2. \A u \in Threads : cur'[u].id \in 0..Len(events')
    <3>1. CASE active
      <4>1. PICK d \in Payloads(type) : cur' = [cur EXCEPT ![t] = Task(type, d)]
        BY <1>6, <3>1 DEF RunInline
      <4>2. Task(type, d).id = n + 1
        BY DEF Task, n
      <4>3. \A u \in Threads : cur'[u] = IF u = t THEN Task(type, d) ELSE cur[u]
        BY <4>1, <1>1, <1>2
      <4>4. n + 1 \in 0..n + 1 /\ \A u \in Threads : cur[u].id \in 0..n + 1
        BY <1>2 DEF Kinds, n
      <4> HIDE DEF Task
      <4> QED
        BY <4>2, <4>3, <4>4, <1>4
    <3>2. CASE ~active
      <4>1. Continue(t)
        BY <1>6, <3>2 DEF RunInline
      <4> QED
        BY <4>1, <1>1, <1>2, <1>4, ContinueHolds DEF n
    <3> QED
      BY <3>1, <3>2
  <2>3. pc'[Runner] \in Busy => cur'[Runner].id \in 1..Len(events')
    <3>1. CASE active
      <4>1. PICK d \in Payloads(type) : cur' = [cur EXCEPT ![t] = Task(type, d)]
        BY <1>6, <3>1 DEF RunInline
      <4>2. cur'[t].id = n + 1
        BY <4>1, <1>1, <1>2 DEF Task, n
      <4> QED
        BY <4>2, <2>1, <1>2, <1>4 DEF n
    <3>2. CASE ~active
      BY <1>1, <1>6, <2>1, <3>2, ContinueMoves DEF RunInline, Busy
    <3> QED
      BY <3>1, <3>2
  <2>4. Order'
    BY <2>1, <2>3, <1>1 DEF Order
  <2>5. posted' \in Seq(1..Len(events'))
    BY <1>1, <1>2, <1>4, SeqWidens DEF Kinds, n
  <2>6. ASSUME NEW e \in 1..Len(events') PROVE events'[e].waiting + events'[e].called <= 1
    <3>1. e \in 1..n \/ e = n + 1
      BY <1>2, <1>4
    <3>2. CASE e \in 1..n
      BY <1>4, <3>2 DEF Kinds, n
    <3>3. CASE e = n + 1
      BY <1>4, <3>3
    <3> QED
      BY <3>1, <3>2, <3>3
  <2> QED
    BY <2>2, <2>4, <2>5, <2>6, <1>1 DEF Kinds
<1> QED
  BY <1>5, <1>6 DEF Request

\* What becomes of the callbacks of an event says nothing of its state.
LEMMA CallbacksOrder ==
  ASSUME Basis, Basis', Order, Kinds, RunCallbacks \/ \E t \in Users : OnFinished(t)
  PROVE  Order' /\ Kinds'
<1>0. events \in Seq(EventSet) /\ Len(events) \in Nat
  BY DEF Basis, Shape
<1>1. UNCHANGED <<queue, pc, cur, synchronous, crashes, open, completed, before>>
  <2>1. CASE RunCallbacks
    BY <2>1 DEF RunCallbacks, control, setup, store, content
  <2>2. ASSUME NEW t \in Users, OnFinished(t)
        PROVE  UNCHANGED <<queue, pc, cur, synchronous, crashes, open, completed, before>>
    BY <2>2 DEF OnFinished, control, setup, store, content
  <2> QED
    BY <2>1, <2>2
<1>2. /\ Len(events') = Len(events)
      /\ \A e \in 1..Len(events) : /\ events'[e].state = events[e].state
                                   /\ events'[e].waiting + events'[e].called <= 1
  <2>0. \A e \in 1..Len(events) :
           /\ events[e] \in EventSet /\ events[e].waiting \in Nat /\ events[e].called \in Nat
           /\ events[e].waiting + events[e].called <= 1
    <3> TAKE e \in 1..Len(events)
    <3>1. events[e] \in EventSet
      BY <1>0
    <3>2. events[e].waiting \in Nat /\ events[e].called \in Nat
      BY <3>1 DEF EventSet
    <3>3. events[e].waiting + events[e].called <= 1
      BY DEF Kinds
    <3> QED
      BY <3>1, <3>2, <3>3
  <2>1. CASE RunCallbacks
    <3> DEFINE k == Head(posted)
               r == [events[k] EXCEPT !.called = @ + events[k].waiting, !.waiting = 0]
    <3>1. events' = [events EXCEPT ![k] = r]
      BY <2>1 DEF RunCallbacks
    <3>2. ASSUME k \in 1..Len(events)
          PROVE  /\ r.state = events[k].state
                 /\ r.waiting = 0 /\ r.called = events[k].called + events[k].waiting
      BY <2>0, <3>2 DEF EventSet
    <3> HIDE DEF k, r
    <3>3. /\ Len(events') = Len(events)
          /\ \A e \in 1..Len(events) : events'[e] = IF e = k THEN r ELSE events[e]
      BY <3>1, <1>0
    <3> QED
      BY <3>2, <3>3, <2>0
  <2>2. ASSUME NEW t \in Users, OnFinished(t)
        PROVE  /\ Len(events') = Len(events)
               /\ \A e \in 1..Len(events) : /\ events'[e].state = events[e].state
                                            /\ events'[e].waiting + events'[e].called <= 1
    <3> DEFINE k == cur[t].id
               r == [events[k] EXCEPT !.waiting = 1]
    <3>1. events' = [events EXCEPT ![k] = r] /\ events[k].waiting + events[k].called = 0
      BY <2>2 DEF OnFinished, Held
    <3>2. ASSUME k \in 1..Len(events)
          PROVE  r.state = events[k].state /\ r.waiting = 1 /\ r.called = events[k].called
      BY <2>0, <3>2 DEF EventSet
    <3> HIDE DEF k, r
    <3>3. /\ Len(events') = Len(events)
          /\ \A e \in 1..Len(events) : events'[e] = IF e = k THEN r ELSE events[e]
      BY <3>1, <1>0
    <3> QED
      BY <3>1, <3>2, <3>3, <2>0
  <2> QED
    BY <2>1, <2>2
<1>3. Order'
  BY <1>1, <1>2, SameOrder
<1>4. posted' \in Seq(1..Len(events))
  <2> DEFINE ids == 1..Len(events)
  <2>1. posted \in Seq(ids)
    BY DEF Kinds
  <2>2. posted' = posted \/ (posted # <<>> /\ posted' = Tail(posted))
    BY DEF RunCallbacks, OnFinished
  <2> HIDE DEF ids
  <2>3. posted' \in Seq(ids)
    BY <2>1, <2>2
  <2> QED
    BY <2>3 DEF ids
<1>5. Kinds'
  BY <1>1, <1>2, <1>4 DEF Kinds
<1> QED
  BY <1>3, <1>5

\* A thread that waits or is done, activate(), and the worker's loop.
LEMMA IdleOrder ==
  ASSUME Basis, Basis', Order, Kinds,
         \/ \E t \in Users : WaitForFinished(t) \/ Release(t)
         \/ Activate \/ Deactivate \/ Join \/ WorkerLoop
  PROVE  Order' /\ Kinds'
<1>1. UNCHANGED <<queue, events, posted, synchronous, crashes, completed, before>>
  BY DEF WaitForFinished, Release, Activate, Deactivate, Join, WorkerLoop, control, setup, store, content
<1>2. /\ open' = open \/ open' = "open"
      /\ pc \in [Threads -> Places] /\ cur \in [Threads -> GoodTask]
      /\ Runner \in Threads /\ Worker \in Threads
  BY RunnerIsThread DEF WaitForFinished, Release, Activate, Deactivate, Join, WorkerLoop, control,
     Basis, Shape, TasksOK
<1>3. PICK t \in Threads :
        /\ \A u \in Threads : u # t => pc'[u] = pc[u] /\ cur'[u] = cur[u]
        /\ pc'[t] \notin Busy \/ (pc'[t] = pc[t] /\ cur'[t] = cur[t])
        /\ cur'[t] \in {cur[t], NoTask}
  <2>1. ASSUME NEW t \in Users, WaitForFinished(t) \/ Release(t)
        PROVE  /\ t \in Threads /\ \A u \in Threads : u # t => pc'[u] = pc[u] /\ cur'[u] = cur[u]
               /\ pc'[t] \notin Busy /\ cur'[t] \in {cur[t], NoTask}
    BY <2>1, <1>2, UsersRequest DEF WaitForFinished, Release, Goto, Busy
  <2>2. CASE Activate \/ WorkerLoop
    BY <2>2, <1>2 DEF Activate, WorkerLoop, Goto, Busy
  <2>3. CASE Deactivate \/ Join
    BY <2>3, <1>2 DEF Deactivate, Join
  <2> QED
    BY <2>1, <2>2, <2>3
<1>4. Order'
  BY <1>1, <1>2, <1>3, SameOrder
<1>5. \A u \in Threads : cur'[u].id \in 0..Len(events)
  <2>1. NoTask.id = 0 /\ 0 \in 0..Len(events) /\ \A u \in Threads : cur'[u] = cur[u] \/ cur'[u] = NoTask
    BY <1>3 DEF NoTask, Basis, Shape
  <2> QED
    BY <2>1 DEF Kinds
<1>6. Kinds'
  BY <1>1, <1>2, <1>5, SameKinds DEF Kinds
<1> QED
  BY <1>4, <1>6

\* The worker takes the oldest event of the queue.
LEMMA WorkerGetOrder ==
  ASSUME Basis, Basis', Order, Kinds, WorkerGet
  PROVE  Order' /\ Kinds'
<1>1. /\ UNCHANGED <<events, posted, synchronous, crashes, completed, before, open>>
      /\ Runner = Worker /\ Runner' = Worker /\ Worker \in Threads /\ ~synchronous /\ pc[Worker] = "get"
  BY RunnerIsThread DEF WorkerGet, control, setup, store, content, Basis, OneRunner, Runner
<1>2. /\ queue \in Seq(GoodTask) /\ pc \in [Threads -> Places] /\ cur \in [Threads -> GoodTask]
      /\ Len(queue) \in Nat
  BY DEF Basis, TasksOK, Shape
<1>3. CASE UNCHANGED <<queue, cur>> /\ Goto(Worker, "loop")
  <2>1. pc'[Runner] \notin Busy
    BY <1>1, <1>2, <1>3 DEF Goto, Busy
  <2>2. Order'
    BY <2>1, <1>1, <1>3, SameOrder
  <2>3. Kinds'
    BY <1>1, <1>3, SameKinds DEF Kinds
  <2> QED
    BY <2>2, <2>3
<1>4. CASE queue # <<>> /\ queue' = Tail(queue) /\ cur' = [cur EXCEPT ![Worker] = Head(queue)]
  <2>1. /\ cur'[Worker] = queue[1] /\ 1 \in 1..Len(queue)
        /\ \A u \in Threads : u # Worker => cur'[u] = cur[u]
        /\ Len(queue') = Len(queue) - 1
        /\ \A i \in 1..Len(queue') : i + 1 \in 1..Len(queue) /\ queue'[i] = queue[i + 1]
    BY <1>1, <1>2, <1>4
  <2>2. queue[1].id \in 1..Len(events) /\ \A j \in 2..Len(queue) : queue[1].id < queue[j].id
    <3>1. queue[1].id \in 1..Len(events)
      BY <2>1 DEF Order
    <3>2. ASSUME NEW j \in 2..Len(queue) PROVE queue[1].id < queue[j].id
      <4>1. j \in 1..Len(queue) /\ 1 < j
        BY <1>2
      <4> QED
        BY <4>1, <2>1 DEF Order
    <3> QED
      BY <3>1, <3>2
  <2>3. ASSUME NEW i \in 1..Len(queue')
        PROVE  /\ queue'[i].id \in 1..Len(events)
               /\ events[queue'[i].id].state = "pending"
               /\ \A e \in 1..Len(events) : events[e].state = "finished" => e < queue'[i].id
               /\ cur'[Worker].id < queue'[i].id
    <3>1. i + 1 \in 2..Len(queue)
      BY <2>1, <1>2
    <3> QED
      BY <3>1, <2>1, <2>2 DEF Order
  <2>4. ASSUME NEW i \in 1..Len(queue'), NEW j \in 1..Len(queue'), i < j
        PROVE queue'[i].id < queue'[j].id
    <3>1. i + 1 < j + 1
      BY <2>4, <1>2, <2>1
    <3> QED
      BY <3>1, <2>1 DEF Order
  <2>5. Order'
    BY <1>1, <2>1, <2>2, <2>3, <2>4 DEF Order
  <2>6. \A u \in Threads : cur'[u].id \in 0..Len(events)
    BY <2>1, <2>2 DEF Kinds
  <2>7. Kinds'
    BY <1>1, <2>6, SameKinds DEF Kinds
  <2> QED
    BY <2>5, <2>7
<1> QED
  BY <1>3, <1>4 DEF WorkerGet

\* A process that starts has no events.
LEMMA RestartOrder == ASSUME Basis, Basis', Order, Kinds, Restart PROVE Order' /\ Kinds'
<1>1. /\ queue' = <<>> /\ events' = <<>> /\ posted' = <<>> /\ cur' = [t \in Threads |-> NoTask]
      /\ pc' = Quiet
      /\ open' = "new" /\ completed' = FALSE /\ before' = Nothing /\ crashes' = crashes + 1
  BY DEF Restart
<1>2. pc'[Runner'] \notin Busy
  BY <1>1, RunnerIsThread DEF Quiet, Busy, Runner
<1>3. Order'
  BY <1>1, <1>2 DEF Order
<1>4. Kinds'
  <2>1. Len(events') = 0 /\ \A e \in 1..Len(events') : FALSE
    BY <1>1
  <2>2. posted' \in Seq(1..Len(events'))
    BY <1>1
  <2>3. \A t \in Threads : cur'[t].id \in 0..Len(events')
    BY <1>1, <2>1 DEF NoTask
  <2>4. /\ open' \in {"new", "open", "done"} /\ completed' \in BOOLEAN /\ crashes' \in Nat
        /\ before' \in Content \cup {Torn, NoFile, Nothing}
    <3>1. crashes' \in Nat
      <4>1. crashes \in Nat
        BY DEF Kinds
      <4> QED
        BY <4>1, <1>1
    <3>2. completed' \in BOOLEAN
      BY <1>1, Zenon
    <3> QED
      BY <1>1, <3>1, <3>2
  <2> QED
    BY <2>1, <2>2, <2>3, <2>4 DEF Kinds
<1> QED
  BY <1>3, <1>4

\* It is so at first.
LEMMA OrderBegins == ASSUME Init PROVE Order /\ Kinds
<1>1. pc[Runner] \notin Busy
  BY RunnerIsThread DEF Init, Quiet, Busy
<1>2. queue = <<>> /\ events = <<>> /\ posted = <<>> /\ cur = [t \in Threads |-> NoTask]
  BY DEF Init
<1>3. Order
  BY <1>1, <1>2 DEF Order
<1>4. Len(events) = 0 /\ \A e \in 1..Len(events) : FALSE
  BY <1>2
<1>5. posted \in Seq(1..Len(events))
  BY <1>2
<1>6. \A t \in Threads : cur[t].id \in 0..Len(events)
  BY <1>2, <1>4 DEF NoTask
<1>7. /\ open \in {"new", "open", "done"} /\ completed \in BOOLEAN /\ crashes \in Nat
      /\ before \in Content \cup {Torn, NoFile, Nothing}
  BY DEF Init
<1> QED
  BY <1>3, <1>4, <1>5, <1>6, <1>7 DEF Kinds

\* Order and Kinds hold of every reachable state.
THEOREM OrderHolds == Spec => [](Order /\ Kinds)
<1>1. Init => Order /\ Kinds
  BY OrderBegins
<1>2. ASSUME IInv, IInv', Order, Kinds, [Next]_vars PROVE Order' /\ Kinds'
  <2>0. Basis /\ Basis'
    BY <1>2 DEF IInv
  <2>1. ASSUME NEW t \in Threads, RunStep(t) PROVE Order' /\ Kinds'
    BY <1>2, <2>0, <2>1, RunStepOrder
  <2>2. ASSUME NEW t \in Users, NEW type \in Requests(t), Request(t, type) PROVE Order' /\ Kinds'
    BY <1>2, <2>0, <2>2, UsersRequest, RequestOrder
  <2>3. CASE RunCallbacks \/ \E t \in Users : OnFinished(t)
    BY <1>2, <2>0, <2>3, CallbacksOrder
  <2>4. CASE \/ \E t \in Users : WaitForFinished(t) \/ Release(t)
             \/ Activate \/ Deactivate \/ Join \/ WorkerLoop
    BY <1>2, <2>0, <2>4, IdleOrder
  <2>5. CASE WorkerGet \/ Restart
    BY <1>2, <2>0, <2>5, WorkerGetOrder, RestartOrder
  <2>6. CASE UNCHANGED vars
    <3>1. UNCHANGED <<queue, events, posted, pc, cur, synchronous, crashes, open, completed, before>>
      BY <2>6 DEF vars, control, setup, store, content
    <3> QED
      BY <1>2, <3>1 DEF Order, Kinds, Runner
  <2> QED
    BY <1>2, <2>1, <2>2, <2>3, <2>4, <2>5, <2>6 DEF Next
<1> QED
  BY <1>1, <1>2, InvariantHolds, PTL DEF Spec

\* What the invariants say of the types ...
LEMMA TypesFollow == ASSUME Basis, Order, Kinds PROVE TypeOK
<1>1. events \in Seq([state : {"pending", "finished", "lost"}, waiting : 0..1, called : 0..1])
  <2> DEFINE kinds == [state : {"pending", "finished", "lost"}, waiting : 0..1, called : 0..1]
  <2>1. events \in Seq(EventSet) /\ Len(events) \in Nat /\ events \in [1..Len(events) -> EventSet]
    BY DEF Basis, Shape
  <2>2. ASSUME NEW e \in 1..Len(events) PROVE events[e] \in kinds
    <3>1. /\ events[e] \in EventSet /\ events[e].waiting \in Nat /\ events[e].called \in Nat
          /\ events[e].waiting + events[e].called <= 1
      BY <2>1 DEF EventSet, Kinds
    <3>2. events[e].waiting \in 0..1 /\ events[e].called \in 0..1
      BY <3>1
    <3> QED
      BY <3>1, <3>2 DEF EventSet
  <2> HIDE DEF kinds
  <2>3. events \in [1..Len(events) -> kinds]
    BY <2>1, <2>2
  <2>4. events \in Seq(kinds)
    BY <2>1, <2>3, SeqDef
  <2> QED
    BY <2>4 DEF kinds
<1>2. \A i \in 1..Len(queue) : queue[i].id \in 1..Len(events)
  BY DEF Order
<1>3. pc \in [Threads -> {"idle", "have", "wait", "off", "loop", "get", "exited"} \cup Busy]
  BY DEF Basis, Shape, Places
<1>4. \A n \in {cycles, crashes, disk, mem, auto} : n \in Nat
  BY DEF Basis, Shape, Kinds
<1> QED
  BY <1>1, <1>2, <1>3, <1>4 DEF TypeOK, Basis, Shape, Kinds

\* ... and of the order in which events run.
LEMMA OrderFollows == ASSUME Basis, Order PROVE IssueOrder
<1>1. \A t \in Threads : pc[t] \in Busy => t = Runner
  BY DEF Basis, OneRunner
<1>2. ASSUME NEW i \in 1..Len(queue), NEW e \in queue[i].id..Len(events)
      PROVE events[e].state # "finished"
  <2>1. e \in 1..Len(events) /\ ~(e < queue[i].id)
    BY <1>2 DEF Order, Basis, Shape
  <2> QED
    BY <2>1 DEF Order
<1> QED
  BY <1>1, <1>2 DEF Order, IssueOrder

\* Every variable has its type; no callback is called twice.
THEOREM TypesHold == Spec => []TypeOK
<1>1. IInv /\ Order /\ Kinds => TypeOK
  BY TypesFollow DEF IInv
<1> QED
  BY <1>1, InvariantHolds, OrderHolds, PTL

\* Events run one at a time, each once, in the order they were made, for any number
\* of threads that make requests and whatever fails.
THEOREM RunsInOrder == Spec => []IssueOrder
<1>1. IInv /\ Order => IssueOrder
  BY OrderFollows DEF IInv
<1> QED
  BY <1>1, InvariantHolds, OrderHolds, PTL

-----------------------------------------------------------------------------
(* The end: activate(false) of the only client, when nothing fails.          *)

OnlyClient == CanFail = {} /\ Others = {}

\* Memory and file agree, if there is anything in memory.
Synced == mem # 0 => saving = Nothing /\ file = memory

At(type) == pc[Runner] \in Middle /\ cur[Runner].type = type
Idle == pc[Runner] \notin Middle /\ Synced

\* complete is the last request, and the store is idle and in agreement when it
\* is carried out.
CompletesLast ==
    /\ \A i \in 1..Len(queue) : queue[i].type = "complete" => i = Len(queue) /\ closing = "join"
    /\ At("complete") => /\ pc[Runner] = "exec" /\ queue = <<>> /\ Synced
                         /\ closing = IF synchronous THEN "complete" ELSE "join"

\* What the main thread has requested is in the queue, is being carried out by
\* the worker, or has been: synchronize first, then complete.
ClosingQueue ==
    /\ closing = "complete" =>
          IF queue = <<>> THEN At("synchronize") \/ Idle
          ELSE queue[Len(queue)].type = "synchronize"
    /\ closing = "join" =>
          IF queue = <<>> THEN Synced /\ (pc[Runner] \in Middle => At("complete"))
          ELSE /\ queue[Len(queue)].type = "complete"
               /\ IF Len(queue) = 1 THEN At("synchronize") \/ Idle
                  ELSE queue[Len(queue) - 1].type = "synchronize"

\* In synchronous mode the main thread carries out both.
ClosingInline ==
    /\ closing = "synchronize" /\ pc[Main] \in Busy => At("synchronize") \/ Idle
    /\ closing = "complete" => Synced /\ (pc[Main] \in Middle => At("complete"))
    /\ closing = "join" => Synced /\ pc[Main] \notin Busy

\* The store is completed at the end only, and the worker leaves only then.
Closed ==
    IF completed
    THEN /\ queue = <<>> /\ Idle
         /\ closing = "join" \/ (synchronous /\ closing = "complete" /\ pc[Main] \in Busy)
    ELSE open = "open" /\ (pc[Worker] = "exited" => synchronous)

\* The first activation since the process was started ...
Closing ==
    /\ IF active THEN Closed ELSE Synced /\ closing = "no"
    /\ CompletesLast
    /\ IF synchronous THEN ClosingInline ELSE ClosingQueue

\* ... and the time before it.
Fresh ==
    /\ closing = "no" /\ queue = <<>> /\ open = "new" /\ ~completed
    /\ pc[Worker] = "off"

Lifetime == (cycles = 0 => Fresh) /\ (cycles = 1 => Closing)

\* The only client is the main thread.
LEMMA OnlyMain == ASSUME OnlyClient, NEW t \in Users PROVE t = Main
  BY DEF OnlyClient, Users, Clients

\* A synchronize that nothing disturbs ends in agreement.
LEMMA SynchronizeAgrees ==
  ASSUME OnlyClient, IInv, LoadNeverDiscards, NEW t \in Threads, t = Runner,
         pc[t] \in Middle, cur[t].type = "synchronize", pc'[t] = "notify",
         Look(t) \/ Set(t) \/ Clear(t) \/ Load(t) \/ Generate(t) \/ SaveOpen(t) \/ SaveWrite(t) \/ Complete(t)
  PROVE  Synced'
<1>1. /\ saving = Nothing <=> pc[t] # "write"
      /\ saving # Nothing => saving = memory
      /\ disk \in Nat /\ mem \in Nat /\ pc \in [Threads -> Places]
  BY DEF IInv, Basis, Agreement, InProgress, Shape
<1>2. Operation(t) \notin {"set", "clear", "complete", "status", "get", "generate"}
  BY DEF Operation, SyncChoice
<1>3. ~Set(t) /\ ~Clear(t) /\ ~Complete(t)
  BY <1>2 DEF Set, Clear, Complete
<1>4. CASE Look(t)
  <2>1. Operation(t) = "none" /\ UNCHANGED store
    BY <1>2, <1>4 DEF Look
  <2>2. pc[t] = "exec" /\ disk = mem /\ disk # 0
    BY <1>1, <2>1 DEF Operation, SyncChoice
  <2>3. saving = Nothing /\ file = memory
    BY <2>2, <1>1 DEF IInv, Basis, Shape, Agreement, CountersHonest, OnlyClient
  <2> QED
    BY <2>1, <2>3 DEF Synced, store, versions, content
<1>5. CASE Load(t)
  <2>1. Operation(t) = "load" /\ UNCHANGED <<file, saving>>
    BY <1>5 DEF Load
  <2>2. pc[t] = "exec" /\ disk > mem
    BY <1>1, <2>1 DEF Operation, SyncChoice
  <2>3. mem = 0 /\ saving = Nothing
    BY <2>2, <1>1 DEF LoadNeverDiscards
  <2>4. memory' = file \/ mem' = mem
    BY <1>5, LoadOutcomes DEF LoadOutcome, OnlyClient
  <2> QED
    BY <2>1, <2>3, <2>4 DEF Synced
<1>6. CASE Generate(t)
  <2>1. Operation(t) = "bootstrap" /\ Goto(t, "save")
    BY <1>2, <1>6 DEF Generate, OnlyClient
  <2> QED
    BY <2>1, <1>1 DEF Goto
<1>7. CASE SaveOpen(t)
  <2>1. Goto(t, "write")
    BY <1>7 DEF SaveOpen, OnlyClient
  <2> QED
    BY <2>1, <1>1 DEF Goto
<1>8. CASE SaveWrite(t)
  <2>1. pc[t] = "write" /\ file' = saving /\ saving' = Nothing /\ memory' = memory
    BY <1>8 DEF SaveWrite, WriteFile, OnlyClient
  <2> QED
    BY <2>1, <1>1 DEF Synced
<1> QED
  BY <1>3, <1>4, <1>5, <1>6, <1>7, <1>8

\* Running an event up to its end.
LEMMA OperationCloses ==
  ASSUME OnlyClient, IInv, IInv', Order, LoadNeverDiscards, Closing, NEW t \in Threads,
         Look(t) \/ Set(t) \/ Clear(t) \/ Load(t) \/ Generate(t) \/ SaveOpen(t) \/ SaveWrite(t) \/ Complete(t)
  PROVE  Closing'
<1>1. pc[t] \in Middle /\ UNCHANGED <<queue, cur, synchronous, active, closing>>
  BY OperationAt
     DEF Look, Set, Clear, Load, Generate, SaveOpen, SaveWrite, Complete, Middle, control, setup
<1>2. t = Runner /\ active /\ Runner' = Runner /\ pc \in [Threads -> Places]
  BY <1>1 DEF IInv, Basis, OneRunner, Shape, Middle, Busy, Runner
<1>3. ~completed /\ open = "open" /\ (pc[Worker] = "exited" => synchronous)
  BY <1>1, <1>2 DEF Closing, Closed, Idle
<1>4. PICK l \in {"notify", "save", "write"} : Goto(t, l)
  BY DEF Look, Set, Clear, Load, Generate, SaveOpen, SaveWrite, Complete, Done
<1>5. pc'[t] = l /\ \A u \in Threads : u # t => pc'[u] = pc[u]
  BY <1>2, <1>4 DEF Goto
<1>6. pc'[t] \in Middle \/ pc'[t] = "notify"
  BY <1>5 DEF Middle
<1>7. pc'[Worker] = "exited" => synchronous
  BY <1>3, <1>5, RunnerIsThread
<1>8. CASE Complete(t)
  <2>1. cur[t].type = "complete" /\ Goto(t, "notify") /\ completed' /\ UNCHANGED store
    BY <1>1, <1>8 DEF Complete, Done, Operation, SyncChoice
  <2>2. At("complete")
    BY <1>1, <1>2, <2>1 DEF At
  <2>3. /\ queue = <<>> /\ Synced
        /\ closing = IF synchronous THEN "complete" ELSE "join"
    BY <2>2 DEF Closing, CompletesLast
  <2>4. pc'[t] = "notify"
    BY <2>1, <1>2 DEF Goto
  <2>5. Synced' /\ Idle' /\ ~At("complete")'
    BY <2>1, <2>3, <2>4, <1>2 DEF Synced, Idle, At, Middle, store, versions, content
  <2>6. Closed'
    BY <2>1, <2>3, <2>4, <2>5, <1>1, <1>2 DEF Closed, Runner, Busy
  <2>7. CompletesLast'
    BY <2>3, <2>5, <1>1 DEF CompletesLast
  <2>8. IF synchronous' THEN ClosingInline' ELSE ClosingQueue'
    BY <2>3, <2>4, <2>5, <1>1, <1>2 DEF ClosingInline, ClosingQueue, Runner, Idle
  <2> QED
    BY <2>6, <2>7, <2>8, <1>1, <1>2 DEF Closing
<1>9. CASE ~Complete(t)
  <2>1. UNCHANGED <<open, completed>>
    BY <1>9 DEF Look, Set, Clear, Load, Generate, SaveOpen, SaveWrite, control
  <2>2. cur[t].type # "complete"
    <3>1. SUFFICES ASSUME cur[t].type = "complete" PROVE FALSE
      OBVIOUS
    <3>2. pc[t] = "exec"
      BY <3>1, <1>1, <1>2 DEF At, Closing, CompletesLast
    <3>3. Operation(t) = "complete"
      BY <3>1, <3>2 DEF Operation
    <3> QED
      BY <3>2, <3>3, <1>9 DEF Look, Set, Clear, Load, Generate, SaveOpen, SaveWrite
  <2>3. cur[t].type = "synchronize" /\ pc'[t] = "notify" => Synced'
    BY <1>1, <1>2, SynchronizeAgrees
  <2>4. At("synchronize") => At("synchronize")' \/ Idle'
    BY <2>3, <1>1, <1>2, <1>6 DEF At, Idle, Middle
  <2>5. ~Idle /\ ~At("complete") /\ ~At("complete")'
    BY <2>2, <1>1, <1>2 DEF At, Idle
  <2>6. Closed'
    BY <2>1, <1>3, <1>7, <1>1 DEF Closed
  <2>7. CompletesLast'
    BY <2>5, <1>1 DEF Closing, CompletesLast
  <2>8. CASE synchronous
    <3>1. t = Main /\ pc[Main] \in Busy
      BY <2>8, <1>1, <1>2 DEF Runner, Middle, Busy
    <3>2. closing = "synchronize" => At("synchronize")
      BY <2>5, <2>8, <3>1 DEF Closing, ClosingInline
    <3>3. closing # "complete" /\ closing # "join"
      BY <2>5, <2>8, <3>1, <1>1 DEF Closing, ClosingInline
    <3>4. ClosingInline'
      BY <3>2, <3>3, <2>4, <1>1 DEF ClosingInline
    <3> QED
      BY <2>6, <2>7, <2>8, <3>4, <1>1, <1>2 DEF Closing
  <2>9. CASE ~synchronous
    <3>1. ClosingQueue
      BY <2>9 DEF Closing
    <3>2. closing = "join" => queue # <<>>
      BY <3>1, <2>5, <1>1, <1>2 DEF ClosingQueue
    <3>3. ClosingQueue'
      BY <3>1, <3>2, <2>4, <2>5, <1>1 DEF ClosingQueue
    <3> QED
      BY <2>6, <2>7, <2>9, <3>3, <1>1, <1>2 DEF Closing
  <2> QED
    BY <2>8, <2>9
<1> QED
  BY <1>8, <1>9

\* A step beside the running of events that requests nothing.
LEMMA BesideCloses ==
  ASSUME IInv, Closing,
         UNCHANGED <<store, queue, active, closing, open, completed, synchronous>>,
         \/ pc[Runner] \notin Middle /\ pc'[Runner] \notin Middle
         \/ pc'[Runner] = pc[Runner] /\ cur'[Runner] = cur[Runner],
         pc'[Main] \in Busy <=> pc[Main] \in Busy,
         pc'[Worker] = "exited" => pc[Worker] = "exited" \/ completed \/ synchronous
  PROVE  Closing'
<1>1. Runner' = Runner
  BY DEF Runner
<1>2. Synced' = Synced
  BY DEF Synced, store, versions, content
<1>3. /\ pc'[Runner] \in Middle <=> pc[Runner] \in Middle
      /\ pc[Runner] \in Middle => pc'[Runner] = pc[Runner] /\ cur'[Runner] = cur[Runner]
  OBVIOUS
<1>4. (Idle' <=> Idle) /\ (At("synchronize")' <=> At("synchronize"))
      /\ (At("complete")' <=> At("complete"))
  BY <1>1, <1>2, <1>3 DEF Idle, At
<1>5. active => Closed'
  BY <1>4 DEF Closing, Closed
<1>6. CompletesLast'
  BY <1>1, <1>2, <1>3, <1>4 DEF Closing, CompletesLast, At
<1>7. synchronous => ClosingInline'
  <2>1. synchronous => (pc'[Main] \in Middle <=> pc[Main] \in Middle)
    BY <1>3 DEF Runner
  <2> QED
    BY <2>1, <1>2, <1>4 DEF Closing, ClosingInline
<1>8. ~synchronous => ClosingQueue'
  BY <1>1, <1>2, <1>3, <1>4 DEF Closing, ClosingQueue
<1> QED
  BY <1>2, <1>5, <1>6, <1>7, <1>8 DEF Closing

\* The runner's event is finished and its callbacks are posted; activate(false)
\* goes on with its next request, if it was one of its own.
LEMMA AfterwardsCloses ==
  ASSUME OnlyClient, IInv, IInv', Order, Closing, NEW t \in Threads, NotifyFinished(t) \/ Post(t)
  PROVE  Closing'
<1>1. /\ pc[t] \in {"notify", "post"}
      /\ UNCHANGED <<store, queue, active, open, completed, synchronous>>
  BY DEF NotifyFinished, Post, control, setup
<1>2. /\ t = Runner /\ active /\ Runner' = Runner /\ pc \in [Threads -> Places]
      /\ pc[Runner] \notin Middle /\ Main # Worker
  BY <1>1, RunnerIsThread DEF IInv, Basis, OneRunner, Shape, Middle, Busy, Runner
<1>3. CASE NotifyFinished(t)
  <2>1. pc'[t] = "post" /\ (\A u \in Threads : u # t => pc'[u] = pc[u]) /\ closing' = closing
    BY <1>2, <1>3 DEF NotifyFinished, Goto, control
  <2>2. pc'[Runner] \notin Middle
    BY <2>1, <1>2 DEF Middle
  <2>3. pc'[Main] \in Busy <=> pc[Main] \in Busy
    BY <2>1, <1>1, RunnerIsThread DEF Busy
  <2>4. pc'[Worker] = "exited" => pc[Worker] = "exited" \/ completed \/ synchronous
    BY <2>1, RunnerIsThread
  <2> QED
    BY <2>1, <2>2, <2>3, <2>4, <1>1, <1>2, BesideCloses
<1>4. CASE Post(t) /\ t = Worker
  <2>1. pc'[t] = "loop" /\ (\A u \in Threads : u # t => pc'[u] = pc[u]) /\ closing' = closing
    BY <1>2, <1>4 DEF Post, AfterRun, Goto
  <2>2. pc'[Runner] \notin Middle
    BY <2>1, <1>2 DEF Middle
  <2>3. pc'[Main] \in Busy <=> pc[Main] \in Busy
    BY <2>1, <1>2, <1>4, RunnerIsThread
  <2>4. pc'[Worker] = "exited" => pc[Worker] = "exited" \/ completed \/ synchronous
    BY <2>1, <1>4
  <2> QED
    BY <2>1, <2>2, <2>3, <2>4, <1>1, <1>2, BesideCloses
<1>5. CASE Post(t) /\ t # Worker
  <2>1. t = Main /\ synchronous
    BY <1>2, <1>5 DEF Runner
  <2>2. Continue(t) /\ pc'[Main] \in {"idle", "have"} /\ pc'[Worker] = pc[Worker] /\ Main \in Threads
    BY <1>5, <2>1, <1>2, ContinueMoves, RunnerIsThread DEF IInv, Post, AfterRun
  <2>3. /\ Synced' = Synced /\ pc'[Runner] \notin Middle /\ pc'[Main] \notin Busy /\ ~At("complete")'
        /\ Idle' = Synced /\ queue = <<>> /\ pc[Main] \in Busy /\ ~At("synchronize") /\ ~At("complete")
    BY <1>1, <1>2, <2>1, <2>2 DEF Synced, Idle, At, Runner, Middle, Busy, Order, store, versions, content
  <2>4. CASE closing = "no"
    <3>1. closing' = "no" /\ ~completed
      BY <2>2, <2>4, <1>2 DEF Continue, Closing, Closed
    <3> QED
      BY <3>1, <2>1, <2>2, <2>3, <1>1, <1>2 DEF Closing, Closed, CompletesLast, ClosingInline
  <2>5. CASE closing = "synchronize"
    <3>1. closing' = "complete" /\ ~completed /\ Synced
      BY <2>1, <2>2, <2>3, <2>5, <1>2 DEF Continue, Closing, Closed, ClosingInline, Idle
    <3> QED
      BY <3>1, <2>1, <2>2, <2>3, <1>1, <1>2 DEF Closing, Closed, CompletesLast, ClosingInline, Runner
  <2>6. CASE closing = "complete"
    <3>1. closing' = "join" /\ Synced
      BY <2>1, <2>2, <2>3, <2>6, <1>2 DEF Continue, Closing, ClosingInline
    <3> QED
      BY <3>1, <2>1, <2>2, <2>3, <1>1, <1>2 DEF Closing, Closed, CompletesLast, ClosingInline
  <2>7. closing # "join"
    BY <2>1, <2>3 DEF Closing, ClosingInline
  <2> QED
    BY <2>4, <2>5, <2>6, <2>7 DEF IInv, Basis, Shape
<1> QED
  BY <1>3, <1>4, <1>5

\* With a worker: what activate(false) requests is put at the end of the queue,
\* and no client requests a complete.
LEMMA EnqueueCloses ==
  ASSUME OnlyClient, IInv, Closing, NEW type \in Requests(Main), Enqueue(Main, type)
  PROVE  Closing'
<1>1. /\ ~synchronous /\ UNCHANGED <<store, active, open, completed, synchronous>>
      /\ Continue(Main) /\ Runner = Worker /\ Runner' = Worker
  BY DEF Enqueue, setup, Runner
<1>2. /\ pc'[Worker] = pc[Worker] /\ cur'[Worker] = cur[Worker]
      /\ queue \in Seq(GoodTask) /\ Len(queue) \in Nat
  BY <1>1, ContinueMoves, RunnerIsThread DEF IInv, Basis, TasksOK
<1>3. /\ Synced' = Synced /\ Idle' = Idle /\ At("synchronize")' = At("synchronize")
      /\ At("complete")' = At("complete")
      /\ pc'[Runner'] = pc[Runner]
  BY <1>1, <1>2 DEF Synced, Idle, At, store, versions, content
<1>4. closing' = CASE closing = "synchronize" -> "complete"
                   [] closing = "complete" -> "join"
                   [] OTHER -> closing
  BY <1>1 DEF Continue, Requests, IInv, Basis, Shape
<1>5. closing # "join"
  BY DEF Requests
<1>6. ~At("complete") /\ \A i \in 1..Len(queue) : queue[i].type # "complete"
  BY <1>1, <1>5 DEF Closing, CompletesLast
<1>7. CASE ~active
  <2>1. queue' = queue /\ closing = "no" /\ closing' = "no" /\ Synced
    BY <1>4, <1>7 DEF Enqueue, Closing
  <2> QED
    BY <2>1, <1>1, <1>3, <1>6, <1>7 DEF Closing, CompletesLast, ClosingQueue
<1>8. CASE active
  <2>1. ~completed /\ open = "open" /\ pc[Worker] # "exited"
    BY <1>1, <1>5, <1>8 DEF Closing, Closed
  <2>2. PICK d \in Payloads(type) : queue' = Append(queue, Task(type, d))
    BY <2>1, <1>8 DEF Enqueue
  <2>3. /\ Len(queue') = Len(queue) + 1 /\ queue' # <<>>
        /\ \A i \in 1..Len(queue) : queue'[i] = queue[i]
        /\ queue'[Len(queue')].type = type
    <3> DEFINE task == Task(type, d)
    <3>1. task.type = type
      BY DEF Task
    <3> HIDE DEF task
    <3>2. queue' = Append(queue, task)
      BY <2>2 DEF task
    <3> QED
      BY <3>1, <3>2, <1>2
  <2>4. type = "complete" <=> closing = "complete"
    BY <1>5, RequestAssumption DEF Requests, IInv, Basis, Shape
  <2>5. \A i \in 1..Len(queue') : i \in 1..Len(queue) \/ i = Len(queue')
    BY <2>3, <1>2
  <2>6. CompletesLast'
    <3>1. ASSUME NEW i \in 1..Len(queue'), queue'[i].type = "complete"
          PROVE  i = Len(queue') /\ closing' = "join"
      <4>1. i = Len(queue')
        BY <2>3, <2>5, <3>1, <1>6
      <4> QED
        BY <4>1, <3>1, <2>3, <2>4, <1>4
    <3> QED
      BY <3>1, <1>3, <1>6 DEF CompletesLast
  <2>7. Closed'
    BY <2>1, <1>1, <1>2 DEF Closed
  <2>8. CASE closing = "no"
    <3>1. ClosingQueue'
      BY <2>8, <1>4 DEF ClosingQueue
    <3> QED
      BY <3>1, <2>6, <2>7, <1>1, <1>8 DEF Closing
  <2>9. CASE closing = "synchronize"
    <3>1. closing' = "complete" /\ type = "synchronize"
      BY <2>9, <1>4 DEF Requests
    <3>2. ClosingQueue'
      BY <3>1, <2>3 DEF ClosingQueue
    <3> QED
      BY <3>2, <2>6, <2>7, <1>1, <1>8 DEF Closing
  <2>10. CASE closing = "complete"
    <3>1. closing' = "join" /\ type = "complete"
      BY <2>4, <2>10, <1>4
    <3>2. IF queue = <<>> THEN At("synchronize") \/ Idle
          ELSE queue[Len(queue)].type = "synchronize"
      BY <2>10, <1>1 DEF Closing, ClosingQueue
    <3>3. IF Len(queue') = 1 THEN (At("synchronize") \/ Idle)'
          ELSE queue'[Len(queue') - 1].type = "synchronize"
      <4>1. CASE queue = <<>>
        BY <3>2, <4>1, <2>3, <1>3
      <4>2. CASE queue # <<>>
        <5>1. Len(queue) \in 1..Len(queue) /\ Len(queue') # 1 /\ Len(queue') - 1 = Len(queue)
          BY <4>2, <2>3, <1>2
        <5> QED
          BY <5>1, <4>2, <3>2, <2>3
      <4> QED
        BY <4>1, <4>2
    <3>4. ClosingQueue'
      BY <3>1, <3>3, <2>3 DEF ClosingQueue
    <3> QED
      BY <3>4, <2>6, <2>7, <1>1, <1>8 DEF Closing
  <2> QED
    BY <2>8, <2>9, <2>10, <1>5 DEF IInv, Basis, Shape
<1> QED
  BY <1>7, <1>8 DEF IInv, Basis, Shape

\* In synchronous mode the main thread starts to carry it out at once.
LEMMA RunInlineCloses ==
  ASSUME OnlyClient, IInv, Order, Closing, NEW type \in Requests(Main), RunInline(Main, type)
  PROVE  Closing'
<1>1. /\ synchronous /\ pc[Main] = "idle"
      /\ UNCHANGED <<store, queue, active, open, completed, synchronous>>
      /\ Runner = Main /\ Runner' = Main /\ Main # Worker /\ Main \in Threads /\ Worker \in Threads
      /\ queue = <<>>
  BY RunnerIsThread DEF RunInline, setup, Runner, Order
<1>2. pc \in [Threads -> Places] /\ cur \in [Threads -> GoodTask] /\ Synced' = Synced
  BY <1>1 DEF IInv, Basis, Shape, TasksOK, Synced, store, versions, content
<1>3. closing # "join" /\ (closing # "no" => type = closing) /\ (closing = "no" => type # "complete")
  BY RequestAssumption DEF Requests
<1>4. CASE active
  <2>1. ~completed /\ open = "open"
    BY <1>1, <1>3, <1>4 DEF Closing, Closed, Busy
  <2>2. PICK d \in Payloads(type) : cur' = [cur EXCEPT ![Main] = Task(type, d)]
    BY <1>4 DEF RunInline
  <2>3. cur'[Main].type = type
    BY <2>2, <1>1, <1>2 DEF Task
  <2>4. pc'[Main] = "exec" /\ pc'[Worker] = pc[Worker] /\ closing' = closing
    BY <1>1, <1>2, <1>4 DEF RunInline, Goto
  <2>5. \A x \in {"synchronize", "complete"} : At(x)' <=> type = x
    BY <2>3, <2>4, <1>1 DEF At, Middle
  <2>6. Closed'
    BY <2>1, <2>4, <1>1 DEF Closed
  <2>7. closing = "complete" => Synced
    BY <1>1 DEF Closing, ClosingInline
  <2>8. CompletesLast'
    BY <2>4, <2>5, <2>7, <1>1, <1>2, <1>3 DEF CompletesLast
  <2>9. ClosingInline'
    BY <2>4, <2>5, <2>7, <1>2, <1>3 DEF ClosingInline
  <2> QED
    BY <2>6, <2>8, <2>9, <1>1, <1>4 DEF Closing
<1>5. CASE ~active
  <2>1. closing = "no" /\ Synced /\ Continue(Main)
    BY <1>5 DEF RunInline, Closing
  <2>2. closing' = "no" /\ pc'[Main] \in {"idle", "have"} /\ ~At("complete")'
    BY <2>1, <1>1, ContinueMoves DEF IInv, Continue, At, Middle
  <2> QED
    BY <2>1, <2>2, <1>1, <1>2, <1>5 DEF Closing, CompletesLast, ClosingInline
<1> QED
  BY <1>4, <1>5 DEF IInv, Basis, Shape

\* The store is made active for the first time: nothing is asked of it yet.
LEMMA ActivateCloses == ASSUME IInv, Fresh, Activate PROVE Closing'
<1>1. /\ closing' = "no" /\ queue' = <<>> /\ ~completed' /\ open' = "open" /\ active'
      /\ UNCHANGED synchronous
      /\ Runner' = Runner /\ pc \in [Threads -> Places]
  BY DEF Activate, Fresh, setup, Runner, IInv, Basis, Shape
<1>2. pc'[Worker] = "loop" /\ pc'[Main] = "idle" /\ pc'[Runner] \notin Middle
  BY <1>1, RunnerIsThread DEF Activate, Goto, Middle, Runner
<1>3. ~At("complete")'
  BY <1>1, <1>2 DEF At
<1> QED
  BY <1>1, <1>2, <1>3 DEF Closing, Closed, CompletesLast, ClosingInline, ClosingQueue

\* activate(false) begins ...
LEMMA DeactivateCloses == ASSUME IInv, Closing, Deactivate PROVE Closing'
<1>1. /\ closing = "no" /\ closing' = "synchronize" /\ active /\ pc[Main] = "idle"
      /\ UNCHANGED <<store, queue, active, open, completed, synchronous, pc, cur>>
  BY DEF Deactivate, setup
<1>2. ~completed /\ ~At("complete") /\ \A i \in 1..Len(queue) : queue[i].type # "complete"
  BY <1>1 DEF Closing, Closed, CompletesLast
<1>3. ~At("complete")'
  BY <1>1, <1>2 DEF At, Runner
<1>4. Closed' /\ CompletesLast'
  BY <1>1, <1>2, <1>3 DEF Closing, Closed, CompletesLast
<1>5. ClosingInline' /\ ClosingQueue'
  BY <1>1 DEF ClosingInline, ClosingQueue, Busy
<1> QED
  BY <1>1, <1>4, <1>5 DEF Closing

\* ... and ends: the worker has left because the store is completed.
LEMMA JoinCloses == ASSUME IInv, Order, Closing, Join PROVE Closing'
<1>1. /\ closing = "join" /\ closing' = "no" /\ pc[Main] = "idle" /\ pc[Worker] = "exited"
      /\ UNCHANGED <<store, queue, open, completed, synchronous, pc, cur>> /\ ~active' /\ active
  BY DEF Join, setup, Closing
<1>2. queue = <<>> /\ Synced
  BY <1>1 DEF Closing, Closed, ClosingInline, Order, Idle
<1>3. Synced' /\ ~At("complete")'
  BY <1>1, <1>2 DEF Synced, At, Runner, Middle, store, versions, content
<1> QED
  BY <1>1, <1>2, <1>3 DEF Closing, CompletesLast, ClosingInline, ClosingQueue

\* The worker takes the oldest request.
LEMMA WorkerGetCloses == ASSUME IInv, Closing, WorkerGet PROVE Closing'
<1>1. /\ UNCHANGED <<store, active, closing, open, completed, synchronous>>
      /\ pc[Worker] = "get" /\ ~synchronous /\ active
      /\ Runner = Worker /\ Runner' = Worker /\ Main # Worker /\ Main \in Threads /\ Worker \in Threads
  BY RunnerIsThread DEF WorkerGet, control, setup, IInv, Basis, OneRunner, Runner
<1>2. /\ pc \in [Threads -> Places] /\ cur \in [Threads -> GoodTask]
      /\ queue \in Seq(GoodTask) /\ Len(queue) \in Nat
  BY DEF IInv, Basis, Shape, TasksOK
<1>3. CASE UNCHANGED <<queue, cur>> /\ Goto(Worker, "loop")
  <2>1. pc'[Worker] = "loop" /\ pc'[Main] = pc[Main] /\ pc[Runner] \notin Middle
        /\ pc'[Runner] \notin Middle
    BY <1>1, <1>2, <1>3 DEF Goto, Middle
  <2> QED
    BY <2>1, <1>1, <1>3, BesideCloses
<1>4. CASE queue # <<>> /\ queue' = Tail(queue) /\ cur' = [cur EXCEPT ![Worker] = Head(queue)]
           /\ Goto(Worker, "exec")
  <2>1. /\ cur'[Worker] = queue[1] /\ 1 \in 1..Len(queue)
        /\ Len(queue') = Len(queue) - 1
        /\ \A i \in 1..Len(queue') : i + 1 \in 1..Len(queue) /\ queue'[i] = queue[i + 1]
        /\ queue' = <<>> <=> Len(queue) = 1
    <3>1. 1 \in 1..Len(queue) /\ cur'[Worker] = queue[1]
      BY <1>2, <1>4, <1>1
    <3>2. /\ Len(queue') = Len(queue) - 1 /\ queue' \in Seq(GoodTask)
          /\ \A i \in 1..Len(queue') : i + 1 \in 1..Len(queue) /\ queue'[i] = queue[i + 1]
      BY <1>2, <1>4
    <3>3. queue' = <<>> <=> Len(queue') = 0
      BY <3>2
    <3> QED
      BY <3>1, <3>2, <3>3, <1>2
  <2>2. pc'[Worker] = "exec" /\ pc'[Main] = pc[Main] /\ pc[Runner] \notin Middle /\ Synced' = Synced
    BY <1>1, <1>2, <1>4 DEF Goto, Middle, Synced, store, versions, content
  <2>3. ~completed /\ open = "open" /\ ClosingQueue
    BY <1>1, <1>4 DEF Closing, Closed
  <2>4. \A x \in {"synchronize", "complete"} : (At(x)' <=> queue[1].type = x) /\ ~At(x)
    BY <2>1, <2>2, <1>1 DEF At, Middle
  <2>5. Closed'
    BY <2>2, <2>3, <1>1 DEF Closed
  <2>6. CompletesLast'
    <3>1. ASSUME NEW i \in 1..Len(queue'), queue'[i].type = "complete"
          PROVE  i = Len(queue') /\ closing' = "join"
      <4>1. i + 1 = Len(queue) /\ closing = "join"
        BY <2>1, <3>1 DEF Closing, CompletesLast
      <4> QED
        BY <4>1, <2>1, <1>1, <1>2
    <3>2. ASSUME queue[1].type = "complete"
          PROVE  queue' = <<>> /\ Synced' /\ closing' = "join"
      <4>1. 1 = Len(queue) /\ closing = "join"
        BY <2>1, <3>2 DEF Closing, CompletesLast
      <4>2. Idle
        BY <4>1, <2>3, <2>4, <1>4 DEF ClosingQueue
      <4> QED
        BY <4>1, <4>2, <2>1, <2>2, <1>1 DEF Idle
    <3> QED
      BY <3>1, <3>2, <2>2, <2>4, <1>1 DEF CompletesLast
  <2>7. closing = "complete" => IF queue' = <<>> THEN At("synchronize")'
                                ELSE queue'[Len(queue')].type = "synchronize"
    <3>1. SUFFICES ASSUME closing = "complete"
                   PROVE  IF queue' = <<>> THEN At("synchronize")'
                          ELSE queue'[Len(queue')].type = "synchronize"
      OBVIOUS
    <3>2. queue[Len(queue)].type = "synchronize"
      BY <3>1, <2>3, <1>4 DEF ClosingQueue
    <3>3. CASE Len(queue) = 1
      BY <3>2, <3>3, <2>1, <2>4
    <3>4. CASE Len(queue) # 1
      <4>1. Len(queue') \in 1..Len(queue') /\ Len(queue') + 1 = Len(queue)
        BY <3>4, <2>1, <1>2
      <4> QED
        BY <4>1, <3>2, <3>4, <2>1
    <3> QED
      BY <3>3, <3>4
  <2>8. closing = "join" =>
           IF queue' = <<>> THEN Synced' /\ At("complete")'
           ELSE /\ queue'[Len(queue')].type = "complete"
                /\ IF Len(queue') = 1 THEN At("synchronize")'
                   ELSE queue'[Len(queue') - 1].type = "synchronize"
    <3>1. SUFFICES ASSUME closing = "join"
                   PROVE  IF queue' = <<>> THEN Synced' /\ At("complete")'
                          ELSE /\ queue'[Len(queue')].type = "complete"
                               /\ IF Len(queue') = 1 THEN At("synchronize")'
                                  ELSE queue'[Len(queue') - 1].type = "synchronize"
      OBVIOUS
    <3>2. /\ queue[Len(queue)].type = "complete"
          /\ IF Len(queue) = 1 THEN Idle ELSE queue[Len(queue) - 1].type = "synchronize"
      BY <3>1, <2>3, <2>4, <1>4 DEF ClosingQueue
    <3>3. CASE Len(queue) = 1
      BY <3>2, <3>3, <2>1, <2>2, <2>4 DEF Idle
    <3>4. CASE Len(queue) # 1
      <4>1. /\ Len(queue') \in 1..Len(queue') /\ Len(queue') + 1 = Len(queue)
            /\ Len(queue') # 1 => Len(queue') - 1 \in 1..Len(queue')
               /\ Len(queue') - 1 + 1 = Len(queue) - 1
        BY <3>4, <2>1, <1>2
      <4>2. queue'[Len(queue')].type = "complete"
        BY <4>1, <3>2, <2>1
      <4>3. Len(queue') = 1 => At("synchronize")'
        <5>1. Len(queue') = 1 => Len(queue) - 1 = 1
          BY <4>1
        <5> QED
          BY <5>1, <3>2, <3>4, <2>4
      <4>4. Len(queue') # 1 => queue'[Len(queue') - 1].type = "synchronize"
        BY <4>1, <3>2, <3>4, <2>1
      <4> QED
        BY <4>2, <4>3, <4>4, <3>4, <2>1
    <3> QED
      BY <3>3, <3>4
  <2>9. ClosingQueue'
    BY <2>7, <2>8, <1>1 DEF ClosingQueue
  <2> QED
    BY <2>5, <2>6, <2>9, <1>1 DEF Closing
<1> QED
  BY <1>3, <1>4 DEF WorkerGet

\* A thread that waits, registers a callback or is done, and the worker's loop.
LEMMA IdleCloses ==
  ASSUME OnlyClient, IInv, Closing,
         \/ \E t \in Users : OnFinished(t) \/ WaitForFinished(t) \/ Release(t)
         \/ RunCallbacks \/ WorkerLoop
  PROVE  Closing'
<1>1. UNCHANGED <<store, queue, active, closing, open, completed, synchronous>>
  BY DEF OnFinished, WaitForFinished, Release, RunCallbacks, WorkerLoop, control, setup
<1>2. /\ pc \in [Threads -> Places] /\ cur \in [Threads -> GoodTask]
      /\ Main \in Threads /\ Worker \in Threads /\ Main # Worker
      /\ synchronous \in BOOLEAN
  BY RunnerIsThread DEF IInv, Basis, Shape, TasksOK
<1>3. CASE RunCallbacks \/ \E t \in Users : OnFinished(t)
  <2>1. UNCHANGED <<pc, cur>>
    BY <1>3 DEF RunCallbacks, OnFinished
  <2> QED
    BY <2>1, <1>1, BesideCloses
<1>4. CASE \E t \in Users : WaitForFinished(t) \/ Release(t)
  <2>1. WaitForFinished(Main) \/ Release(Main)
    BY <1>4, OnlyMain
  <2>2. /\ pc[Main] \in {"have", "wait"} /\ pc'[Main] \in {"wait", "idle"}
        /\ pc'[Worker] = pc[Worker] /\ cur'[Worker] = cur[Worker]
    BY <2>1, <1>2 DEF WaitForFinished, Release, Goto
  <2>3. \/ pc[Runner] \notin Middle /\ pc'[Runner] \notin Middle
        \/ pc'[Runner] = pc[Runner] /\ cur'[Runner] = cur[Runner]
    BY <2>2 DEF Runner, Middle
  <2>4. pc'[Main] \in Busy <=> pc[Main] \in Busy
    BY <2>2 DEF Busy
  <2> QED
    BY <2>2, <2>3, <2>4, <1>1, BesideCloses
<1>5. CASE WorkerLoop
  <2>1. /\ pc[Worker] = "loop" /\ pc'[Worker] \in {"exited", "get"} /\ pc'[Main] = pc[Main] /\ cur' = cur
        /\ pc'[Worker] = "exited" => completed \/ synchronous
    BY <1>2, <1>5 DEF WorkerLoop, Goto
  <2>2. \/ pc[Runner] \notin Middle /\ pc'[Runner] \notin Middle
        \/ pc'[Runner] = pc[Runner] /\ cur'[Runner] = cur[Runner]
    BY <2>1 DEF Runner, Middle
  <2> QED
    BY <2>1, <2>2, <1>1, BesideCloses
<1> QED
  BY <1>3, <1>4, <1>5

\* A store that was never active stays as it is, whatever is asked of it.
LEMMA FreshStays ==
  ASSUME IInv, Fresh, cycles = 0,
         \/ \E t \in Users :
               \/ \E type \in Requests(t) : Request(t, type)
               \/ OnFinished(t) \/ WaitForFinished(t) \/ Release(t)
         \/ Deactivate \/ Join \/ RunCallbacks \/ WorkerLoop \/ WorkerGet
         \/ \E t \in Threads : RunStep(t)
  PROVE  Fresh'
<1>1. /\ ~active /\ closing = "no" /\ queue = <<>> /\ open = "new" /\ ~completed /\ pc[Worker] = "off"
      /\ \A t \in Threads : pc[t] \notin Busy
      /\ pc \in [Threads -> Places] /\ cycles \in Nat
  BY DEF IInv, Basis, OneRunner, Shape, Fresh
<1>2. ASSUME NEW t \in Threads, RunStep(t) PROVE FALSE
  <2>1. pc[t] \in Middle \cup {"notify", "post"}
    BY <1>2, OperationAt DEF RunStep, Look, Set, Clear, Load, Generate, SaveOpen, SaveWrite, Complete,
                             NotifyFinished, Post, Middle
  <2> QED
    BY <2>1, <1>1 DEF Middle, Busy
<1>3. ~Deactivate /\ ~Join /\ ~WorkerLoop /\ ~WorkerGet
  BY <1>1 DEF Deactivate, Join, WorkerLoop, WorkerGet
<1>4. ASSUME NEW t \in Users, NEW type \in Requests(t), Request(t, type) PROVE Fresh'
  <2>1. /\ t \in Threads /\ t # Worker /\ Worker \in Threads
        /\ Continue(t) /\ UNCHANGED <<queue, open, completed>>
    BY <1>1, <1>4, RequestsAreTypes, RunnerIsThread DEF Request, Enqueue, RunInline
  <2>2. closing' = "no" /\ pc'[Worker] = "off"
    BY <1>1, <2>1, ContinueMoves DEF IInv, Continue
  <2> QED
    BY <1>1, <2>1, <2>2 DEF Fresh
<1>5. ASSUME NEW t \in Users, OnFinished(t) \/ WaitForFinished(t) \/ Release(t) PROVE Fresh'
  <2>1. t # Worker /\ UNCHANGED <<closing, queue, open, completed>>
    BY <1>5, RequestsAreTypes DEF OnFinished, WaitForFinished, Release, control
  <2>2. pc'[Worker] = pc[Worker]
    BY <1>1, <1>5, <2>1, RunnerIsThread DEF OnFinished, WaitForFinished, Release, Goto
  <2> QED
    BY <1>1, <2>1, <2>2 DEF Fresh
<1>6. CASE RunCallbacks
  BY <1>1, <1>6 DEF RunCallbacks, Fresh, control
<1> QED
  BY <1>2, <1>3, <1>4, <1>5, <1>6

\* Lifetime holds of every reachable state.
LEMMA LifetimeHolds == ASSUME OnlyClient PROVE Spec => []Lifetime
<1>1. Init => Lifetime
  BY RunnerIsThread DEF Init, Lifetime, Fresh, Quiet
<1>2. ASSUME IInv, IInv', Order, cycles <= 1 => LoadNeverDiscards, Lifetime, [Next]_vars PROVE Lifetime'
  <2>0. cycles \in Nat
    BY <1>2 DEF IInv, Basis, Shape
  <2>1. CASE Activate
    <3>1. cycles' = cycles + 1
      BY <2>1 DEF Activate
    <3>2. cycles = 0 => Closing'
      BY <1>2, <2>1, ActivateCloses DEF Lifetime
    <3> QED
      BY <3>1, <3>2, <2>0 DEF Lifetime
  <2>2. CASE Restart
    BY <2>2, RunnerIsThread DEF Restart, Lifetime, Fresh, Quiet
  <2>3. CASE UNCHANGED vars
    <3>1. UNCHANGED <<store, active, queue, closing, open, completed, synchronous, pc, cur, cycles>>
      BY <2>3 DEF vars, control, setup
    <3>2. Closing => Closing'
      BY <1>2, <3>1, BesideCloses
    <3>3. Fresh => Fresh'
      BY <3>1 DEF Fresh
    <3> QED
      BY <1>2, <3>1, <3>2, <3>3 DEF Lifetime
  <2>4. CASE \/ \E t \in Users :
                   \/ \E type \in Requests(t) : Request(t, type)
                   \/ OnFinished(t) \/ WaitForFinished(t) \/ Release(t)
             \/ Deactivate \/ Join \/ RunCallbacks \/ WorkerLoop \/ WorkerGet
             \/ \E t \in Threads : RunStep(t)
    <3>1. cycles' = cycles
      <4>1. CASE \E t \in Threads : RunStep(t)
        BY <4>1 DEF RunStep, Look, Set, Clear, Load, Generate, SaveOpen, SaveWrite, Complete,
                    NotifyFinished, Post, control
      <4>2. CASE ~\E t \in Threads : RunStep(t)
        BY <2>4, <4>2 DEF Deactivate, Join, RunCallbacks, WorkerLoop, WorkerGet, Request, Enqueue,
                          RunInline, OnFinished, WaitForFinished, Release, control
      <4> QED
        BY <4>1, <4>2
    <3>2. CASE cycles = 0
      BY <1>2, <2>4, <3>1, <3>2, FreshStays DEF Lifetime
    <3>3. CASE cycles = 1
      <4>1. Closing /\ LoadNeverDiscards
        BY <1>2, <3>3 DEF Lifetime
      <4>2. ASSUME NEW t \in Threads, RunStep(t) PROVE Closing'
        BY <1>2, <4>1, <4>2, OperationCloses, AfterwardsCloses DEF RunStep
      <4>3. ASSUME NEW t \in Users, NEW type \in Requests(t), Request(t, type) PROVE Closing'
        <5>1. t = Main
          BY OnlyMain
        <5> QED
          BY <1>2, <4>1, <4>3, <5>1, EnqueueCloses, RunInlineCloses DEF Request
      <4>4. ASSUME \/ \E t \in Users : OnFinished(t) \/ WaitForFinished(t) \/ Release(t)
                   \/ RunCallbacks \/ WorkerLoop
            PROVE  Closing'
        BY <1>2, <4>1, <4>4, IdleCloses
      <4>5. ASSUME Deactivate \/ Join \/ WorkerGet PROVE Closing'
        BY <1>2, <4>1, <4>5, DeactivateCloses, JoinCloses, WorkerGetCloses
      <4> QED
        BY <2>4, <3>1, <3>3, <4>2, <4>3, <4>4, <4>5 DEF Lifetime
    <3>4. CASE cycles \notin {0, 1}
      BY <3>1, <3>4 DEF Lifetime
    <3> QED
      BY <3>2, <3>3, <3>4
  <2> QED
    BY <1>2, <2>1, <2>2, <2>3, <2>4 DEF Next
<1> QED
  BY InvariantHolds, OrderHolds, OneActivation, <1>1, <1>2, PTL DEF Spec

\* When the first activate(false) of the only client is over and nothing failed,
\* the file holds what memory holds, whatever the client did before and whether or
\* not there is a worker.
THEOREM ClosesInAgreement == Spec => []OrderlyShutdown
<1>1. CASE OnlyClient
  <2>1. Lifetime => OrderlyShutdown
    BY DEF Lifetime, Closing, Synced, OrderlyShutdown
  <2> QED
    BY <1>1, <2>1, LifetimeHolds, PTL
<1>2. CASE ~OnlyClient
  <2>1. OrderlyShutdown
    BY <1>2 DEF OnlyClient, OrderlyShutdown
  <2> QED
    BY <2>1, PTL
<1> QED
  BY <1>1, <1>2

-----------------------------------------------------------------------------
(* Where the events are, and the callbacks that are still to be called.      *)

Queued(i) == \E k \in 1..Len(queue) : queue[k].id = i
Going(i) == Queued(i) \/ (pc[Runner] \in Busy /\ cur[Runner].id = i)
Calling(i) == Going(i) \/ \E k \in 1..Len(posted) : posted[k] = i
Holding == {"have", "wait"}

\* A pending event is on its way, a thread holds an event that exists, and the
\* main thread runs the event it has just made.
Placed ==
    /\ \A i \in 1..Len(events) : events[i].state = "pending" => Going(i)
    /\ pc[Runner] = "post" => events[cur[Runner].id].state # "pending"
    /\ \A t \in Threads : pc[t] \in Holding => cur[t].id \in 1..Len(events)
    /\ synchronous /\ pc[Main] \in Busy => cur[Main].id = Len(events)
    /\ pc[Worker] \notin Holding \cup {"idle"}

\* The callbacks the main thread may add are still to be called.
ToCome ==
    /\ \A i \in 1..Len(events) : events[i].state # "lost" /\ Wanted(i) => Calling(i)
    /\ \A i \in 1..Len(events) : events[i].waiting = 1 => "callback" \in Uses

\* A step after which the runner is still at the event it was at, and nobody holds
\* an event that he did not.
LEMMA RunnerStays ==
  ASSUME Placed, ToCome, Order, UNCHANGED <<queue, posted, synchronous>>, Len(events') = Len(events),
         \A e \in 1..Len(events) : events'[e].state = "pending" => events[e].state = "pending",
         \A e \in 1..Len(events) : events'[e].waiting = 1 => "callback" \in Uses,
         \A e \in 1..Len(events) : events'[e].state # "lost" /\ Wanted(e)' =>
                                       Calling(e) \/ (events[e].state # "lost" /\ Wanted(e)),
         pc[Runner] \in Busy => pc'[Runner] \in Busy /\ cur'[Runner] = cur[Runner],
         pc'[Runner] = "post" => cur'[Runner] = cur[Runner] /\ events'[cur[Runner].id].state # "pending",
         \A t \in Threads : pc'[t] \in Holding => pc[t] \in Holding /\ cur'[t] = cur[t],
         synchronous /\ pc'[Main] \in Busy => pc[Main] \in Busy,
         pc'[Worker] \notin Holding \cup {"idle"}
  PROVE  Placed' /\ ToCome'
<1>1. Runner' = Runner /\ (synchronous => Runner = Main)
  BY DEF Runner
<1>2. ASSUME NEW i, Going(i) PROVE Going(i)'
  BY <1>1, <1>2 DEF Going, Queued
<1>3. ASSUME NEW i, Calling(i) PROVE Calling(i)'
  BY <1>2, <1>3 DEF Calling
<1>4. Placed'
  <2>1. \A i \in 1..Len(events') : events'[i].state = "pending" => Going(i)'
    BY <1>2 DEF Placed
  <2>2. pc'[Runner'] = "post" => events'[cur'[Runner'].id].state # "pending"
    BY <1>1
  <2>3. \A t \in Threads : pc'[t] \in Holding => cur'[t].id \in 1..Len(events')
    BY DEF Placed
  <2>4. synchronous' /\ pc'[Main] \in Busy => cur'[Main].id = Len(events')
    BY <1>1 DEF Placed
  <2> QED
    BY <2>1, <2>2, <2>3, <2>4 DEF Placed
<1>5. ASSUME NEW i \in 1..Len(events'), events'[i].state # "lost", Wanted(i)'
      PROVE  Calling(i)'
  <2>1. i \in 1..Len(events) /\ (Calling(i) \/ (events[i].state # "lost" /\ Wanted(i)))
    BY <1>5
  <2>2. Calling(i)
    BY <1>5, <2>1 DEF ToCome
  <2> QED
    BY <1>3, <2>2
<1>6. ToCome'
  BY <1>5 DEF ToCome
<1> QED
  BY <1>4, <1>6

\* So it is if the step leaves the events alone.
LEMMA SamePlaces ==
  ASSUME Placed, ToCome, Order, UNCHANGED <<queue, posted, synchronous, events>>,
         pc[Runner] \in Busy => pc'[Runner] \in Busy /\ cur'[Runner] = cur[Runner],
         pc'[Runner] = "post" => pc[Runner] = "post",
         \A t \in Threads : pc'[t] \in Holding => pc[t] \in Holding /\ cur'[t] = cur[t],
         synchronous /\ pc'[Main] \in Busy => pc[Main] \in Busy,
         pc'[Worker] \notin Holding \cup {"idle"}
  PROVE  Placed' /\ ToCome'
<1>1. pc'[Runner] = "post" => cur'[Runner] = cur[Runner] /\ events'[cur[Runner].id].state # "pending"
  BY DEF Placed, Busy
<1>2. \A e \in 1..Len(events) : events'[e].state # "lost" /\ Wanted(e)' =>
                                   Calling(e) \/ (events[e].state # "lost" /\ Wanted(e))
  BY RunnerIsThread DEF Wanted, Holding
<1>3. \A e \in 1..Len(events) : /\ events'[e].state = "pending" => events[e].state = "pending"
                                /\ events'[e].waiting = 1 => "callback" \in Uses
  BY DEF ToCome
<1> QED
  BY <1>1, <1>2, <1>3, RunnerStays

\* Carrying out a request.
LEMMA OperationPlaces ==
  ASSUME Basis, Order, Placed, ToCome, NEW t \in Threads,
         Look(t) \/ Set(t) \/ Clear(t) \/ Load(t) \/ Generate(t) \/ SaveOpen(t) \/ SaveWrite(t) \/ Complete(t)
  PROVE  Placed' /\ ToCome'
<1>1. pc[t] \in Middle /\ UNCHANGED <<queue, events, posted, cur, synchronous>>
  BY OperationAt
     DEF Look, Set, Clear, Load, Generate, SaveOpen, SaveWrite, Complete, Middle, control, setup
<1>2. PICK l \in {"notify", "save", "write"} : Goto(t, l)
  BY DEF Look, Set, Clear, Load, Generate, SaveOpen, SaveWrite, Complete, Done
<1>3. t = Runner /\ pc[Runner] \in Busy /\ pc \in [Threads -> Places]
  BY <1>1 DEF Basis, OneRunner, Shape, Middle, Busy
<1>4. pc'[t] = l /\ \A u \in Threads : u # t => pc'[u] = pc[u]
  BY <1>2, <1>3 DEF Goto
<1>5. pc'[Runner] \in Busy /\ pc'[Runner] # "post" /\ pc'[Runner] \notin Holding \cup {"idle"}
  BY <1>3, <1>4 DEF Busy, Holding
<1>6. \A u \in Threads : pc'[u] \in Holding => pc[u] \in Holding /\ cur'[u] = cur[u]
  BY <1>1, <1>3, <1>4, <1>5
<1>7. synchronous /\ pc'[Main] \in Busy => pc[Main] \in Busy
  BY <1>3 DEF Runner
<1>8. pc'[Worker] \notin Holding \cup {"idle"}
  BY <1>3, <1>4, <1>5, RunnerIsThread DEF Placed
<1> QED
  BY <1>1, <1>3, <1>5, <1>6, <1>7, <1>8, SamePlaces

\* A thread that waits or is done, activate(), and the worker's loop.
LEMMA IdlePlaces ==
  ASSUME Basis, Order, Placed, ToCome,
         \/ \E t \in Users : WaitForFinished(t) \/ Release(t)
         \/ Activate \/ Deactivate \/ Join \/ WorkerLoop
  PROVE  Placed' /\ ToCome'
<1>1. UNCHANGED <<queue, events, posted, synchronous>>
  BY DEF WaitForFinished, Release, Activate, Deactivate, Join, WorkerLoop, control, setup
<1>2. /\ pc \in [Threads -> Places] /\ cur \in [Threads -> GoodTask]
      /\ Runner \in Threads /\ Worker \in Threads /\ Main \in Threads
  BY RunnerIsThread DEF Basis, Shape, TasksOK
<1>3. PICK t \in Threads :
        /\ \A u \in Threads : u # t => pc'[u] = pc[u] /\ cur'[u] = cur[u]
        /\ \/ pc'[t] = pc[t] /\ cur'[t] = cur[t]
           \/ /\ pc[t] \notin Busy /\ pc'[t] \notin Busy
              /\ pc'[t] \in Holding => pc[t] \in Holding /\ cur'[t] = cur[t]
              /\ IF t = Worker THEN pc'[t] \notin Holding \cup {"idle"} ELSE TRUE
  <2>1. ASSUME NEW t \in Users, WaitForFinished(t) \/ Release(t)
        PROVE  /\ t \in Threads /\ \A u \in Threads : u # t => pc'[u] = pc[u] /\ cur'[u] = cur[u]
               /\ pc[t] \notin Busy /\ pc'[t] \notin Busy /\ t # Worker
               /\ pc'[t] \in Holding => pc[t] \in Holding /\ cur'[t] = cur[t]
    BY <2>1, <1>2, UsersRequest DEF WaitForFinished, Release, Goto, Busy, Holding
  <2>2. CASE Activate \/ WorkerLoop
    <3>1. /\ UNCHANGED cur /\ pc'[Worker] \in {"loop", "exited", "get"}
          /\ \A u \in Threads : u # Worker => pc'[u] = pc[u]
      BY <2>2, <1>2 DEF Activate, WorkerLoop, Goto
    <3>2. pc[Worker] \notin Busy
      BY <2>2, <1>2 DEF Activate, WorkerLoop, Basis, OneRunner, Busy
    <3> QED
      BY <3>1, <3>2, <1>2 DEF Busy, Holding
  <2>3. CASE Deactivate \/ Join
    BY <2>3, <1>2 DEF Deactivate, Join
  <2> QED
    BY <2>1, <2>2, <2>3
<1>4. pc[Runner] \in Busy => pc'[Runner] \in Busy /\ cur'[Runner] = cur[Runner]
  BY <1>2, <1>3
<1>5. pc'[Runner] = "post" => pc[Runner] = "post"
  BY <1>2, <1>3 DEF Busy
<1>6. \A u \in Threads : pc'[u] \in Holding => pc[u] \in Holding /\ cur'[u] = cur[u]
  BY <1>3
<1>7. synchronous /\ pc'[Main] \in Busy => pc[Main] \in Busy
  BY <1>2, <1>3
<1>8. pc'[Worker] \notin Holding \cup {"idle"}
  BY <1>2, <1>3 DEF Placed
<1> QED
  BY <1>1, <1>4, <1>5, <1>6, <1>7, <1>8, SamePlaces

\* An event is finished while it is being run.
LEMMA NotifyPlaces ==
  ASSUME Basis, Order, Placed, ToCome, NEW t \in Threads, NotifyFinished(t)
  PROVE  Placed' /\ ToCome'
<1> DEFINE k == cur[t].id
<1>1. /\ UNCHANGED <<queue, posted, cur, synchronous>> /\ pc[t] = "notify"
      /\ events' = [events EXCEPT ![k].state = "finished"]
  BY DEF NotifyFinished, control, setup
<1>2. /\ t = Runner /\ pc[Runner] \in Busy /\ events \in Seq(EventSet) /\ Len(events) \in Nat
      /\ pc \in [Threads -> Places] /\ k \in 1..Len(events)
  BY <1>1 DEF Basis, OneRunner, Busy, Shape, Order
<1>3. pc'[t] = "post" /\ \A u \in Threads : u # t => pc'[u] = pc[u]
  BY <1>2 DEF NotifyFinished, Goto
<1>4. Going(k)
  BY <1>2 DEF Going
<1> HIDE DEF k
<1>5. /\ Len(events') = Len(events)
      /\ \A e \in 1..Len(events) :
            /\ events'[e].state = IF e = k THEN "finished" ELSE events[e].state
            /\ events'[e].waiting = events[e].waiting
  <2>1. Len(events') = Len(events) /\ \A e \in 1..Len(events) :
            events'[e] = IF e = k THEN [events[e] EXCEPT !.state = "finished"] ELSE events[e]
    BY <1>1, <1>2
  <2>2. \A e \in 1..Len(events) : events[e] \in EventSet
    BY <1>2
  <2> QED
    BY <2>1, <2>2 DEF EventSet
<1>6. \A u \in Threads : pc'[u] \in Holding => pc[u] \in Holding /\ cur'[u] = cur[u]
  BY <1>1, <1>3 DEF Holding
<1>7. pc'[Worker] \notin Holding \cup {"idle"}
  BY <1>3, RunnerIsThread DEF Placed, Holding
<1>8. \A e \in 1..Len(events) : events'[e].state # "lost" /\ Wanted(e)' =>
                                   Calling(e) \/ (events[e].state # "lost" /\ Wanted(e))
  BY <1>4, <1>5, <1>6, RunnerIsThread DEF Wanted, Holding, Calling
<1>9. \A e \in 1..Len(events) : /\ events'[e].state = "pending" => events[e].state = "pending"
                                /\ events'[e].waiting = 1 => "callback" \in Uses
  BY <1>5 DEF ToCome
<1>10. events'[cur[Runner].id].state # "pending" /\ cur'[Runner] = cur[Runner] /\ pc'[Runner] \in Busy
  BY <1>1, <1>2, <1>3, <1>5 DEF k, Busy
<1>11. synchronous /\ pc'[Main] \in Busy => pc[Main] \in Busy
  BY <1>2 DEF Runner
<1> QED
  BY <1>1, <1>5, <1>6, <1>7, <1>8, <1>9, <1>10, <1>11, RunnerStays

\* A callback is added to the event the thread holds.
LEMMA OnFinishedPlaces ==
  ASSUME Basis, Order, Placed, ToCome, NEW t \in Users, OnFinished(t)
  PROVE  Placed' /\ ToCome'
<1> DEFINE k == cur[t].id
<1>1. /\ UNCHANGED <<queue, posted, pc, cur, synchronous>> /\ pc[t] \in Holding /\ "callback" \in Uses
      /\ events' = [events EXCEPT ![k].waiting = 1]
  BY DEF OnFinished, control, setup, Holding
<1>2. events \in Seq(EventSet) /\ Len(events) \in Nat /\ (Others = {} => t = Main)
  BY DEF Basis, Shape, Users, Clients
<1> HIDE DEF k
<1>3. /\ Len(events') = Len(events)
      /\ \A e \in 1..Len(events) :
            /\ events'[e].state = events[e].state
            /\ e # k => events'[e].waiting = events[e].waiting
  <2>1. Len(events') = Len(events) /\ \A e \in 1..Len(events) :
            events'[e] = IF e = k THEN [events[e] EXCEPT !.waiting = 1] ELSE events[e]
    BY <1>1, <1>2
  <2>2. \A e \in 1..Len(events) : events[e] \in EventSet
    BY <1>2
  <2> QED
    BY <2>1, <2>2 DEF EventSet
<1>4. \A e \in 1..Len(events) : events'[e].state # "lost" /\ Wanted(e)' =>
                                   Calling(e) \/ (events[e].state # "lost" /\ Wanted(e))
  BY <1>1, <1>2, <1>3 DEF Wanted, Holding, k
<1>5. pc'[Runner] = "post" => cur'[Runner] = cur[Runner] /\ events'[cur[Runner].id].state # "pending"
  <2>1. pc[Runner] = "post" => cur[Runner].id \in 1..Len(events)
    BY DEF Order, Busy
  <2> QED
    BY <2>1, <1>1, <1>3 DEF Placed
<1>6. \A e \in 1..Len(events) : /\ events'[e].state = "pending" => events[e].state = "pending"
                                /\ events'[e].waiting = 1 => "callback" \in Uses
  BY <1>1, <1>3
<1>7. pc'[Worker] \notin Holding \cup {"idle"}
  BY <1>1 DEF Placed
<1> QED
  BY <1>1, <1>3, <1>4, <1>5, <1>6, <1>7, RunnerStays

\* The runner is done with its event, and its callbacks are posted.
LEMMA PostPlaces ==
  ASSUME Basis, Order, Kinds, Placed, ToCome, NEW t \in Threads, Post(t)
  PROVE  Placed' /\ ToCome'
<1> DEFINE k == cur[t].id
<1>1. /\ UNCHANGED <<queue, events, synchronous>> /\ pc[t] = "post" /\ AfterRun(t)
      /\ posted' = IF "callback" \in Uses THEN Append(posted, k) ELSE posted
  BY DEF Post, setup
<1>2. /\ t = Runner /\ Runner' = Runner /\ pc[Runner] \in Busy
      /\ pc \in [Threads -> Places] /\ cur \in [Threads -> GoodTask]
      /\ Main \in Threads /\ Worker \in Threads /\ Main # Worker
      /\ posted \in Seq(1..Len(events)) /\ k \in 1..Len(events)
  BY <1>1, RunnerIsThread DEF Basis, OneRunner, Busy, Shape, TasksOK, Runner, Order, Kinds
<1>3. /\ \A u \in Threads : u # t => pc'[u] = pc[u] /\ cur'[u] = cur[u]
      /\ IF t = Worker THEN pc'[t] = "loop" ELSE pc'[t] \in {"idle", "have"}
  <2>1. CASE t = Worker
    BY <2>1, <1>1, <1>2 DEF AfterRun, Goto
  <2>2. CASE t # Worker
    BY <2>2, <1>1, ContinueMoves DEF AfterRun
  <2> QED
    BY <2>1, <2>2
<1>4. pc'[t] \notin Busy
  BY <1>3 DEF Busy
<1>5. events[k].state # "pending"
  BY <1>1, <1>2 DEF Placed
<1>6. ASSUME NEW i, Going(i), i # k PROVE Going(i)'
  BY <1>1, <1>2, <1>6 DEF Going, Queued
<1>7. ASSUME NEW i, Calling(i), "callback" \in Uses PROVE Calling(i)'
  <2> DEFINE ids == 1..Len(events)
  <2>0. posted \in Seq(ids) /\ k \in ids
    BY <1>2
  <2> HIDE DEF ids, k
  <2>1. posted' = Append(posted, k)
    BY <1>1, <1>7 DEF k
  <2>2. /\ Len(posted') = Len(posted) + 1 /\ Len(posted) \in Nat
        /\ posted'[Len(posted) + 1] = k
        /\ \A j \in 1..Len(posted) : posted'[j] = posted[j]
    BY <2>0, <2>1
  <2>3. Len(posted) + 1 \in 1..Len(posted') /\ \A j \in 1..Len(posted) : j \in 1..Len(posted')
    BY <2>2
  <2>4. CASE i = k
    BY <2>2, <2>3, <2>4 DEF Calling
  <2>5. CASE i # k
    BY <2>2, <2>3, <2>5, <1>6, <1>7 DEF Calling
  <2> QED
    BY <2>4, <2>5
<1>8. pc'[t] = "have" => t = Main /\ cur'[t].id = k /\ k = Len(events)
  <2>1. SUFFICES ASSUME pc'[t] = "have" PROVE t = Main /\ cur'[t].id = k /\ k = Len(events)
    OBVIOUS
  <2>2. t # Worker /\ Continue(t)
    BY <1>1, <1>3, <2>1 DEF AfterRun
  <2>3. cur' = [cur EXCEPT ![t] = [NoTask EXCEPT !.id = Len(events')]]
    BY <2>1, <2>2, <1>2 DEF Continue, Goto
  <2>4. cur'[t].id = Len(events)
    BY <2>3, <1>1, <1>2 DEF NoTask
  <2>5. synchronous /\ t = Main /\ k = Len(events)
    BY <2>2, <1>2 DEF Runner, Placed
  <2> QED
    BY <2>4, <2>5
<1>9. Placed'
  <2>1. \A i \in 1..Len(events') : events'[i].state = "pending" => Going(i)'
    BY <1>1, <1>5, <1>6 DEF Placed
  <2>2. pc'[Runner'] # "post" /\ (synchronous' => pc'[Main] \notin Busy)
    BY <1>2, <1>4, <1>1 DEF Busy, Runner
  <2>3. \A u \in Threads : pc'[u] \in Holding => cur'[u].id \in 1..Len(events')
    BY <1>1, <1>2, <1>3, <1>8 DEF Placed, Holding
  <2>4. pc'[Worker] \notin Holding \cup {"idle"}
    BY <1>2, <1>3 DEF Placed, Holding
  <2> QED
    BY <2>1, <2>2, <2>3, <2>4 DEF Placed
<1>10. ASSUME NEW i \in 1..Len(events'), events'[i].state # "lost", Wanted(i)'
       PROVE  Calling(i)'
  <2>0. "callback" \in Uses
    BY <1>1, <1>10 DEF Wanted, ToCome
  <2>1. i = k \/ Wanted(i)
    BY <1>1, <1>2, <1>3, <1>8, <1>10 DEF Wanted, Holding
  <2>2. Calling(i)
    <3>1. CASE i = k
      BY <3>1, <1>2 DEF Calling, Going
    <3>2. CASE Wanted(i)
      BY <3>2, <1>1, <1>10 DEF ToCome
    <3> QED
      BY <2>1, <3>1, <3>2
  <2> QED
    BY <2>0, <2>2, <1>7
<1>11. ToCome'
  BY <1>10, <1>1 DEF ToCome
<1> QED
  BY <1>9, <1>11

\* A new event is put in the queue, or nobody runs it.
LEMMA PutPlaces ==
  ASSUME Basis, Order, Placed, ToCome, ~synchronous,
         NEW run \in BOOLEAN, NEW task \in GoodTask, task.id = Len(events) + 1,
         events' = Append(events, NewEvent(run)),
         queue' = IF run THEN Append(queue, task) ELSE queue,
         UNCHANGED <<synchronous, posted>>,
         pc'[Runner] = pc[Runner], cur'[Runner] = cur[Runner],
         \A u \in Threads : pc'[u] \in Holding =>
             cur'[u].id = Len(events) + 1 \/ (pc[u] \in Holding /\ cur'[u] = cur[u])
  PROVE  Placed' /\ ToCome'
<1> DEFINE n == Len(events)
           new == NewEvent(run)
<1>1. /\ queue \in Seq(GoodTask) /\ events \in Seq(EventSet) /\ n \in Nat
      /\ Runner' = Runner /\ Runner = Worker
  BY DEF Basis, TasksOK, Shape, Runner
<1>2. new.state = (IF run THEN "pending" ELSE "lost") /\ new.waiting = 0
  BY DEF NewEvent
<1>3. events' = Append(events, new)
  OBVIOUS
<1> HIDE DEF new
<1>4. /\ Len(events') = n + 1
      /\ \A e \in 1..n : events'[e] = events[e]
      /\ events'[n + 1] = new
      /\ \A e \in 1..n + 1 : e \in 1..n \/ e = n + 1
  BY <1>1, <1>3
<1>5. /\ Len(queue') >= Len(queue) /\ Len(queue) \in Nat /\ Len(queue') \in Nat
      /\ \A j \in 1..Len(queue) : queue'[j] = queue[j]
      /\ run => Len(queue') = Len(queue) + 1 /\ queue'[Len(queue')] = task
  <2>1. CASE run
    BY <2>1, <1>1
  <2>2. CASE ~run
    BY <2>2, <1>1
  <2> QED
    BY <2>1, <2>2
<1>6. task.id = n + 1
  OBVIOUS
<1> HIDE DEF n
<1>7. ASSUME run, NEW i, i = n + 1 PROVE Going(i)'
  <2>1. Len(queue') \in 1..Len(queue') /\ queue'[Len(queue')].id = i
    BY <1>5, <1>6, <1>7
  <2> QED
    BY <2>1 DEF Going, Queued
<1>8. ASSUME NEW i, Going(i) PROVE Going(i)'
  <2>1. \A j \in 1..Len(queue) : j \in 1..Len(queue')
    BY <1>5
  <2> QED
    BY <2>1, <1>1, <1>5, <1>8 DEF Going, Queued
<1>9. Placed'
  <2>1. \A i \in 1..Len(events') : events'[i].state = "pending" => Going(i)'
    BY <1>2, <1>4, <1>7, <1>8 DEF Placed, n
  <2>2. pc'[Runner'] = "post" => events'[cur'[Runner'].id].state # "pending"
    <3>1. pc[Runner] = "post" => cur[Runner].id \in 1..n
      BY DEF Order, Busy, n
    <3> QED
      BY <3>1, <1>1, <1>4 DEF Placed
  <2>3. \A u \in Threads : pc'[u] \in Holding => cur'[u].id \in 1..Len(events')
    <3>1. n + 1 \in 1..n + 1 /\ 1..n \subseteq 1..n + 1
      BY <1>1 DEF n
    <3> QED
      BY <3>1, <1>4 DEF Placed, n
  <2>4. pc'[Worker] \notin Holding \cup {"idle"} /\ ~synchronous'
    BY <1>1 DEF Placed
  <2> QED
    BY <2>1, <2>2, <2>3, <2>4 DEF Placed
<1>10. ASSUME NEW i \in 1..Len(events'), events'[i].state # "lost", Wanted(i)'
       PROVE  Calling(i)'
  <2>1. CASE i = n + 1
    <3>1. run
      BY <2>1, <1>2, <1>4, <1>10
    <3> QED
      BY <3>1, <2>1, <1>7 DEF Calling
  <2>2. CASE i \in 1..n
    <3>1. i # n + 1 /\ events'[i] = events[i]
      BY <2>2, <1>1, <1>4 DEF n
    <3>2. Wanted(i)
      BY <3>1, <1>6, <1>10, RunnerIsThread DEF Wanted, Holding, n
    <3>3. Calling(i)
      BY <3>1, <3>2, <2>2, <1>10 DEF ToCome, n
    <3> QED
      BY <3>3, <1>8 DEF Calling
  <2> QED
    BY <2>1, <2>2, <1>4
<1>11. \A i \in 1..Len(events') : events'[i].waiting = 1 => "callback" \in Uses
  BY <1>2, <1>4 DEF ToCome, n
<1>12. ToCome'
  BY <1>10, <1>11 DEF ToCome
<1> QED
  BY <1>9, <1>12

\* What a thread that has made a request holds.
LEMMA ContinueHas ==
  ASSUME Basis, NEW t \in Threads, Continue(t), pc'[t] \in Holding
  PROVE  cur'[t].id = Len(events')
<1>1. pc \in [Threads -> Places] /\ cur \in [Threads -> GoodTask]
  BY DEF Basis, Shape, TasksOK
<1>2. cur' = [cur EXCEPT ![t] = [NoTask EXCEPT !.id = Len(events')]]
  BY <1>1 DEF Continue, Goto, Holding
<1> QED
  BY <1>1, <1>2 DEF NoTask

\* So it is with a request.
LEMMA EnqueuePlaces ==
  ASSUME Basis, Basis', Order, Placed, ToCome,
         NEW t \in Users, NEW type \in TypeNames, Enqueue(t, type)
  PROVE  Placed' /\ ToCome'
<1>1. /\ t \in Threads /\ t # Worker /\ ~synchronous /\ Runner # t /\ Runner \in Threads
      /\ Continue(t) /\ UNCHANGED <<synchronous, posted>>
  BY UsersRequest, RunnerIsThread DEF Enqueue, setup, Runner
<1>2. events \in Seq(EventSet) /\ events' \in Seq(EventSet) /\ Len(events) \in Nat
  BY DEF Basis, Shape
<1>3. pc'[Runner] = pc[Runner] /\ cur'[Runner] = cur[Runner]
      /\ \A u \in Threads : u # t => pc'[u] = pc[u] /\ cur'[u] = cur[u]
  BY <1>1, ContinueMoves
<1> DEFINE run == active /\ open = "open"
<1>4. PICK d \in Payloads(type) :
         /\ events' = Append(events, NewEvent(run))
         /\ queue' = IF run THEN Append(queue, Task(type, d)) ELSE queue
  BY DEF Enqueue
<1> DEFINE task == Task(type, d)
<1>5. task \in GoodTask /\ task.id = Len(events) + 1 /\ run \in BOOLEAN
  BY <1>1, <1>2, RequestIsGood DEF Task
<1>6. queue' = IF run THEN Append(queue, task) ELSE queue
  BY <1>4
<1>7. Len(events') = Len(events) + 1
  <2> DEFINE new == NewEvent(run)
  <2>1. events' = Append(events, new)
    BY <1>4
  <2> HIDE DEF new
  <2> QED
    BY <2>1, <1>2
<1>8. \A u \in Threads : pc'[u] \in Holding =>
             cur'[u].id = Len(events) + 1 \/ (pc[u] \in Holding /\ cur'[u] = cur[u])
  BY <1>1, <1>3, <1>7, ContinueHas
<1> HIDE DEF task, run
<1> QED
  BY <1>1, <1>3, <1>4, <1>5, <1>6, <1>8, PutPlaces

\* In synchronous mode no event is on its way when the main thread makes a request.
LEMMA RunInlinePlaces ==
  ASSUME Basis, Basis', Order, Placed, ToCome,
         NEW t \in Users, NEW type \in TypeNames, RunInline(t, type)
  PROVE  Placed' /\ ToCome'
<1> DEFINE n == Len(events)
<1>1. /\ synchronous /\ t = Main /\ Runner = Main /\ Runner' = Main /\ pc[Main] = "idle"
      /\ UNCHANGED <<queue, synchronous, posted>> /\ queue = <<>>
      /\ Main \in Threads /\ Worker \in Threads /\ Main # Worker
  BY UsersRequest, RunnerIsThread DEF RunInline, setup, Runner, Order
<1>2. /\ events \in Seq(EventSet) /\ n \in Nat /\ active \in BOOLEAN
      /\ pc \in [Threads -> Places] /\ cur \in [Threads -> GoodTask]
  BY DEF Basis, Shape, TasksOK
<1> DEFINE new == NewEvent(active)
<1>3. new.state = (IF active THEN "pending" ELSE "lost") /\ new.waiting = 0
  BY DEF NewEvent
<1>4. events' = Append(events, new)
  BY DEF RunInline
<1> HIDE DEF new
<1>5. /\ Len(events') = n + 1
      /\ \A e \in 1..n : events'[e] = events[e]
      /\ events'[n + 1] = new
      /\ \A e \in 1..n + 1 : e \in 1..n \/ e = n + 1
  BY <1>2, <1>4
<1>6. /\ \A u \in Threads : u # Main => pc'[u] = pc[u] /\ cur'[u] = cur[u]
      /\ IF active THEN pc'[Main] = "exec" ELSE pc'[Main] \in {"idle", "have"}
      /\ pc'[Main] # "idle" => cur'[Main].id = n + 1
  <2>1. CASE active
    <3>1. PICK d \in Payloads(type) : cur' = [cur EXCEPT ![Main] = Task(type, d)]
      BY <1>1, <2>1 DEF RunInline
    <3>2. cur'[Main].id = n + 1
      BY <3>1, <1>1, <1>2 DEF Task
    <3>3. pc' = [pc EXCEPT ![Main] = "exec"]
      BY <1>1, <2>1 DEF RunInline, Goto
    <3> QED
      BY <3>1, <3>2, <3>3, <1>1, <1>2, <2>1
  <2>2. CASE ~active
    <3>1. Continue(Main)
      BY <1>1, <2>2 DEF RunInline
    <3>2. /\ \A u \in Threads : u # Main => pc'[u] = pc[u] /\ cur'[u] = cur[u]
          /\ pc'[Main] \in {"idle", "have"}
      BY <3>1, <1>1, ContinueMoves
    <3>3. pc'[Main] \in Holding => cur'[Main].id = Len(events')
      BY <3>1, <1>1, ContinueHas
    <3> QED
      BY <3>2, <3>3, <1>5, <2>2 DEF Holding
  <2> QED
    BY <2>1, <2>2
<1> HIDE DEF n
<1>7. \A i \in 1..n : events[i].state # "pending"
  <2>1. ASSUME NEW i \in 1..n, events[i].state = "pending" PROVE FALSE
    <3>1. Going(i)
      BY <2>1 DEF Placed, n
    <3>2. ~Queued(i)
      BY <1>1 DEF Queued
    <3> QED
      BY <3>1, <3>2, <1>1 DEF Going, Busy
  <2> QED
    BY <2>1
<1>8. ASSUME active, NEW i, i = n + 1 PROVE Going(i)'
  BY <1>1, <1>6, <1>8 DEF Going, Busy
<1>9. Placed'
  <2>1. \A i \in 1..Len(events') : events'[i].state = "pending" => Going(i)'
    BY <1>3, <1>5, <1>7, <1>8
  <2>2. pc'[Runner'] # "post"
    BY <1>1, <1>6
  <2>3. \A u \in Threads : pc'[u] \in Holding => cur'[u].id \in 1..Len(events')
    <3>1. n + 1 \in 1..n + 1 /\ 1..n \subseteq 1..n + 1
      BY <1>2 DEF n
    <3> QED
      BY <3>1, <1>5, <1>6 DEF Placed, n, Holding
  <2>4. pc'[Worker] \notin Holding \cup {"idle"} /\ (pc'[Main] \in Busy => cur'[Main].id = Len(events'))
    BY <1>1, <1>5, <1>6 DEF Placed, Busy
  <2> QED
    BY <2>1, <2>2, <2>3, <2>4 DEF Placed
<1>10. ASSUME NEW i \in 1..Len(events'), events'[i].state # "lost", Wanted(i)'
       PROVE  Calling(i)'
  <2>1. CASE i = n + 1
    <3>1. active
      BY <2>1, <1>2, <1>3, <1>5, <1>10
    <3> QED
      BY <3>1, <2>1, <1>8 DEF Calling
  <2>2. CASE i \in 1..n
    <3>1. i # n + 1 /\ events'[i] = events[i]
      BY <2>2, <1>2, <1>5 DEF n
    <3>2. Wanted(i)
      BY <3>1, <1>6, <1>10 DEF Wanted, Holding
    <3>3. Calling(i)
      BY <3>1, <3>2, <2>2, <1>10 DEF ToCome, n
    <3>4. PICK k \in 1..Len(posted) : posted[k] = i
      BY <3>3, <1>1 DEF Calling, Going, Queued, Busy
    <3> QED
      BY <3>4, <1>1 DEF Calling
  <2> QED
    BY <2>1, <2>2, <1>5
<1>11. \A i \in 1..Len(events') : events'[i].waiting = 1 => "callback" \in Uses
  BY <1>3, <1>5 DEF ToCome, n
<1>12. ToCome'
  BY <1>10, <1>11 DEF ToCome
<1> QED
  BY <1>9, <1>12

\* The main thread calls the callbacks of an event: it holds none then.
LEMMA CallbacksPlaces ==
  ASSUME Basis, Order, Kinds, Placed, ToCome, RunCallbacks
  PROVE  Placed' /\ ToCome'
<1> DEFINE k == Head(posted)
           r == [events[k] EXCEPT !.called = @ + events[k].waiting, !.waiting = 0]
<1>1. /\ UNCHANGED <<queue, pc, cur, synchronous>> /\ pc[Main] = "idle"
      /\ posted # <<>> /\ posted' = Tail(posted) /\ events' = [events EXCEPT ![k] = r]
  BY DEF RunCallbacks, control, setup
<1>2. events \in Seq(EventSet) /\ Len(events) \in Nat /\ Runner' = Runner
  BY <1>1 DEF Basis, Shape, Runner
<1>3. k \in 1..Len(events) => r.state = events[k].state /\ r.waiting = 0
  BY <1>2 DEF EventSet
<1>4. /\ Len(posted') = Len(posted) - 1 /\ Len(posted) \in Nat
      /\ \A j \in 2..Len(posted) : j - 1 \in 1..Len(posted') /\ posted'[j - 1] = posted[j]
      /\ \A j \in 1..Len(posted) : j \in 2..Len(posted) \/ posted[j] = k
  <2> DEFINE ids == 1..Len(events)
  <2>1. posted \in Seq(ids)
    BY DEF Kinds
  <2> HIDE DEF ids
  <2> QED
    BY <2>1, <1>1
<1> HIDE DEF k, r
<1>5. /\ Len(events') = Len(events)
      /\ \A e \in 1..Len(events) : /\ events'[e].state = events[e].state
                                   /\ events'[e].waiting = IF e = k THEN 0 ELSE events[e].waiting
  BY <1>1, <1>2, <1>3
<1>6. ASSUME NEW i, Going(i) PROVE Going(i)'
  BY <1>1, <1>2, <1>6 DEF Going, Queued
<1>7. ASSUME NEW i, Calling(i), i # k PROVE Calling(i)'
  BY <1>4, <1>6, <1>7 DEF Calling
<1>8. Placed'
  <2>1. \A i \in 1..Len(events') : events'[i].state = "pending" => Going(i)'
    BY <1>5, <1>6 DEF Placed
  <2>2. pc'[Runner'] = "post" => events'[cur'[Runner'].id].state # "pending"
    <3>1. pc[Runner] = "post" => cur[Runner].id \in 1..Len(events)
      BY DEF Order, Busy
    <3> QED
      BY <3>1, <1>1, <1>2, <1>5 DEF Placed
  <2>3. \A u \in Threads : pc'[u] \in Holding => cur'[u].id \in 1..Len(events')
    BY <1>1, <1>5 DEF Placed
  <2>4. /\ pc'[Worker] \notin Holding \cup {"idle"}
        /\ synchronous' /\ pc'[Main] \in Busy => cur'[Main].id = Len(events')
    BY <1>1, <1>5 DEF Placed
  <2> QED
    BY <2>1, <2>2, <2>3, <2>4 DEF Placed
<1>9. ASSUME NEW i \in 1..Len(events'), events'[i].state # "lost", Wanted(i)'
      PROVE  Calling(i)'
  <2>1. Wanted(i) /\ i # k
    BY <1>1, <1>5, <1>9 DEF Wanted, Holding
  <2>2. Calling(i)
    BY <2>1, <1>5, <1>9 DEF ToCome
  <2> QED
    BY <2>1, <2>2, <1>7
<1>10. \A i \in 1..Len(events') : events'[i].waiting = 1 => "callback" \in Uses
  BY <1>5 DEF ToCome
<1>11. ToCome'
  BY <1>9, <1>10 DEF ToCome
<1> QED
  BY <1>8, <1>11

\* The worker takes an event from the queue: it is still on its way.
LEMMA WorkerGetPlaces ==
  ASSUME Basis, Order, Placed, ToCome, WorkerGet
  PROVE  Placed' /\ ToCome'
<1>1. /\ UNCHANGED <<events, posted, synchronous>>
      /\ Runner = Worker /\ Runner' = Worker /\ Worker \in Threads /\ Main \in Threads /\ Main # Worker
      /\ ~synchronous /\ pc[Worker] = "get" /\ pc[Worker] \notin Busy
  BY RunnerIsThread DEF WorkerGet, control, setup, Basis, OneRunner, Runner, Busy
<1>2. /\ queue \in Seq(GoodTask) /\ pc \in [Threads -> Places] /\ cur \in [Threads -> GoodTask]
      /\ Len(queue) \in Nat
  BY DEF Basis, TasksOK, Shape
<1>3. CASE UNCHANGED <<queue, cur>> /\ Goto(Worker, "loop")
  <2>1. pc'[Worker] = "loop" /\ \A u \in Threads : u # Worker => pc'[u] = pc[u]
    BY <1>1, <1>2, <1>3 DEF Goto
  <2>2. pc'[Runner] # "post" /\ pc'[Worker] \notin Holding \cup {"idle"}
    BY <1>1, <2>1 DEF Holding
  <2>3. \A u \in Threads : pc'[u] \in Holding => pc[u] \in Holding /\ cur'[u] = cur[u]
    BY <1>3, <2>1 DEF Holding
  <2> QED
    BY <2>2, <2>3, <1>1, <1>3, SamePlaces
<1>4. CASE queue # <<>> /\ queue' = Tail(queue) /\ cur' = [cur EXCEPT ![Worker] = Head(queue)]
           /\ Goto(Worker, "exec")
  <2>1. /\ cur'[Worker] = queue[1] /\ pc'[Worker] = "exec"
        /\ \A u \in Threads : u # Worker => cur'[u] = cur[u] /\ pc'[u] = pc[u]
    BY <1>1, <1>2, <1>4 DEF Goto
  <2>2. /\ \A j \in 2..Len(queue) : j - 1 \in 1..Len(queue') /\ queue'[j - 1] = queue[j]
        /\ \A j \in 1..Len(queue) : j \in 2..Len(queue) \/ j = 1
    BY <1>2, <1>4
  <2>3. ASSUME NEW i, Going(i) PROVE Going(i)'
    <3>1. PICK j \in 1..Len(queue) : queue[j].id = i
      BY <2>3, <1>1 DEF Going, Queued
    <3>2. CASE j = 1
      BY <3>1, <3>2, <2>1, <1>1 DEF Going, Busy
    <3>3. CASE j \in 2..Len(queue)
      BY <3>1, <3>3, <2>2 DEF Going, Queued
    <3> QED
      BY <3>2, <3>3, <2>2
  <2>4. Placed'
    <3>1. \A u \in Threads : pc'[u] \in Holding => cur'[u].id \in 1..Len(events')
      BY <2>1, <1>1 DEF Placed, Holding
    <3> QED
      BY <3>1, <2>1, <2>3, <1>1 DEF Placed, Holding
  <2>5. ToCome'
    <3>1. \A i : Wanted(i)' => Wanted(i)
      BY <1>1, <2>1 DEF Wanted, Holding
    <3>2. \A i : Calling(i) => Calling(i)'
      BY <2>3, <1>1 DEF Calling
    <3> QED
      BY <3>1, <3>2, <1>1 DEF ToCome
  <2> QED
    BY <2>4, <2>5
<1> QED
  BY <1>3, <1>4 DEF WorkerGet

\* A process that starts has no events.
LEMMA RestartPlaces == ASSUME Restart PROVE Placed' /\ ToCome'
<1>1. events' = <<>> /\ pc' = Quiet /\ \A e \in 1..Len(events') : FALSE
  BY DEF Restart
<1>2. /\ pc'[Worker] = "off" /\ \A t \in Threads : pc'[t] \in {"off", "idle"}
      /\ Main \in Threads /\ Runner' \in Threads
  BY <1>1, RunnerIsThread DEF Quiet, Runner
<1>3. pc'[Runner'] # "post"
  BY <1>2
<1> QED
  BY <1>1, <1>2, <1>3 DEF Placed, ToCome, Holding, Busy

\* It is so at first.
LEMMA PlacesBegin == ASSUME Init PROVE Placed /\ ToCome
<1>1. events = <<>> /\ pc = Quiet /\ \A e \in 1..Len(events) : FALSE
  BY DEF Init
<1>2. pc[Worker] = "off" /\ \A t \in Threads : pc[t] \in {"off", "idle"}
  BY <1>1, RunnerIsThread DEF Quiet
<1>3. pc[Runner] # "post" /\ pc[Main] \in {"off", "idle"}
  BY <1>2, RunnerIsThread
<1> QED
  BY <1>1, <1>2, <1>3 DEF Placed, ToCome, Holding, Busy

\* Placed and ToCome hold of every reachable state.
THEOREM PlacesHold == Spec => [](Placed /\ ToCome)
<1>1. Init => Placed /\ ToCome
  BY PlacesBegin
<1>2. ASSUME IInv, IInv', Order, Kinds, Placed, ToCome, [Next]_vars PROVE Placed' /\ ToCome'
  <2>0. Basis /\ Basis'
    BY <1>2 DEF IInv
  <2>1. ASSUME NEW t \in Threads, RunStep(t) PROVE Placed' /\ ToCome'
    BY <1>2, <2>0, <2>1, OperationPlaces, NotifyPlaces, PostPlaces DEF RunStep
  <2>2. ASSUME NEW t \in Users, NEW type \in Requests(t), Request(t, type) PROVE Placed' /\ ToCome'
    BY <1>2, <2>0, <2>2, UsersRequest, EnqueuePlaces, RunInlinePlaces DEF Request
  <2>3. ASSUME NEW t \in Users, OnFinished(t) PROVE Placed' /\ ToCome'
    BY <1>2, <2>0, <2>3, OnFinishedPlaces
  <2>4. CASE \/ \E t \in Users : WaitForFinished(t) \/ Release(t)
             \/ Activate \/ Deactivate \/ Join \/ WorkerLoop
    BY <1>2, <2>0, <2>4, IdlePlaces
  <2>5. CASE RunCallbacks \/ WorkerGet \/ Restart
    BY <1>2, <2>0, <2>5, CallbacksPlaces, WorkerGetPlaces, RestartPlaces
  <2>6. CASE UNCHANGED vars
    <3>1. UNCHANGED <<queue, events, posted, pc, cur, synchronous>>
      BY <2>6 DEF vars, control, setup
    <3>2. pc'[Worker] \notin Holding \cup {"idle"}
      BY <1>2, <3>1 DEF Placed
    <3> QED
      BY <1>2, <3>1, <3>2, SamePlaces
  <2> QED
    BY <1>2, <2>1, <2>2, <2>3, <2>4, <2>5, <2>6 DEF Next
<1> QED
  BY <1>1, <1>2, InvariantHolds, OrderHolds, PTL DEF Spec

\* What the store accepted and has not run is in the queue or being run.
THEOREM NothingForgotten == Spec => []NoneForgotten
<1>1. Placed => NoneForgotten
  BY RunnerIsThread DEF Placed, Going, Queued, NoneForgotten, OnItsWay
<1> QED
  BY <1>1, PlacesHold, PTL

\* As long as the main thread can add a callback to an event that is run, the
\* callbacks of the event are still to be called.
THEOREM CallbacksInTime == Spec => []CallbackToCome
<1>1. ToCome => CallbackToCome
  BY RunnerIsThread DEF ToCome, Calling, Going, Queued, CallbackToCome, ToBeCalled, OnItsWay
<1> QED
  BY <1>1, PlacesHold, PTL

-----------------------------------------------------------------------------
(* The worker and what activate(false) waits for.                            *)

Told == \E k \in 1..Len(queue) : queue[k].type = "complete"
Ending == pc[Worker] \in Middle /\ cur[Worker].type = "complete"

\* The worker stays until the store is completed, and it will be as soon as
\* activate(false) waits for it.
Attended ==
    /\ open = "done" <=> completed
    /\ active => open # "new" /\ pc[Worker] # "off"
    /\ closing # "no" => active
    /\ active /\ ~completed /\ ~synchronous => pc[Worker] # "exited"
    /\ completed => pc[Worker] \notin Middle
    /\ Ending => pc[Worker] = "exec"
    /\ closing = "join" /\ ~synchronous /\ ~completed => Told \/ Ending

\* If only the main thread uses the store, complete is its last request.
Finishing ==
    /\ \A k \in 1..Len(queue) : queue[k].type = "complete" => k = Len(queue) /\ closing = "join"
    /\ Ending => queue = <<>> /\ closing = "join"
    /\ completed \/ ~active => queue = <<>>

\* A step that neither requests nor takes, nor carries out complete.
LEMMA StillAttended ==
  ASSUME Attended, UNCHANGED <<queue, open, completed, active, closing, synchronous>>,
         Ending' <=> Ending,
         Ending' => pc'[Worker] = "exec",
         pc'[Worker] \in Middle => pc[Worker] \in Middle,
         pc'[Worker] = "off" => pc[Worker] = "off",
         pc'[Worker] = "exited" => pc[Worker] = "exited" \/ completed \/ synchronous
  PROVE  Attended' /\ (Finishing => Finishing')
<1>1. Attended'
  BY DEF Attended, Told
<1>2. Finishing => Finishing'
  BY DEF Finishing
<1> QED
  BY <1>1, <1>2

\* In synchronous mode the worker takes nothing, and what the main thread does
\* leaves it alone.
LEMMA InlineAttended ==
  ASSUME Basis, Order, Attended, synchronous,
         UNCHANGED <<queue, open, completed, active, synchronous>>,
         closing' # "no" => active, pc'[Worker] = pc[Worker]
  PROVE  Attended' /\ (Finishing => Finishing')
<1>1. queue = <<>> /\ Len(queue) = 0 /\ pc[Worker] \notin Middle
  BY RunnerIsThread DEF Order, Basis, OneRunner, Runner, Middle, Busy
<1>2. ~Ending'
  BY <1>1 DEF Ending
<1>3. Attended'
  BY <1>1, <1>2 DEF Attended
<1>4. Finishing'
  BY <1>1, <1>2 DEF Finishing
<1> QED
  BY <1>3, <1>4

\* Carrying out a request.
LEMMA OperationAttended ==
  ASSUME Basis, Order, Attended, NEW t \in Threads,
         Look(t) \/ Set(t) \/ Clear(t) \/ Load(t) \/ Generate(t) \/ SaveOpen(t) \/ SaveWrite(t) \/ Complete(t)
  PROVE  Attended' /\ (Finishing => Finishing')
<1>1. pc[t] \in Middle /\ UNCHANGED <<queue, cur, active, closing, synchronous>>
  BY OperationAt
     DEF Look, Set, Clear, Load, Generate, SaveOpen, SaveWrite, Complete, Middle, control, setup
<1>2. PICK l \in {"notify", "save", "write"} : Goto(t, l)
  BY DEF Look, Set, Clear, Load, Generate, SaveOpen, SaveWrite, Complete, Done
<1>3. t = Runner /\ active /\ pc \in [Threads -> Places]
  BY <1>1 DEF Basis, OneRunner, Shape, Middle, Busy
<1>4. pc'[t] = l /\ \A u \in Threads : u # t => pc'[u] = pc[u]
  BY <1>2, <1>3 DEF Goto
<1>5. CASE ~Complete(t)
  <2>1. UNCHANGED <<open, completed>>
    BY <1>5 DEF Look, Set, Clear, Load, Generate, SaveOpen, SaveWrite, control
  <2>2. t = Worker => ~Ending /\ pc[Worker] \in Middle
    <3>1. SUFFICES ASSUME t = Worker, Ending PROVE FALSE
      BY <1>1
    <3>2. pc[t] = "exec" /\ cur[t].type = "complete"
      BY <3>1 DEF Attended, Ending
    <3>3. Operation(t) = "complete"
      BY <3>2 DEF Operation
    <3> QED
      BY <3>2, <3>3, <1>5 DEF Look, Set, Clear, Load, Generate, SaveOpen, SaveWrite
  <2>3. t = Worker => ~Ending'
    BY <2>2, <1>1 DEF Ending
  <2>4. t # Worker => pc'[Worker] = pc[Worker] /\ (Ending' <=> Ending) /\ (Ending => pc[Worker] = "exec")
    BY <1>1, <1>4, RunnerIsThread DEF Ending, Attended
  <2>5. /\ Ending' <=> Ending
        /\ Ending' => pc'[Worker] = "exec"
        /\ pc'[Worker] \in Middle => pc[Worker] \in Middle
        /\ pc'[Worker] = "off" => pc[Worker] = "off"
        /\ pc'[Worker] = "exited" => pc[Worker] = "exited"
    BY <2>2, <2>3, <2>4, <1>4
  <2> QED
    BY <2>1, <2>5, <1>1, StillAttended
<1>6. CASE Complete(t)
  <2>1. /\ completed' = TRUE /\ open' = "done" /\ pc'[t] = "notify" /\ pc[t] = "exec"
        /\ cur[t].type = "complete"
    BY <1>3, <1>6 DEF Complete, Done, Goto, Operation, SyncChoice
  <2>2. pc'[Worker] \notin Middle
    <3>1. CASE t = Worker
      BY <3>1, <2>1 DEF Middle
    <3>2. CASE t # Worker
      BY <3>2, <1>3, <1>4, RunnerIsThread DEF Runner, Basis, OneRunner, Middle, Busy
    <3> QED
      BY <3>1, <3>2
  <2>3. ~Ending'
    BY <2>2 DEF Ending
  <2>4. pc'[Worker] # "off"
    BY <2>1, <1>3, <1>4, RunnerIsThread DEF Attended
  <2>5. Attended'
    BY <2>1, <2>2, <2>3, <2>4, <1>1 DEF Attended
  <2>6. Finishing => queue = <<>>
    <3>1. CASE t = Worker
      BY <3>1, <2>1 DEF Finishing, Ending, Middle
    <3>2. CASE t # Worker
      BY <3>2, <1>3 DEF Runner, Order
    <3> QED
      BY <3>1, <3>2
  <2>7. Finishing => Finishing'
    BY <2>3, <2>6, <1>1 DEF Finishing
  <2> QED
    BY <2>5, <2>7
<1> QED
  BY <1>5, <1>6

\* The runner's event is finished and its callbacks are posted.
LEMMA AfterwardsAttended ==
  ASSUME Basis, Order, Attended, NEW t \in Threads, NotifyFinished(t) \/ Post(t)
  PROVE  Attended' /\ (Finishing => Finishing')
<1>1. /\ pc[t] \in {"notify", "post"}
      /\ UNCHANGED <<queue, active, open, completed, synchronous>>
  BY DEF NotifyFinished, Post, control, setup
<1>2. /\ t = Runner /\ active /\ pc \in [Threads -> Places] /\ pc[t] \notin Middle
      /\ Main # Worker /\ Main \in Threads /\ Worker \in Threads
  BY <1>1, RunnerIsThread DEF Basis, OneRunner, Shape, Middle, Busy
<1>3. CASE t = Worker
  <2>1. UNCHANGED closing /\ (Goto(t, "post") \/ Goto(t, "loop"))
    BY <1>3 DEF NotifyFinished, Post, AfterRun, control
  <2>2. pc'[Worker] \in {"post", "loop"}
    BY <2>1, <1>2, <1>3 DEF Goto
  <2>3. ~Ending /\ ~Ending' /\ pc'[Worker] \notin Middle
    BY <2>2, <1>2, <1>3 DEF Ending, Middle
  <2> QED
    BY <2>1, <2>2, <2>3, <1>1, StillAttended
<1>4. CASE t # Worker
  <2>1. synchronous /\ t = Main
    BY <1>2, <1>4 DEF Runner
  <2>2. pc'[Worker] = pc[Worker]
    <3>1. CASE NotifyFinished(t)
      BY <3>1, <1>2, <1>4 DEF NotifyFinished, Goto
    <3>2. CASE Post(t)
      BY <3>2, <1>2, <1>4, ContinueMoves DEF Post, AfterRun
    <3> QED
      BY <3>1, <3>2
  <2> QED
    BY <2>1, <2>2, <1>1, <1>2, InlineAttended
<1> QED
  BY <1>3, <1>4

\* A request is put at the end of the queue.
LEMMA EnqueueAttended ==
  ASSUME Basis, Kinds, Attended, NEW t \in Users, NEW type \in Requests(t), Enqueue(t, type)
  PROVE  Attended' /\ (Others = {} /\ Finishing => Finishing')
<1>1. /\ t \in Threads /\ t # Worker /\ Worker \in Threads /\ ~synchronous
      /\ Continue(t) /\ UNCHANGED <<active, open, completed, synchronous>>
      /\ queue \in Seq(GoodTask) /\ Len(queue) \in Nat
  BY UsersRequest, RunnerIsThread DEF Enqueue, setup, Basis, TasksOK
<1>2. pc'[Worker] = pc[Worker] /\ cur'[Worker] = cur[Worker]
  BY <1>1, ContinueMoves
<1>3. (Ending' <=> Ending) /\ (Ending => pc'[Worker] = "exec")
  BY <1>2 DEF Ending, Attended
<1>4. closing' = CASE t = Main /\ closing = "synchronize" -> "complete"
                   [] t = Main /\ closing = "complete" -> "join"
                   [] OTHER -> closing
  BY <1>1 DEF Continue, Requests, Basis, Shape
<1>5. PICK d \in Payloads(type) :
         queue' = IF active /\ open = "open" THEN Append(queue, Task(type, d)) ELSE queue
  BY DEF Enqueue
<1>6. /\ Len(queue') \in Nat /\ \A k \in 1..Len(queue) : k \in 1..Len(queue') /\ queue'[k] = queue[k]
      /\ IF active /\ open = "open"
         THEN /\ Len(queue') = Len(queue) + 1 /\ queue'[Len(queue')].type = type
              /\ \A k \in 1..Len(queue') : k \in 1..Len(queue) \/ k = Len(queue')
         ELSE queue' = queue
  <2> DEFINE task == Task(type, d)
  <2>1. task.type = type
    BY DEF Task
  <2> HIDE DEF task
  <2>2. queue' = IF active /\ open = "open" THEN Append(queue, task) ELSE queue
    BY <1>5 DEF task
  <2>3. CASE active /\ open = "open"
    BY <2>1, <2>2, <2>3, <1>1
  <2>4. CASE ~(active /\ open = "open")
    BY <2>2, <2>4, <1>1
  <2> QED
    BY <2>3, <2>4
<1>7. ASSUME closing' = "join", ~completed PROVE Told' \/ Ending'
  <2>1. CASE closing = "join"
    <3>1. Told \/ Ending
      BY <2>1, <1>1, <1>7 DEF Attended
    <3>2. Told => Told'
      BY <1>6 DEF Told
    <3> QED
      BY <3>1, <3>2, <1>3
  <2>2. CASE closing # "join"
    <3>1. t = Main /\ closing = "complete"
      BY <2>2, <1>4, <1>7
    <3>2. type = "complete"
      BY <3>1 DEF Requests
    <3>3. active /\ open = "open"
      BY <3>1, <1>7 DEF Attended, Kinds
    <3>4. Len(queue') \in 1..Len(queue') /\ queue'[Len(queue')].type = "complete"
      BY <3>2, <3>3, <1>1, <1>6
    <3> QED
      BY <3>4 DEF Told
  <2> QED
    BY <2>1, <2>2
<1>8. Attended'
  <2>1. closing' # "no" => active
    BY <1>4 DEF Attended
  <2> QED
    BY <2>1, <1>1, <1>2, <1>3, <1>7 DEF Attended
<1>9. ASSUME Others = {}, Finishing PROVE Finishing'
  <2>1. t = Main /\ closing # "join"
    BY <1>9 DEF Users, Clients, Requests
  <2>2. ~Ending /\ \A k \in 1..Len(queue) : queue[k].type # "complete"
    BY <2>1, <1>9 DEF Finishing
  <2>3. type = "complete" => closing' = "join"
    BY <2>1, <1>4, RequestAssumption DEF Requests
  <2>4. \A k \in 1..Len(queue') : queue'[k].type = "complete" => k = Len(queue') /\ closing' = "join"
    BY <2>2, <2>3, <1>6
  <2>5. completed \/ ~active => queue' = <<>>
    BY <1>9, <1>6 DEF Finishing, Attended
  <2> QED
    BY <2>2, <2>4, <2>5, <1>1, <1>3 DEF Finishing
<1> QED
  BY <1>8, <1>9

\* In synchronous mode the caller goes on with it.
LEMMA RunInlineAttended ==
  ASSUME Basis, Order, Attended, NEW t \in Users, NEW type \in Requests(t), RunInline(t, type)
  PROVE  Attended' /\ (Finishing => Finishing')
<1>1. /\ t \in Threads /\ t # Worker /\ Worker \in Threads /\ synchronous
      /\ UNCHANGED <<queue, active, open, completed, synchronous>>
  BY UsersRequest, RunnerIsThread DEF RunInline, setup
<1>2. CASE active
  BY <1>1, <1>2, InlineAttended DEF RunInline, Goto, Basis, Shape
<1>3. CASE ~active
  <2>1. Continue(t) /\ closing = "no"
    BY <1>3 DEF RunInline, Attended
  <2>2. pc'[Worker] = pc[Worker] /\ closing' = "no"
    BY <2>1, <1>1, ContinueMoves DEF Continue
  <2> QED
    BY <2>2, <1>1, InlineAttended
<1> QED
  BY <1>2, <1>3

\* activate().
LEMMA ActivateAttended ==
  ASSUME Basis, Order, Attended, Activate \/ Deactivate \/ Join
  PROVE  Attended' /\ (Finishing => Finishing')
<1>1. UNCHANGED <<queue, cur, completed, synchronous>> /\ pc \in [Threads -> Places] /\ Worker \in Threads
  BY RunnerIsThread DEF Activate, Deactivate, Join, setup, Basis, Shape
<1>2. CASE Activate
  <2>1. /\ active' /\ ~active /\ closing = "no" /\ closing' = "no" /\ pc'[Worker] = "loop"
        /\ open' = IF open = "new" THEN "open" ELSE open
    BY <1>1, <1>2 DEF Activate, Goto
  <2>2. ~Ending'
    BY <2>1 DEF Ending, Middle
  <2>3. Attended'
    BY <2>1, <2>2, <1>1 DEF Attended, Middle
  <2>4. Finishing => Finishing'
    BY <2>1, <2>2, <1>1 DEF Finishing
  <2> QED
    BY <2>3, <2>4
<1>3. CASE Deactivate
  <2>1. /\ UNCHANGED <<active, open, pc>> /\ active /\ closing = "no" /\ closing' = "synchronize"
    BY <1>3 DEF Deactivate
  <2>2. Ending' <=> Ending
    BY <2>1, <1>1 DEF Ending
  <2>3. Attended'
    BY <2>1, <2>2, <1>1 DEF Attended
  <2>4. Finishing => Finishing'
    BY <2>1, <2>2, <1>1 DEF Finishing
  <2> QED
    BY <2>3, <2>4
<1>4. CASE Join
  <2>1. /\ UNCHANGED <<open, pc>> /\ closing = "join" /\ ~active' /\ closing' = "no" /\ pc[Worker] = "exited"
    BY <1>4 DEF Join
  <2>2. ~Ending'
    BY <2>1 DEF Ending, Middle
  <2>3. Attended'
    BY <2>1, <2>2, <1>1 DEF Attended, Middle
  <2>4. completed \/ synchronous
    BY <2>1 DEF Attended
  <2>5. Finishing => queue = <<>>
    BY <2>4 DEF Finishing, Order
  <2>6. Finishing => Finishing'
    BY <2>1, <2>2, <2>5, <1>1 DEF Finishing
  <2> QED
    BY <2>3, <2>6
<1> QED
  BY <1>2, <1>3, <1>4

\* The worker takes the oldest request.
LEMMA WorkerGetAttended ==
  ASSUME Basis, Attended, WorkerGet
  PROVE  Attended' /\ (Finishing => Finishing')
<1>1. /\ UNCHANGED <<active, closing, open, completed, synchronous>>
      /\ pc[Worker] = "get" /\ Worker \in Threads /\ ~Ending
      /\ pc \in [Threads -> Places] /\ cur \in [Threads -> GoodTask]
      /\ queue \in Seq(GoodTask) /\ Len(queue) \in Nat
  BY RunnerIsThread DEF WorkerGet, control, setup, Basis, Shape, TasksOK, Ending, Middle
<1>2. CASE UNCHANGED <<queue, cur>> /\ Goto(Worker, "loop")
  <2>1. pc'[Worker] = "loop"
    BY <1>1, <1>2 DEF Goto
  <2>2. ~Ending'
    BY <2>1 DEF Ending, Middle
  <2> QED
    BY <2>1, <2>2, <1>1, <1>2, StillAttended DEF Middle
<1>3. CASE open # "done" /\ queue # <<>> /\ queue' = Tail(queue)
           /\ cur' = [cur EXCEPT ![Worker] = Head(queue)] /\ Goto(Worker, "exec")
  <2>1. cur'[Worker] = queue[1] /\ pc'[Worker] = "exec" /\ 1 \in 1..Len(queue)
    BY <1>1, <1>3 DEF Goto
  <2>2. /\ Len(queue') = Len(queue) - 1 /\ Len(queue') \in Nat
        /\ \A k \in 1..Len(queue') : k + 1 \in 1..Len(queue) /\ queue'[k] = queue[k + 1]
        /\ \A k \in 1..Len(queue) : k = 1 \/ (k - 1 \in 1..Len(queue') /\ queue'[k - 1] = queue[k])
        /\ Len(queue) = 1 => queue' = <<>>
    BY <1>1, <1>3
  <2>3. Ending' <=> queue[1].type = "complete"
    BY <2>1 DEF Ending, Middle
  <2>4. Told => Told' \/ Ending'
    BY <2>2, <2>3 DEF Told
  <2>5. Attended'
    BY <2>1, <2>4, <1>1, <1>3 DEF Attended
  <2>6. ASSUME Finishing PROVE Finishing'
    <3>1. \A k \in 1..Len(queue') : queue'[k].type = "complete" => k = Len(queue') /\ closing' = "join"
      <4>1. ASSUME NEW k \in 1..Len(queue'), queue'[k].type = "complete"
            PROVE  k = Len(queue') /\ closing = "join"
        <5>1. k + 1 \in 1..Len(queue) /\ queue[k + 1].type = "complete"
          BY <2>2, <4>1
        <5>2. k + 1 = Len(queue) /\ closing = "join"
          BY <5>1, <2>6 DEF Finishing
        <5> QED
          BY <5>2, <2>2, <1>1
      <4> QED
        BY <4>1, <1>1
    <3>2. Ending' => queue' = <<>> /\ closing' = "join"
      BY <2>1, <2>2, <2>3, <2>6, <1>1 DEF Finishing
    <3>3. ~completed /\ active
      BY <2>6, <1>3 DEF Finishing, Attended
    <3> QED
      BY <3>1, <3>2, <3>3, <1>1 DEF Finishing
  <2> QED
    BY <2>5, <2>6
<1> QED
  BY <1>2, <1>3 DEF WorkerGet

\* A thread that waits, registers a callback or is done, and the worker's loop.
LEMMA IdleAttended ==
  ASSUME Basis, Attended,
         \/ \E t \in Users : OnFinished(t) \/ WaitForFinished(t) \/ Release(t)
         \/ RunCallbacks \/ WorkerLoop
  PROVE  Attended' /\ (Finishing => Finishing')
<1>1. UNCHANGED <<queue, active, closing, open, completed, synchronous>>
  BY DEF OnFinished, WaitForFinished, Release, RunCallbacks, WorkerLoop, control, setup
<1>2. pc \in [Threads -> Places] /\ cur \in [Threads -> GoodTask] /\ Worker \in Threads
  BY RunnerIsThread DEF Basis, Shape, TasksOK
<1>3. CASE WorkerLoop
  <2>1. /\ pc[Worker] = "loop" /\ pc'[Worker] \in {"exited", "get"}
        /\ pc'[Worker] = "exited" => completed \/ synchronous
    BY <1>2, <1>3 DEF WorkerLoop, Goto
  <2>2. ~Ending /\ ~Ending' /\ pc'[Worker] \notin Middle
    BY <2>1 DEF Ending, Middle
  <2> QED
    BY <2>1, <2>2, <1>1, StillAttended
<1>4. CASE RunCallbacks \/ \E t \in Users : OnFinished(t) \/ WaitForFinished(t) \/ Release(t)
  <2>1. pc'[Worker] = pc[Worker] /\ cur'[Worker] = cur[Worker]
    <3>1. CASE RunCallbacks
      BY <3>1 DEF RunCallbacks
    <3>2. ASSUME NEW t \in Users, OnFinished(t) \/ WaitForFinished(t) \/ Release(t)
          PROVE  pc'[Worker] = pc[Worker] /\ cur'[Worker] = cur[Worker]
      <4>1. t # Worker
        BY UsersRequest
      <4> QED
        BY <3>2, <4>1, <1>2 DEF OnFinished, WaitForFinished, Release, Goto
    <3> QED
      BY <1>4, <3>1, <3>2
  <2>2. (Ending' <=> Ending) /\ (Ending => pc'[Worker] = "exec")
    BY <2>1 DEF Ending, Attended
  <2> QED
    BY <2>1, <2>2, <1>1, StillAttended
<1> QED
  BY <1>3, <1>4

\* Nothing is asked of a process that starts.
LEMMA RestartAttended == ASSUME Restart PROVE Attended' /\ Finishing'
<1>1. /\ queue' = <<>> /\ open' = "new" /\ ~completed' /\ ~active' /\ closing' = "no" /\ pc' = Quiet
      /\ Len(queue') = 0
  BY DEF Restart
<1>2. pc'[Worker] = "off"
  BY <1>1, RunnerIsThread DEF Quiet
<1>3. ~Ending'
  BY <1>2 DEF Ending, Middle
<1> QED
  BY <1>1, <1>2, <1>3 DEF Attended, Finishing

\* It is so at first.
LEMMA AttendedBegins == ASSUME Init PROVE Attended /\ Finishing
<1>1. queue = <<>> /\ open = "new" /\ ~completed /\ ~active /\ closing = "no" /\ pc = Quiet /\ Len(queue) = 0
  BY DEF Init
<1>2. pc[Worker] = "off"
  BY <1>1, RunnerIsThread DEF Quiet
<1>3. ~Ending
  BY <1>2 DEF Ending, Middle
<1> QED
  BY <1>1, <1>2, <1>3 DEF Attended, Finishing

\* Attended holds of every reachable state, Finishing if the main thread is the
\* only one that uses the store.
THEOREM AttendedHolds == Spec => [](Attended /\ (Others = {} => Finishing))
<1> DEFINE AInv == Attended /\ (Others = {} => Finishing)
<1>1. Init => AInv
  BY AttendedBegins
<1>2. ASSUME IInv, Order, Kinds, AInv, [Next]_vars PROVE AInv'
  <2>0. Basis
    BY <1>2 DEF IInv
  <2>1. ASSUME NEW t \in Threads, RunStep(t) PROVE AInv'
    BY <1>2, <2>0, <2>1, OperationAttended, AfterwardsAttended DEF RunStep
  <2>2. ASSUME NEW t \in Users, NEW type \in Requests(t), Request(t, type) PROVE AInv'
    BY <1>2, <2>0, <2>2, EnqueueAttended, RunInlineAttended DEF Request
  <2>3. CASE \/ \E t \in Users : OnFinished(t) \/ WaitForFinished(t) \/ Release(t)
             \/ RunCallbacks \/ WorkerLoop
    BY <1>2, <2>0, <2>3, IdleAttended
  <2>4. CASE Activate \/ Deactivate \/ Join
    BY <1>2, <2>0, <2>4, ActivateAttended
  <2>5. CASE WorkerGet \/ Restart
    BY <1>2, <2>0, <2>5, WorkerGetAttended, RestartAttended
  <2>6. CASE UNCHANGED vars
    <3>1. UNCHANGED <<queue, open, completed, active, closing, synchronous, pc, cur>>
      BY <2>6 DEF vars, control, setup
    <3>2. (Ending' <=> Ending) /\ (Ending => pc'[Worker] = "exec")
      BY <1>2, <3>1 DEF Ending, Attended
    <3> QED
      BY <1>2, <3>1, <3>2, StillAttended
  <2> QED
    BY <1>2, <2>1, <2>2, <2>3, <2>4, <2>5, <2>6 DEF Next
<1> QED
  BY <1>1, <1>2, InvariantHolds, OrderHolds, PTL DEF Spec

\* Where the worker of an active store is that is not in synchronous mode.
LEMMA WorkerIsThere ==
  ASSUME Basis, Kinds, Placed, Attended, active, ~synchronous
  PROVE  /\ pc[Worker] \in {"loop", "get", "exited"} \cup Busy
         /\ ~completed => Alive
         /\ completed => open = "done" /\ pc[Worker] \in {"loop", "get", "exited", "notify", "post"}
<1>1. /\ pc[Worker] \in Places \ ({"off", "idle"} \cup Holding)
      /\ ~completed => open = "open"
  BY RunnerIsThread DEF Basis, Shape, Kinds, Placed, Attended
<1>2. pc[Worker] \in {"loop", "get", "exited"} \cup Busy
  BY <1>1 DEF Places, Holding
<1> QED
  BY <1>1, <1>2 DEF Attended, Alive, Middle, Busy

\* What is in the queue has a worker that goes on, unless another thread has made
\* a request after the one that stops it.
THEOREM QueueHasWorker == Spec => []QueueServed
<1>1. ASSUME IInv, Order, Kinds, Placed, Attended, Others = {} => Finishing PROVE QueueServed
  <2>1. SUFFICES ASSUME Others = {}, queue # <<>> PROVE Alive
    BY DEF QueueServed
  <2>2. active /\ ~completed /\ ~synchronous
    BY <1>1, <2>1 DEF Finishing, Order
  <2> QED
    BY <1>1, <2>2, WorkerIsThere DEF IInv
<1> QED
  BY <1>1, InvariantHolds, OrderHolds, PlacesHold, AttendedHolds, PTL

\* When activate(false) is over, everything the only client asked for has been run.
THEOREM NothingLeftBehind == Spec => []NothingLeft
<1>1. ASSUME IInv, Placed, Others = {} => Finishing PROVE NothingLeft
  <2>1. SUFFICES ASSUME Others = {}, ~active, NEW i \in 1..Len(events), events[i].state = "pending"
                 PROVE  FALSE
    BY DEF NothingLeft
  <2>2. queue = <<>> /\ Len(queue) = 0
    BY <1>1, <2>1 DEF Finishing
  <2>3. Going(i)
    BY <1>1, <2>1 DEF Placed
  <2>4. pc[Runner] \in Busy
    BY <2>2, <2>3 DEF Going, Queued
  <2> QED
    BY <1>1, <2>1, <2>4, RunnerIsThread DEF IInv, Basis, OneRunner
<1> QED
  BY <1>1, InvariantHolds, PlacesHold, AttendedHolds, PTL

\* activate(false) waits for a worker that leaves or that has still to be told,
\* however many threads use the store.
THEOREM JoinIsServed == Spec => []JoinServed
<1>1. ASSUME IInv, Kinds, Placed, Attended PROVE JoinServed
  <2>1. SUFFICES ASSUME closing = "join", ~synchronous, pc[Worker] # "exited"
                 PROVE  \/ completed /\ open = "done" /\ pc[Worker] \in {"loop", "get", "notify", "post"}
                        \/ /\ Alive
                           /\ \/ \E k \in 1..Len(queue) : queue[k].type = "complete"
                              \/ pc[Worker] = "exec" /\ cur[Worker].type = "complete"
    BY DEF JoinServed
  <2>2. active
    BY <1>1, <2>1 DEF Attended
  <2>3. CASE completed
    BY <1>1, <2>1, <2>2, <2>3, WorkerIsThere DEF IInv
  <2>4. CASE ~completed
    <3>1. Alive
      BY <1>1, <2>1, <2>2, <2>4, WorkerIsThere DEF IInv
    <3>2. Told \/ Ending
      BY <1>1, <2>1, <2>4 DEF Attended
    <3>3. Ending => pc[Worker] = "exec" /\ cur[Worker].type = "complete"
      BY <1>1 DEF Attended, Ending
    <3> QED
      BY <3>1, <3>2, <3>3 DEF Told
  <2> QED
    BY <2>3, <2>4
<1> QED
  BY <1>1, InvariantHolds, OrderHolds, PlacesHold, AttendedHolds, PTL
=============================================================================
