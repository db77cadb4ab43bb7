--------------------------- MODULE DataBookProofs ---------------------------
(***************************************************************************)
(* What a book keeps, for every set of contents, every failure of its      *)
(* operations that is not excluded, and all bounds: starting a book does   *)
(* not lose what its file holds, and a book that saves its edits has them  *)
(* in the file when it is shut.                                            *)
(*                                                                         *)
(* Of AsyncStoreProofs only Basis holds of a book: an edit changes the     *)
(* content past the store, so the counters no longer tell the truth.       *)
(* Course says how far the book and its store are, Requested what can be   *)
(* in the queue and in work.  Kept (the file, or the save that is writing, *)
(* still has what was found) and Safe (the save of the last edit is asked  *)
(* for, queued before the end of the store, in work, or done) are the      *)
(* properties' own invariants.  The order in which requests run, and the   *)
(* types, are those of the store: Order and Kinds.  Bell adds to the       *)
(* store's ToCome which event the end of activate() waits for.             *)
(***************************************************************************)
EXTENDS DataBook, AsyncStoreProofs

Waiting(type) == \E i \in 1..Len(queue) : queue[i].type = type
Runs(type) == pc[Worker] \in Middle /\ cur[Worker].type = type
Asked(type) == Runs(type) \/ Waiting(type)

\* A save is queued and the worker gets to it before the store is completed.
Saves ==
    \E i \in 1..Len(queue) :
        queue[i].type = "save" /\ \A j \in 1..i : queue[j].type # "complete"

\* Nothing has happened since the process began.
Untouched ==
    /\ asking = "no" /\ closing = "no" /\ ~resave /\ last = Nothing
    /\ queue = <<>> /\ posted = <<>> /\ open = "new" /\ ~completed /\ ~active
    /\ pc[Main] = "idle" /\ pc[Worker] = "off"
    /\ mem = 0 /\ disk = 0 /\ saving = Nothing /\ file = found

Course ==
    /\ ~synchronous
    /\ book \in {"off", "starting", "on", "stopping", "shut"}
    /\ asking \in {"no", "save", "synchronize", "clear"}
    /\ last \in Data \cup {Nothing}
    /\ book = "off" => Untouched
    /\ book \in {"starting", "on", "stopping"} =>
          active /\ open = "open" /\ closing = "no" /\ ~completed /\ ~Asked("complete")
    /\ book = "shut" => asking = "no" /\ (active \/ pc[Worker] = "exited")

\* No book requests anything but these.
Known == {"save", "synchronize", "clear", "complete"}

Requested ==
    /\ \A i \in 1..Len(queue) : queue[i].type \in Known
    /\ pc[Worker] \in Middle => cur[Worker].type \in Known
    /\ pc[Worker] = "exited" => completed
    /\ pc[Worker] \in {"save", "write"} => cur[Worker].type \in {"save", "synchronize"}
    /\ mem # 0 => disk <= mem
    /\ found # Nothing => asking # "clear" /\ ~Asked("clear")

BookInv == Basis /\ Course /\ Requested

\* Until the content of the file is loaded nothing is going to write it, and then
\* only what it holds already.
Unloaded ==
    /\ mem \in {0, disk} /\ saving = Nothing /\ file = found
    /\ ~resave /\ asking # "save" /\ ~Asked("save") /\ pc[Worker] # "save"
Loaded ==
    /\ mem = disk /\ memory = found
    /\ (saving = Nothing /\ (file = found \/ WriteLost)) \/ saving = found
Kept ==
    found \in Content /\ last = Nothing /\ book # "off" => disk # 0 /\ (Unloaded \/ Loaded)

\* The last edit is going to be in the file.
Coming ==
    \/ asking = "save"
    \/ ~completed /\ ~Runs("complete") /\ Saves
    \/ pc[Worker] = "exec" /\ cur[Worker].type = "save"
    \/ saving = last
    \/ saving = Nothing /\ (file = last \/ WriteLost)
Safe == safe => found # Nothing /\ last \in Data /\ mem # 0 /\ memory = last /\ Coming

-----------------------------------------------------------------------------
(* The queue.                                                                *)

\* A request that is put on the queue comes after the others.
LEMMA PutAsks ==
  ASSUME queue \in Seq(GoodTask), NEW task \in GoodTask, queue' = Append(queue, task)
  PROVE  /\ \A type \in TypeNames : Waiting(type)' => Waiting(type) \/ task.type = type
         /\ Saves => Saves'
         /\ task.type = "save" /\ ~Waiting("complete") => Saves'
         /\ \A i \in 1..Len(queue') : queue'[i] = task \/ (i \in 1..Len(queue) /\ queue'[i] = queue[i])
<1>1. /\ Len(queue) \in Nat /\ Len(queue') = Len(queue) + 1
      /\ queue'[Len(queue) + 1] = task
      /\ \A i \in 1..Len(queue) : queue'[i] = queue[i]
  OBVIOUS
<1>2. \A i \in 1..Len(queue') : i = Len(queue) + 1 \/ i \in 1..Len(queue)
  BY <1>1
<1>3. \A type \in TypeNames : Waiting(type)' => Waiting(type) \/ task.type = type
  BY <1>1, <1>2 DEF Waiting
<1>4. ASSUME Saves PROVE Saves'
  <2>1. PICK i \in 1..Len(queue) :
           queue[i].type = "save" /\ \A j \in 1..i : queue[j].type # "complete"
    BY <1>4 DEF Saves
  <2>2. i \in 1..Len(queue') /\ \A j \in 1..i : j \in 1..Len(queue)
    BY <1>1
  <2> QED
    BY <1>1, <2>1, <2>2 DEF Saves
<1>5. ASSUME task.type = "save", ~Waiting("complete") PROVE Saves'
  <2>1. Len(queue) + 1 \in 1..Len(queue')
    BY <1>1
  <2>2. \A j \in 1..Len(queue) + 1 : queue'[j].type # "complete"
    BY <1>1, <1>5 DEF Waiting
  <2> QED
    BY <1>1, <1>5, <2>1, <2>2 DEF Saves
<1> QED
  BY <1>1, <1>2, <1>3, <1>4, <1>5

\* The request that the worker takes was the first.
LEMMA TakeAsks ==
  ASSUME queue \in Seq(GoodTask), queue # <<>>, queue' = Tail(queue)
  PROVE  /\ Head(queue) = queue[1] /\ 1 \in 1..Len(queue)
         /\ \A type \in TypeNames : Waiting(type)' => Waiting(type)
         /\ \A type \in TypeNames : Head(queue).type = type => Waiting(type)
         /\ Saves => Head(queue).type # "complete" /\ (Head(queue).type = "save" \/ Saves')
         /\ \A i \in 1..Len(queue') : i + 1 \in 1..Len(queue) /\ queue'[i] = queue[i + 1]
<1>1. /\ Len(queue) \in Nat /\ Len(queue') = Len(queue) - 1 /\ Len(queue) # 0
      /\ Head(queue) = queue[1]
  BY HeadTailProperties
<1>2. \A i \in 1..Len(queue') : i + 1 \in 1..Len(queue) /\ queue'[i] = queue[i + 1]
  BY <1>1
<1>3. 1 \in 1..Len(queue)
  BY <1>1
<1>4. ASSUME Saves, Head(queue).type # "save" PROVE Saves'
  <2>1. PICK i \in 1..Len(queue) :
           queue[i].type = "save" /\ \A j \in 1..i : queue[j].type # "complete"
    BY <1>4 DEF Saves
  <2>2. i # 1
    BY <1>1, <1>4, <2>1
  <2>3. i - 1 \in 1..Len(queue') /\ (i - 1) + 1 = i
    BY <1>1, <2>2
  <2>4. \A j \in 1..i - 1 : j \in 1..Len(queue') /\ j + 1 \in 1..i
    BY <1>1, <2>3
  <2>5. \A j \in 1..i - 1 : queue'[j].type # "complete"
    BY <1>2, <2>1, <2>4
  <2> QED
    BY <1>2, <2>1, <2>3, <2>5 DEF Saves
<1>5. ASSUME Saves PROVE Head(queue).type # "complete"
  <2>1. PICK i \in 1..Len(queue) :
           queue[i].type = "save" /\ \A j \in 1..i : queue[j].type # "complete"
    BY <1>5 DEF Saves
  <2>2. 1 \in 1..i
    BY <1>1
  <2> QED
    BY <1>1, <2>1, <2>2
<1> QED
  BY <1>1, <1>2, <1>3, <1>4, <1>5 DEF Waiting

-----------------------------------------------------------------------------
(* What the worker does to the content: nothing, or one of these.            *)

Loads ==
    /\ pc[Worker] = "exec" /\ cur[Worker].type = "synchronize" /\ disk > mem
    /\ memory' = Blank \/ (memory' = file /\ file \notin {NoFile, Torn})
    /\ mem' = disk
    /\ pc'[Worker] \notin Middle
    /\ UNCHANGED <<disk, file, saving, open, completed>>
Generates ==
    /\ pc[Worker] = "exec" /\ cur[Worker].type = "synchronize" /\ disk = 0 /\ mem = 0
    /\ mem' \in Nat
    /\ pc'[Worker] # "write"
    /\ UNCHANGED <<disk, file, saving, open, completed>>
Clears ==
    /\ pc[Worker] = "exec" /\ cur[Worker].type = "clear"
    /\ disk' \in {disk, 0} /\ mem' \in {mem, 0}
    /\ pc'[Worker] \notin Middle
    /\ UNCHANGED <<open, completed>>
Opens ==
    /\ \/ pc[Worker] = "save"
       \/ pc[Worker] = "exec" /\ cur[Worker].type = "save"
       \/ pc[Worker] = "exec" /\ cur[Worker].type = "synchronize" /\ disk < mem
    /\ saving' = memory
    /\ pc'[Worker] = "write"
    /\ UNCHANGED <<disk, mem, memory, open, completed>>
Writes ==
    /\ pc[Worker] = "write"
    /\ WriteFile /\ saving' = Nothing /\ disk' = mem
    /\ pc'[Worker] \notin Middle
    /\ UNCHANGED <<mem, memory, open, completed>>
Ends ==
    /\ pc[Worker] = "exec" /\ cur[Worker].type = "complete"
    /\ completed'
    /\ pc'[Worker] \notin Middle
    /\ UNCHANGED <<disk, mem, memory, file, saving, unseen>>
Spares ==
    /\ pc[Worker] # "write"
    /\ \/ {"getFrontend", "saveBackend"} \cap CanFail # {}
       \/ pc[Worker] # "exec" \/ cur[Worker].type # "save"
    /\ pc'[Worker] \notin Middle
    /\ UNCHANGED <<disk, mem, memory, file, saving, unseen, open, completed>>

\* A step of the worker within an event is one of them, and leaves the requests
\* and the main thread alone.
LEMMA WorkerDoes ==
  ASSUME Basis, Course, Requested, RunStep(Worker)
  PROVE  /\ UNCHANGED <<synchronous, active, closing, queue>>
         /\ active /\ pc[Worker] \in Busy /\ pc'[Main] = pc[Main]
         /\ pc'[Worker] \notin {"exited", "get", "off"}
         /\ pc'[Worker] \in Middle => pc[Worker] \in Middle /\ cur' = cur
         /\ pc'[Worker] \in {"save", "write"} => cur[Worker].type \in {"save", "synchronize"}
         /\ Loads \/ Generates \/ Clears \/ Opens \/ Writes \/ Ends \/ Spares
<1>1. pc \in [Threads -> Places] /\ Worker \in Threads /\ Main \in Threads /\ Main # Worker
  BY RunnerIsThread DEF Basis, Shape
<1>2. /\ disk \in Nat /\ mem \in Nat /\ auto \in Nat
      /\ pc[Worker] \in Middle => cur[Worker].type \in Known
      /\ pc[Worker] \in {"save", "write"} => cur[Worker].type \in {"save", "synchronize"}
  BY DEF Basis, Shape, Requested
<1>3. \A l : Goto(Worker, l) => pc'[Worker] = l /\ pc'[Main] = pc[Main]
  BY <1>1 DEF Goto
<1>4. pc[Worker] \in Busy => active
  BY <1>1 DEF Basis, OneRunner
<1>5. CASE Look(Worker)
  <2>1. pc[Worker] = "exec" /\ cur[Worker].type # "save"
    BY <1>2, <1>5 DEF Look, Operation
  <2>2. Goto(Worker, "notify") /\ UNCHANGED <<control, queue, store, cur>>
    BY <1>5 DEF Look, Done
  <2> QED
    BY <1>3, <1>4, <2>1, <2>2
       DEF Busy, Middle, Spares, control, setup, store, versions, content
<1>6. ~Set(Worker)
  BY <1>2 DEF Set, Operation, SyncChoice, Known, Middle
<1>7. CASE Clear(Worker)
  <2>1. pc[Worker] = "exec" /\ cur[Worker].type = "clear"
    BY <1>7 DEF Clear, Operation, SyncChoice
  <2>2. Goto(Worker, "notify") /\ UNCHANGED <<control, queue, cur>>
        /\ disk' \in {disk, 0} /\ mem' \in {mem, 0}
    BY <1>7 DEF Clear, Done
  <2> QED
    BY <1>3, <1>4, <2>1, <2>2 DEF Busy, Middle, Clears, control, setup
<1>8. CASE Load(Worker)
  <2>1. pc[Worker] = "exec" /\ cur[Worker].type = "synchronize" /\ disk > mem
    BY <1>2, <1>8 DEF Load, Operation, SyncChoice, Known, Middle
  <2>2. Goto(Worker, "notify") /\ UNCHANGED <<control, queue, cur, disk, file, saving>>
    BY <1>8 DEF Load, Done
  <2>3. \/ /\ memory' = Blank \/ (memory' = file /\ file \notin {NoFile, Torn})
           /\ mem' = disk
        \/ UNCHANGED <<memory, mem, unseen>>
    BY <1>8, LoadOutcomes, RunnerIsThread DEF LoadOutcome
  <2> QED
    BY <1>3, <1>4, <2>1, <2>2, <2>3 DEF Busy, Middle, Loads, Spares, control, setup
<1>9. CASE Generate(Worker)
  <2>1. pc[Worker] = "exec" /\ cur[Worker].type = "synchronize" /\ disk = 0 /\ mem = 0
        /\ Operation(Worker) = "bootstrap"
    BY <1>2, <1>9 DEF Generate, Operation, SyncChoice, Known, Middle
  <2>2. UNCHANGED <<control, queue, cur, disk, file, saving, unseen>>
    BY <1>9 DEF Generate
  <2>3. CASE mem' = auto + 1 /\ Goto(Worker, "save")
    BY <1>2, <1>3, <1>4, <2>1, <2>2, <2>3 DEF Busy, Middle, Generates, control, setup
  <2>4. CASE UNCHANGED <<memory, mem>> /\ Goto(Worker, "notify")
    BY <1>3, <1>4, <2>1, <2>2, <2>4 DEF Busy, Middle, Spares, control, setup
  <2> QED
    BY <1>9, <2>1, <2>3, <2>4 DEF Generate, Done
<1>10. CASE SaveOpen(Worker)
  <2>1. \/ pc[Worker] = "save"
        \/ pc[Worker] = "exec" /\ cur[Worker].type = "save"
        \/ pc[Worker] = "exec" /\ cur[Worker].type = "synchronize" /\ disk < mem
    BY <1>2, <1>10 DEF SaveOpen, Operation, SyncChoice
  <2>2. UNCHANGED <<control, queue, cur, disk, mem, memory, unseen>>
    BY <1>10 DEF SaveOpen, versions
  <2>3. CASE saving' = memory /\ Goto(Worker, "write")
    BY <1>2, <1>3, <1>4, <2>1, <2>2, <2>3 DEF Busy, Middle, Opens, control, setup
  <2>4. CASE /\ {"getFrontend", "saveBackend"} \cap CanFail # {}
             /\ UNCHANGED <<saving, file>> /\ Goto(Worker, "notify")
    BY <1>3, <1>4, <2>1, <2>2, <2>4 DEF Busy, Middle, Spares, control, setup
  <2> QED
    BY <1>10, <2>3, <2>4 DEF SaveOpen, Done
<1>11. CASE SaveWrite(Worker)
  <2>1. /\ pc[Worker] = "write" /\ WriteFile /\ saving' = Nothing /\ disk' = mem
        /\ Goto(Worker, "notify") /\ UNCHANGED <<control, queue, cur, mem, memory>>
    BY <1>11 DEF SaveWrite, Done
  <2> QED
    BY <1>3, <1>4, <2>1 DEF Busy, Middle, Writes, control, setup
<1>12. CASE Complete(Worker)
  <2>1. pc[Worker] = "exec" /\ cur[Worker].type = "complete"
    BY <1>12 DEF Complete, Operation, SyncChoice
  <2>2. /\ Goto(Worker, "notify") /\ completed'
        /\ UNCHANGED <<active, closing, setup, queue, cur, store>>
    BY <1>12 DEF Complete, Done
  <2> QED
    BY <1>3, <1>4, <2>1, <2>2 DEF Busy, Middle, Ends, setup, store, versions, content
<1>13. CASE NotifyFinished(Worker)
  <2>1. /\ pc[Worker] = "notify" /\ Goto(Worker, "post")
        /\ UNCHANGED <<control, queue, cur, store>>
    BY <1>13 DEF NotifyFinished
  <2> QED
    BY <1>3, <1>4, <2>1 DEF Busy, Middle, Spares, control, setup, store, versions, content
<1>14. CASE Post(Worker)
  <2>1. /\ pc[Worker] = "post" /\ Goto(Worker, "loop")
        /\ UNCHANGED <<active, open, completed, closing, setup, queue, store>>
    BY <1>14 DEF Post, AfterRun
  <2> QED
    BY <1>3, <1>4, <2>1 DEF Busy, Middle, Spares, setup, store, versions, content
<1> QED
  BY <1>5, <1>6, <1>7, <1>8, <1>9, <1>10, <1>11, <1>12, <1>13, <1>14 DEF RunStep

-----------------------------------------------------------------------------
(* The main thread.                                                          *)

\* Each edit is followed by a save, which does not fail.
SavesEdits == Habit = "save" /\ {"getFrontend", "saveBackend"} \cap CanFail = {}

\* Where neither the queue nor the worker moves, the same is asked for.
LEMMA SameWork ==
  ASSUME UNCHANGED queue, pc'[Worker] = pc[Worker], cur'[Worker] = cur[Worker]
  PROVE  /\ \A type \in TypeNames : (Runs(type)' <=> Runs(type)) /\ (Asked(type)' <=> Asked(type))
         /\ Saves' <=> Saves
<1>1. \A type \in TypeNames : Runs(type)' <=> Runs(type)
  BY DEF Runs
<1>2. \A type \in TypeNames : Waiting(type)' <=> Waiting(type)
  BY DEF Waiting
<1>3. Saves' <=> Saves
  BY DEF Saves
<1> QED
  BY <1>1, <1>2, <1>3 DEF Asked

\* What the requests need of Requested, when the same is asked for.
LEMMA SameRequests ==
  ASSUME Requested, UNCHANGED <<queue, completed, mem, disk>>,
         pc'[Worker] = pc[Worker], cur'[Worker] = cur[Worker],
         found' = Nothing \/ (found' = found /\ asking' # "clear")
  PROVE  Requested'
<1>1. Asked("clear")' <=> Asked("clear")
  BY SameWork DEF TypeNames
<1> QED
  BY <1>1 DEF Requested

\* A new request is the only one that is asked for now and was not before.
LEMMA Put ==
  ASSUME Basis, NEW task \in GoodTask, queue' \in {queue, Append(queue, task)},
         pc'[Worker] = pc[Worker], cur'[Worker] = cur[Worker]
  PROVE  /\ \A type \in TypeNames : Runs(type)' <=> Runs(type)
         /\ \A type \in TypeNames : Asked(type)' => Asked(type) \/ task.type = type
         /\ Saves => Saves'
         /\ queue' # queue /\ task.type = "save" /\ ~Asked("complete") => Saves'
         /\ \A i \in 1..Len(queue') : queue'[i] = task \/ (i \in 1..Len(queue) /\ queue'[i] = queue[i])
<1>1. queue \in Seq(GoodTask)
  BY DEF Basis, TasksOK
<1>2. \A type \in TypeNames : Runs(type)' <=> Runs(type)
  BY DEF Runs
<1>3. CASE queue' = queue
  BY <1>3, SameWork
<1>4. CASE queue' = Append(queue, task)
  <2>1. /\ \A type \in TypeNames : Waiting(type)' => Waiting(type) \/ task.type = type
        /\ Saves => Saves'
        /\ task.type = "save" /\ ~Waiting("complete") => Saves'
        /\ \A i \in 1..Len(queue') : queue'[i] = task \/ (i \in 1..Len(queue) /\ queue'[i] = queue[i])
    BY <1>1, <1>4, PutAsks
  <2> QED
    BY <1>2, <2>1 DEF Asked
<1> QED
  BY <1>3, <1>4

\* The requests stay known ones.
LEMMA PutRequests ==
  ASSUME Basis, Requested, NEW task \in GoodTask, queue' \in {queue, Append(queue, task)},
         pc'[Worker] = pc[Worker], cur'[Worker] = cur[Worker],
         UNCHANGED <<completed, mem, disk, found>>, asking' # "clear",
         task.type \in Known, task.type = "clear" => found = Nothing
  PROVE  Requested'
<1>1. /\ Asked("clear")' => Asked("clear") \/ task.type = "clear"
      /\ \A i \in 1..Len(queue') : queue'[i] = task \/ (i \in 1..Len(queue) /\ queue'[i] = queue[i])
  BY Put DEF TypeNames
<1> QED
  BY <1>1 DEF Requested

\* The main thread makes a request.
LEMMA MainPuts ==
  ASSUME Basis, ~synchronous, NEW type \in Known, Request(Main, type)
  PROVE  /\ Basis'
         /\ UNCHANGED <<synchronous, active, open, completed, store>>
         /\ pc'[Worker] = pc[Worker] /\ cur'[Worker] = cur[Worker]
         /\ closing = "no" => closing' = "no"
         /\ \E task \in GoodTask : /\ task.type = type
                                   /\ queue' \in {queue, Append(queue, task)}
                                   /\ active /\ open = "open" => queue' # queue
<1>1. Enqueue(Main, type) /\ Main \in Threads /\ Main # Worker /\ Worker \in Threads
  BY RunnerIsThread DEF Request, RunInline
<1>2. type \in TypeNames /\ Payloads(type) = {Nothing}
  BY DEF Known, TypeNames, Payloads
<1>3. Basis'
  BY <1>1, <1>2, EnqueueStep
<1>4. Task(type, Nothing) \in GoodTask
  BY <1>2, RequestIsGood DEF Basis, Shape
<1>5. queue' = IF active /\ open = "open" THEN Append(queue, Task(type, Nothing)) ELSE queue
  BY <1>1, <1>2 DEF Enqueue
<1>6. queue \in Seq(GoodTask) /\ cur \in [Threads -> GoodTask] /\ pc \in [Threads -> Places]
  BY DEF Basis, TasksOK, Shape
<1>7. Append(queue, Task(type, Nothing)) # queue
  BY <1>4, <1>6
<1>8. Continue(Main) /\ UNCHANGED <<synchronous, active, open, completed, store>>
  BY <1>1 DEF Enqueue, setup
<1>9. /\ pc'[Worker] = pc[Worker] /\ cur'[Worker] = cur[Worker]
      /\ closing = "no" => closing' = "no"
  BY <1>1, <1>6, <1>8 DEF Continue, Goto
<1>10. Task(type, Nothing).type = type
  BY DEF Task
<1> DEFINE task == Task(type, Nothing)
<1>11. /\ task \in GoodTask /\ task.type = type /\ queue' \in {queue, Append(queue, task)}
       /\ active /\ open = "open" => queue' # queue
  BY <1>4, <1>5, <1>7, <1>10
<1> HIDE DEF task
<1> QED
  BY <1>3, <1>8, <1>9, <1>11

\* Steps that leave the worker, the queue and the content as they are: the last
\* edit and the file are as safe as before.
LEMMA AsideKeeps ==
  ASSUME UNCHANGED <<queue, completed, disk, mem, memory, file, saving, unseen, last, found>>,
         pc'[Worker] = pc[Worker], cur'[Worker] = cur[Worker],
         asking' = asking \/ (asking = "no" /\ asking' # "save"),
         resave' = resave, book # "off", safe' = safe
  PROVE  (Kept => Kept') /\ (Safe => Safe')
<1>1. /\ \A type \in {"save", "complete"} :
            (Runs(type)' <=> Runs(type)) /\ (Asked(type)' <=> Asked(type))
      /\ Saves' <=> Saves
  BY SameWork DEF TypeNames
<1>2. ASSUME Kept PROVE Kept'
  BY <1>1, <1>2 DEF Kept, Unloaded, Loaded, WriteLost
<1>3. ASSUME Safe PROVE Safe'
  BY <1>1, <1>3 DEF Safe, Coming, WriteLost
<1> QED
  BY <1>2, <1>3

\* activate(true)
LEMMA TurnOnBook ==
  ASSUME BookInv, TurnOn
  PROVE  BookInv' /\ (Kept => Kept') /\ (Safe => Safe')
<1>1. /\ Untouched /\ Activate /\ ~synchronous /\ last \in Data \cup {Nothing}
      /\ book' = "starting" /\ asking' = "synchronize" /\ UNCHANGED <<resave, found, last, safe>>
  BY DEF BookInv, Course, TurnOn, seen
<1>2. Basis'
  BY <1>1, ActivateStep DEF BookInv
<1>3. /\ active' /\ open' = "open" /\ UNCHANGED <<closing, queue, completed, synchronous, cur>>
      /\ mem' = 0 /\ UNCHANGED <<memory, file, saving, unseen>>
      /\ IF file # NoFile THEN disk' = auto + 1 ELSE disk' = 0
  BY <1>1 DEF Activate, Untouched, setup, content
<1>4. pc'[Worker] = "loop"
  BY <1>1, RunnerIsThread DEF Activate, Goto, BookInv, Basis, Shape
<1>5. queue' = <<>> /\ saving' = Nothing /\ ~resave' /\ file' = found'
  BY <1>1, <1>3 DEF Untouched
<1>6. /\ \A type : ~Runs(type)'
      /\ \A type : ~Waiting(type)'
  BY <1>4, <1>5 DEF Runs, Waiting, Middle
<1>7. Course'
  BY <1>1, <1>3, <1>6 DEF Course, Untouched, Asked
<1>8. Requested'
  BY <1>1, <1>3, <1>4, <1>5, <1>6 DEF Requested, Asked, Middle
<1>9. Kept'
  <2>1. ASSUME found' \in Content PROVE disk' # 0
    <3>1. file # NoFile
      BY <2>1, <1>1, <1>3, <1>5, DataAssumption DEF Content
    <3> QED
      BY <3>1, <1>3 DEF BookInv, Basis, Shape
  <2> QED
    BY <1>1, <1>3, <1>4, <1>5, <1>6, <2>1 DEF Kept, Unloaded, Asked
<1>10. Safe => ~safe'
  BY <1>1, DataAssumption DEF Safe, Untouched
<1> QED
  BY <1>2, <1>7, <1>8, <1>9, <1>10 DEF BookInv, Safe

\* activate(false)
LEMMA TurnOffBook ==
  ASSUME BookInv, TurnOff
  PROVE  BookInv' /\ (Kept => Kept') /\ (Safe => Safe')
<1>1. /\ book = "on" /\ asking = "no" /\ book' = "stopping" /\ asking' = "synchronize"
      /\ UNCHANGED <<vars, resave, found, last, safe>>
  BY DEF TurnOff, Free, seen
<1>2. /\ UNCHANGED <<synchronous, active, open, closing, completed, queue, pc, cur, disk, mem, auto,
                     cycles, memory, file, saving, unseen, events>>
  BY <1>1 DEF vars, control, setup, store, versions, content
<1>3. Basis'
  BY <1>2 DEF BookInv, Basis, Shape, TasksOK, OneRunner, InProgress, Versions, Runner
<1>4. Asked("complete")' <=> Asked("complete")
  BY <1>2, SameWork DEF TypeNames
<1>5. Course'
  BY <1>1, <1>2, <1>4 DEF BookInv, Course
<1>6. Requested'
  BY <1>1, <1>2, SameRequests DEF BookInv
<1>7. (Kept => Kept') /\ (Safe => Safe')
  BY <1>1, <1>2, AsideKeeps
<1> QED
  BY <1>3, <1>5, <1>6, <1>7 DEF BookInv

\* An edit asks for a save.
LEMMA EditBook ==
  ASSUME BookInv, Edit
  PROVE  BookInv' /\ Kept' /\ (SavesEdits => Safe')
<1>1. /\ book \in {"starting", "on", "stopping"} /\ asking' = Habit /\ last' = memory'
      /\ memory' \in Data
      /\ safe' => mem # 0 /\ found # Nothing
      /\ UNCHANGED <<book, resave, found>>
  BY DEF Edit, Editable
<1>2. /\ UNCHANGED <<synchronous, active, open, closing, completed, queue, pc, cur, disk, mem, auto,
                     cycles, file, saving, unseen, events>>
  BY DEF Edit, control, setup, versions
<1>3. Basis'
  BY <1>1, <1>2 DEF BookInv, Basis, Shape, TasksOK, OneRunner, InProgress, Versions, Runner, Content
<1>4. Asked("complete")' <=> Asked("complete")
  BY <1>2, SameWork DEF TypeNames
<1>5. Course'
  BY <1>1, <1>2, <1>4, HabitAssumption DEF BookInv, Course
<1>6. Requested'
  BY <1>1, <1>2, SameRequests, HabitAssumption DEF BookInv
<1>7. Kept'
  BY <1>1, DataAssumption DEF Kept
<1>8. SavesEdits => Safe'
  BY <1>1, <1>2 DEF SavesEdits, Safe, Coming, WriteLost
<1> QED
  BY <1>3, <1>5, <1>6, <1>7, <1>8 DEF BookInv

\* A clear leaves nothing to be kept.
LEMMA CleanBook == ASSUME BookInv, Clean PROVE BookInv' /\ Kept' /\ Safe'
<1>1. /\ book \in {"starting", "on", "stopping"} /\ asking' = "clear"
      /\ found' = Nothing /\ last' = Nothing /\ ~safe'
      /\ UNCHANGED <<vars, book>>
  BY DEF Clean, Editable
<1>2. /\ UNCHANGED <<synchronous, active, open, closing, completed, queue, pc, cur, disk, mem, auto,
                     cycles, memory, file, saving, unseen, events>>
  BY <1>1 DEF vars, control, setup, store, versions, content
<1>3. Basis'
  BY <1>2 DEF BookInv, Basis, Shape, TasksOK, OneRunner, InProgress, Versions, Runner
<1>4. Asked("complete")' <=> Asked("complete")
  BY <1>2, SameWork DEF TypeNames
<1>5. Course'
  BY <1>1, <1>2, <1>4 DEF BookInv, Course
<1>6. Requested'
  BY <1>1, <1>2, SameRequests DEF BookInv
<1>7. Kept' /\ Safe'
  BY <1>1, DataAssumption DEF Kept, Safe, Content
<1> QED
  BY <1>3, <1>5, <1>6, <1>7 DEF BookInv

\* The request of an edit, of a clear, or of activate() is queued: the store is
\* active and its queue open.
LEMMA AskBook ==
  ASSUME BookInv, Ask
  PROVE  BookInv' /\ (Kept => Kept') /\ (Safe => Safe')
<1>1. /\ asking # "no" /\ asking \in Known /\ Request(Main, asking) /\ asking' = "no"
      /\ UNCHANGED <<book, resave, found, last, safe>>
      /\ Basis /\ Requested /\ ~synchronous
  BY DEF Ask, BookInv, Course, Known, seen
<1>2. /\ book \in {"starting", "on", "stopping"} /\ active /\ open = "open" /\ closing = "no"
      /\ ~completed /\ ~Asked("complete")
  BY <1>1 DEF BookInv, Course, Untouched
<1>3. /\ Basis'
      /\ UNCHANGED <<synchronous, active, open, completed, store>>
      /\ pc'[Worker] = pc[Worker] /\ cur'[Worker] = cur[Worker]
      /\ closing' = "no"
      /\ \E task \in GoodTask : /\ task.type = asking
                                /\ queue' \in {queue, Append(queue, task)}
                                /\ active /\ open = "open" => queue' # queue
  BY <1>1, <1>2, MainPuts
<1>4. PICK task \in GoodTask :
         task.type = asking /\ queue' \in {queue, Append(queue, task)} /\ queue' # queue
  BY <1>2, <1>3
<1>5. UNCHANGED <<mem, disk, memory, file, saving, unseen>>
  BY <1>3 DEF store, versions, content
<1>6. /\ \A type \in TypeNames : Runs(type)' <=> Runs(type)
      /\ \A type \in TypeNames : Asked(type)' => Asked(type) \/ task.type = type
      /\ Saves => Saves'
      /\ task.type = "save" /\ ~Asked("complete") => Saves'
  BY <1>1, <1>3, <1>4, Put
<1>7. asking # "complete"
  BY DEF BookInv, Course
<1>8. Course'
  BY <1>1, <1>2, <1>3, <1>4, <1>6, <1>7 DEF BookInv, Course, TypeNames
<1>9. Requested'
  <2>1. task.type \in Known /\ (task.type = "clear" => found = Nothing)
    BY <1>1, <1>4 DEF Requested
  <2>2. UNCHANGED <<completed, mem, disk, found>> /\ asking' # "clear"
    BY <1>1, <1>3, <1>5
  <2> QED
    BY <1>1, <1>3, <1>4, <2>1, <2>2, PutRequests
<1>10. ASSUME Kept PROVE Kept'
  <2>1. asking # "save" => (Asked("save")' => Asked("save"))
    BY <1>4, <1>6 DEF TypeNames
  <2> QED
    BY <1>1, <1>3, <1>5, <1>10, <2>1 DEF Kept, Unloaded, Loaded, WriteLost
<1>11. ASSUME Safe PROVE Safe'
  <2>1. Runs("complete")' <=> Runs("complete")
    BY <1>6 DEF TypeNames
  <2>2. ~Runs("complete")
    BY <1>2 DEF Asked
  <2>3. asking = "save" => Saves'
    BY <1>2, <1>4, <1>6
  <2> QED
    BY <1>1, <1>2, <1>3, <1>5, <1>6, <1>11, <2>1, <2>2, <2>3 DEF Safe, Coming, WriteLost
<1> QED
  BY <1>3, <1>8, <1>9, <1>10, <1>11 DEF BookInv

\* A callback is registered, the main thread is done with an event, or a callback
\* goes on with activate().
LEMMA CallbacksBook ==
  ASSUME BookInv, Register \/ Leave \/ Ring
  PROVE  BookInv' /\ (Kept => Kept') /\ (Safe => Safe')
<1>1. /\ UNCHANGED <<asking, resave, found, last, safe, queue, store, active, closing, open, completed,
                     synchronous>>
      /\ \/ book' = book
         \/ book = "starting" /\ book' = "on"
         \/ book # "starting" /\ book' = "shut" /\ asking = "no"
      /\ OnFinished(Main) \/ Release(Main) \/ RunCallbacks
      /\ pc[Main] # "idle" \/ posted # <<>>
  BY DEF Register, Leave, Ring, Free, OnFinished, Release, RunCallbacks, bookVars, seen, control, setup
<1>2. Main \in Threads /\ Worker \in Threads /\ Main # Worker
  BY RunnerIsThread
<1>3. Basis'
  BY <1>1, <1>2, OnFinishedStep, ReleaseStep, RunCallbacksStep DEF BookInv
<1>4. pc'[Worker] = pc[Worker] /\ cur'[Worker] = cur[Worker]
  BY <1>1, <1>2 DEF OnFinished, Release, RunCallbacks, Goto, BookInv, Basis, Shape, TasksOK
<1>5. book # "off"
  BY <1>1 DEF BookInv, Course, Untouched
<1>6. Asked("complete")' <=> Asked("complete")
  BY <1>1, <1>4, SameWork DEF TypeNames
<1>7. Course'
  BY <1>1, <1>4, <1>5, <1>6 DEF BookInv, Course
<1>8. UNCHANGED <<disk, mem, memory, file, saving, unseen>>
  BY <1>1 DEF store, versions, content
<1>9. Requested'
  <2>1. found' = Nothing \/ (found' = found /\ asking' # "clear")
    BY <1>1 DEF BookInv, Requested
  <2> QED
    BY <1>1, <1>4, <1>8, <2>1, SameRequests DEF BookInv
<1>10. (Kept => Kept') /\ (Safe => Safe')
  BY <1>1, <1>4, <1>5, <1>8, AsideKeeps
<1> QED
  BY <1>3, <1>7, <1>9, <1>10 DEF BookInv

\* The store's activate(false), within the callback.
LEMMA ShutBook ==
  ASSUME BookInv, Shut
  PROVE  BookInv' /\ (Kept => Kept') /\ (Safe => Safe')
<1>1. /\ book = "shut" /\ asking = "no" /\ (active \/ pc[Worker] = "exited")
      /\ UNCHANGED <<book, asking, resave, found, last, safe>>
      /\ Basis /\ Requested /\ ~synchronous
  BY DEF Shut, BookInv, Course, bookVars, seen
<1>2. CASE Deactivate \/ Join
  <2>1. Basis'
    BY <1>1, <1>2, DeactivateStep, JoinStep
  <2>2. /\ UNCHANGED <<synchronous, open, completed, queue, store, pc, cur>>
        /\ active' \/ pc'[Worker] = "exited"
    BY <1>1, <1>2 DEF Deactivate, Join, setup
  <2>3. UNCHANGED <<disk, mem, memory, file, saving, unseen>>
    BY <2>2 DEF store, versions, content
  <2>4. Course'
    BY <1>1, <2>2 DEF BookInv, Course
  <2>5. Requested'
    BY <1>1, <2>2, <2>3, SameRequests
  <2>6. (Kept => Kept') /\ (Safe => Safe')
    BY <1>1, <2>2, <2>3, AsideKeeps
  <2> QED
    BY <2>1, <2>4, <2>5, <2>6 DEF BookInv
<1>3. ASSUME closing # "no", NEW type \in Requests(Main), Enqueue(Main, type)
      PROVE  BookInv' /\ (Kept => Kept') /\ (Safe => Safe')
  <2>1. type \in {"synchronize", "complete"} /\ type \in Known
    BY <1>1, <1>3 DEF Requests, Basis, Shape, Known
  <2>2. Request(Main, type)
    BY <1>3 DEF Request
  <2>3. /\ Basis'
        /\ UNCHANGED <<synchronous, active, open, completed, store>>
        /\ pc'[Worker] = pc[Worker] /\ cur'[Worker] = cur[Worker]
        /\ \E task \in GoodTask : /\ task.type = type
                                  /\ queue' \in {queue, Append(queue, task)}
                                  /\ active /\ open = "open" => queue' # queue
    BY <1>1, <2>1, <2>2, MainPuts
  <2>4. PICK task \in GoodTask : task.type = type /\ queue' \in {queue, Append(queue, task)}
    BY <2>3
  <2>5. UNCHANGED <<mem, disk, memory, file, saving, unseen>>
    BY <2>3 DEF store, versions, content
  <2>6. /\ \A ty \in TypeNames : Runs(ty)' <=> Runs(ty)
        /\ \A ty \in TypeNames : Asked(ty)' => Asked(ty) \/ task.type = ty
        /\ Saves => Saves'
    BY <1>1, <2>3, <2>4, Put
  <2>7. (Runs("complete")' <=> Runs("complete")) /\ (Asked("save")' => Asked("save"))
    BY <2>1, <2>4, <2>6 DEF TypeNames
  <2>8. Course'
    BY <1>1, <2>3 DEF BookInv, Course
  <2>9. Requested'
    <3>1. task.type \in Known /\ (task.type = "clear" => found = Nothing)
      BY <2>1, <2>4
    <3>2. UNCHANGED <<completed, mem, disk, found>> /\ asking' # "clear"
      BY <1>1, <2>3, <2>5
    <3> QED
      BY <1>1, <2>3, <2>4, <3>1, <3>2, PutRequests
  <2>10. ASSUME Kept PROVE Kept'
    BY <1>1, <2>3, <2>5, <2>7, <2>10 DEF Kept, Unloaded, Loaded, WriteLost
  <2>11. ASSUME Safe PROVE Safe'
    BY <1>1, <2>3, <2>5, <2>6, <2>7, <2>11 DEF Safe, Coming, WriteLost
  <2> QED
    BY <2>3, <2>8, <2>9, <2>10, <2>11 DEF BookInv
<1> QED
  BY <1>2, <1>3 DEF Shut

\* The process dies and starts again.
LEMMA RebootBook == ASSUME BookInv, Reboot PROVE BookInv' /\ Kept' /\ Safe'
<1>1. Restart /\ Basis'
  BY RestartStep DEF Reboot, BookInv
<1>2. /\ book' = "off" /\ asking' = "no" /\ ~resave' /\ found' = file' /\ last' = Nothing /\ ~safe'
      /\ closing' = "no" /\ queue' = <<>> /\ posted' = <<>> /\ open' = "new" /\ ~completed' /\ ~active'
      /\ mem' = 0 /\ disk' = 0 /\ saving' = Nothing /\ ~synchronous'
      /\ pc'[Main] = "idle" /\ pc'[Worker] = "off"
  BY RunnerIsThread DEF Reboot, Restart, Quiet, BookInv, Course
<1>3. Course'
  BY <1>2 DEF Course, Untouched
<1>4. Requested'
  BY <1>2 DEF Requested, Asked, Runs, Waiting, Middle
<1> QED
  BY <1>1, <1>2, <1>3, <1>4 DEF BookInv, Kept, Safe

-----------------------------------------------------------------------------
(* The worker.                                                               *)

\* The plans of a book that is loaded ask for a save.
LEMMA FromMapBook ==
  ASSUME BookInv, FromMap
  PROVE  BookInv' /\ (Kept => Kept') /\ (Safe => Safe')
<1> DEFINE task == Task("save", Nothing)
           taken == active /\ open = "open"
<1>1. /\ resave
      /\ UNCHANGED <<control, store, posted, pc, cur, book, asking, found, last, safe>>
      /\ events' = Append(events, NewEvent(taken))
      /\ queue' \in {queue, Append(queue, task)}
      /\ Basis /\ Requested /\ ~synchronous
  BY DEF FromMap, seen, BookInv, Course
<1>2. task \in GoodTask /\ task.type = "save"
  <2>1. "save" \in TypeNames /\ Nothing \in Payloads("save") /\ events \in Seq(EventSet)
    BY <1>1 DEF TypeNames, Payloads, Basis, Shape
  <2> QED
    BY <2>1, RequestIsGood DEF Task
<1> HIDE DEF task
<1>3. /\ UNCHANGED <<synchronous, active, open, closing, completed, cycles, disk, mem, memory,
         file, saving, unseen>>
      /\ UNCHANGED <<store, pc, cur>>
  BY <1>1 DEF control, setup, store, versions, content
<1>4. book # "off"
  BY <1>1 DEF BookInv, Course, Untouched
<1>5. Basis'
  <2>1. events' \in Seq(EventSet)
    <3>1. taken \in BOOLEAN
      OBVIOUS
    <3> HIDE DEF taken
    <3> QED
      BY <1>1, <3>1, MadeEvents
  <2>2. TasksOK'
    BY <1>1, <1>2, <1>3 DEF Basis, TasksOK
  <2>3. /\ pc' \in [Threads -> Places] /\ active' \in BOOLEAN
        /\ closing' \in {"no", "synchronize", "complete", "join"}
    BY <1>1, <1>3 DEF Basis, Shape
  <2>4. /\ \A t \in Threads : pc'[t] \in Busy => active'
        /\ pc'[Worker] = "get" => ~synchronous
        /\ pc'[Worker] \in {"loop", "get"} => active'
    BY <1>1, <1>3 DEF Basis, OneRunner
  <2> QED
    BY <1>1, <1>3, <2>1, <2>2, <2>3, <2>4, BesideRunner
<1>6. /\ \A type \in TypeNames : Runs(type)' <=> Runs(type)
      /\ \A type \in TypeNames : Asked(type)' => Asked(type) \/ task.type = type
      /\ Saves => Saves'
  BY <1>1, <1>2, <1>3, Put
<1>7. (Runs("complete")' <=> Runs("complete")) /\ (Asked("complete")' => Asked("complete"))
  BY <1>2, <1>6 DEF TypeNames
<1>8. Course'
  BY <1>1, <1>3, <1>4, <1>7 DEF BookInv, Course
<1>9. Requested'
  <2>1. /\ \A i \in 1..Len(queue') : queue'[i] = task \/ (i \in 1..Len(queue) /\ queue'[i] = queue[i])
        /\ Asked("clear")' => Asked("clear")
    BY <1>1, <1>2, <1>3, <1>6, Put DEF TypeNames
  <2> QED
    BY <1>1, <1>2, <1>3, <2>1 DEF Requested, Known
<1>10. ASSUME Kept PROVE Kept'
  BY <1>1, <1>3, <1>10 DEF Kept, Unloaded, Loaded, WriteLost
<1>11. ASSUME Safe PROVE Safe'
  BY <1>1, <1>3, <1>6, <1>7, <1>11 DEF Safe, Coming, WriteLost
<1> QED
  BY <1>5, <1>8, <1>9, <1>10, <1>11 DEF BookInv

\* What the steps of the worker leave alone.
WorkAlone ==
    /\ UNCHANGED <<book, asking, found, last, safe>>
    /\ resave' = FALSE \/ (Operation(Worker) = "load" /\ mem' = disk /\ memory' \in Data)

\* The worker looks whether it is to go on: it leaves when the store is completed.
LEMMA WorkerLoopBook ==
  ASSUME BookInv, ~resave, WorkAlone, WorkerLoop
  PROVE  BookInv' /\ (Kept => Kept') /\ (Safe => Safe')
<1>1. /\ pc[Worker] = "loop" /\ Goto(Worker, IF completed THEN "exited" ELSE "get")
      /\ UNCHANGED <<control, queue, store, cur, posted>>
      /\ UNCHANGED <<book, asking, found, last, safe>> /\ resave' = FALSE
      /\ Basis /\ Requested /\ ~synchronous
  BY DEF WorkerLoop, BookInv, Course, WorkAlone, Operation
<1>2. UNCHANGED <<synchronous, active, open, closing, completed, disk, mem, memory, file, saving, unseen>>
  BY <1>1 DEF control, setup, store, versions, content
<1>3. Basis'
  BY <1>1, WorkerLoopStep
<1>4. /\ pc'[Worker] \in {"exited", "get"} /\ (pc'[Worker] = "exited" => completed)
  BY <1>1, RunnerIsThread DEF Basis, Shape, Goto
<1>5. book # "off"
  BY <1>1 DEF BookInv, Course, Untouched
<1>6. /\ \A type : ~Runs(type) /\ ~Runs(type)' /\ (Waiting(type)' <=> Waiting(type))
      /\ Saves' <=> Saves
  BY <1>1, <1>4 DEF Runs, Waiting, Saves, Middle
<1>7. Course'
  BY <1>1, <1>2, <1>5, <1>6 DEF BookInv, Course, Asked
<1>8. Requested'
  BY <1>1, <1>2, <1>4, <1>6 DEF Requested, Asked, Middle
<1>9. ASSUME Kept PROVE Kept'
  BY <1>1, <1>2, <1>4, <1>5, <1>6, <1>9 DEF Kept, Unloaded, Loaded, WriteLost, Asked
<1>10. ASSUME Safe PROVE Safe'
  BY <1>1, <1>2, <1>4, <1>6, <1>10 DEF Safe, Coming, WriteLost
<1> QED
  BY <1>3, <1>7, <1>8, <1>9, <1>10 DEF BookInv

\* The worker takes the oldest request, or finds the queue done.
LEMMA WorkerGetBook ==
  ASSUME BookInv, ~resave, WorkAlone, WorkerGet
  PROVE  BookInv' /\ (Kept => Kept') /\ (Safe => Safe')
<1>1. /\ pc[Worker] = "get"
      /\ UNCHANGED <<control, store, posted>>
      /\ UNCHANGED <<book, asking, found, last, safe>> /\ resave' = FALSE
      /\ Basis /\ Requested /\ ~synchronous
  BY DEF WorkerGet, BookInv, Course, WorkAlone, Operation
<1>2. UNCHANGED <<synchronous, active, open, closing, completed, disk, mem, memory, file, saving, unseen>>
  BY <1>1 DEF control, setup, store, versions, content
<1>3. Basis'
  BY <1>1, WorkerGetStep
<1>4. book # "off"
  BY <1>1 DEF BookInv, Course, Untouched
<1>5. \A type : ~Runs(type)
  BY <1>1 DEF Runs, Middle
<1>6. active
  BY <1>1 DEF Basis, OneRunner
<1>7. CASE Goto(Worker, "loop") /\ UNCHANGED <<queue, cur>>
  <2>1. pc'[Worker] = "loop"
    BY <1>1, <1>7, RunnerIsThread DEF Basis, Shape, Goto
  <2>2. /\ \A type : ~Runs(type)' /\ (Waiting(type)' <=> Waiting(type))
        /\ Saves' <=> Saves
    BY <1>7, <2>1 DEF Runs, Waiting, Saves, Middle
  <2>3. Course'
    BY <1>1, <1>2, <1>4, <1>5, <1>6, <2>2 DEF BookInv, Course, Asked
  <2>4. Requested'
    BY <1>1, <1>2, <1>5, <1>7, <2>1, <2>2 DEF Requested, Asked, Middle
  <2>5. ASSUME Kept PROVE Kept'
    BY <1>1, <1>2, <1>4, <1>5, <2>1, <2>2, <2>5 DEF Kept, Unloaded, Loaded, WriteLost, Asked
  <2>6. ASSUME Safe PROVE Safe'
    BY <1>1, <1>2, <1>5, <2>2, <2>6 DEF Safe, Coming, WriteLost
  <2> QED
    BY <1>3, <2>3, <2>4, <2>5, <2>6 DEF BookInv
<1>8. CASE /\ queue # <<>> /\ queue' = Tail(queue)
           /\ cur' = [cur EXCEPT ![Worker] = Head(queue)]
           /\ Goto(Worker, "exec")
  <2>1. pc'[Worker] = "exec" /\ cur'[Worker] = Head(queue)
    BY <1>1, <1>8, RunnerIsThread DEF Basis, Shape, TasksOK, Goto
  <2>2. queue \in Seq(GoodTask)
    BY <1>1 DEF Basis, TasksOK
  <2>3. /\ Head(queue) = queue[1] /\ 1 \in 1..Len(queue)
        /\ \A type \in TypeNames : Waiting(type)' => Waiting(type)
        /\ \A type \in TypeNames : Head(queue).type = type => Waiting(type)
        /\ Saves => Head(queue).type # "complete" /\ (Head(queue).type = "save" \/ Saves')
        /\ \A i \in 1..Len(queue') : i + 1 \in 1..Len(queue) /\ queue'[i] = queue[i + 1]
    BY <1>8, <2>2, TakeAsks
  <2>4. \A type \in TypeNames : Asked(type)' => Asked(type)
    BY <2>1, <2>3 DEF Asked, Runs
  <2>5. Course'
    BY <1>1, <1>2, <1>4, <1>6, <2>4 DEF BookInv, Course, TypeNames
  <2>6. Requested'
    <3>1. Head(queue).type \in Known /\ \A i \in 1..Len(queue') : queue'[i].type \in Known
      BY <1>1, <2>3 DEF Requested
    <3>2. Asked("clear")' => Asked("clear")
      BY <2>4 DEF TypeNames
    <3> QED
      BY <1>1, <1>2, <2>1, <3>1, <3>2 DEF Requested
  <2>7. ASSUME Kept PROVE Kept'
    <3>1. Asked("save")' => Asked("save")
      BY <2>4 DEF TypeNames
    <3> QED
      BY <1>1, <1>2, <1>4, <2>1, <2>7, <3>1 DEF Kept, Unloaded, Loaded, WriteLost
  <2>8. ASSUME Safe PROVE Safe'
    <3>1. Saves => ~Runs("complete")' /\ (cur'[Worker].type = "save" \/ Saves')
      BY <2>1, <2>3 DEF Runs
    <3> QED
      BY <1>1, <1>2, <2>1, <2>8, <3>1 DEF Safe, Coming, WriteLost
  <2> QED
    BY <1>3, <2>5, <2>6, <2>7, <2>8 DEF BookInv
<1> QED
  BY <1>7, <1>8 DEF WorkerGet

\* A step within an event.
LEMMA RunStepBook ==
  ASSUME BookInv, ~resave, WorkAlone, RunStep(Worker)
  PROVE  BookInv' /\ (Kept => Kept') /\ (SavesEdits /\ Safe => Safe')
<1>1. /\ UNCHANGED <<book, asking, found, last, safe>>
      /\ resave' = FALSE \/ (Operation(Worker) = "load" /\ mem' = disk /\ memory' \in Data)
      /\ Basis /\ Course /\ Requested /\ ~synchronous
  BY DEF BookInv, Course, WorkAlone
<1>2. /\ UNCHANGED <<synchronous, active, closing, queue>>
      /\ active /\ pc[Worker] \in Busy /\ pc'[Main] = pc[Main]
      /\ pc'[Worker] \notin {"exited", "get", "off"}
      /\ pc'[Worker] \in Middle => pc[Worker] \in Middle /\ cur' = cur
      /\ pc'[Worker] \in {"save", "write"} => cur[Worker].type \in {"save", "synchronize"}
      /\ Loads \/ Generates \/ Clears \/ Opens \/ Writes \/ Ends \/ Spares
  BY <1>1, WorkerDoes
<1>3. Basis'
  BY <1>1, RunStepStep, RunnerIsThread
<1>4. /\ disk \in Nat /\ mem \in Nat /\ disk' \in Nat /\ mem' \in Nat /\ disk' <= auto' /\ mem' <= auto'
      /\ saving # Nothing <=> pc[Worker] = "write"
      /\ saving' # Nothing <=> pc'[Worker] = "write"
  BY <1>1, <1>2, <1>3 DEF Basis, Shape, Versions, InProgress, Runner
<1>5. book # "off"
  BY <1>1, <1>2 DEF Course, Untouched
<1>6. /\ \A type : Runs(type)' => Runs(type)
      /\ \A type : Waiting(type)' <=> Waiting(type)
      /\ Saves' <=> Saves
  BY <1>2 DEF Runs, Waiting, Saves
<1>7. \A type : Asked(type)' => Asked(type)
  BY <1>6 DEF Asked
<1>8. ASSUME Ends PROVE Runs("complete") /\ book = "shut"
  <2>1. Runs("complete")
    BY <1>8 DEF Ends, Runs, Middle
  <2> QED
    BY <1>1, <1>5, <2>1 DEF Course, Asked
<1>9. Course'
  <2>1. CASE Ends
    BY <1>1, <1>2, <1>8, <2>1 DEF Course
  <2>2. CASE ~Ends
    <3>1. UNCHANGED open \/ book = "shut"
      BY <1>2, <2>2 DEF Loads, Generates, Clears, Opens, Writes, Spares
    <3>2. UNCHANGED completed
      BY <1>2, <2>2 DEF Loads, Generates, Clears, Opens, Writes, Spares
    <3> QED
      BY <1>1, <1>2, <1>5, <1>7, <3>1, <3>2 DEF Course
  <2> QED
    BY <2>1, <2>2
<1>10. Requested'
  <2>1. mem' # 0 => disk' <= mem'
    <3>1. mem # 0 => disk <= mem
      BY <1>1 DEF Requested
    <3> QED
      BY <1>2, <1>4, <3>1 DEF Loads, Generates, Clears, Opens, Writes, Ends, Spares
  <2>2. pc'[Worker] \in Middle => cur'[Worker].type \in Known
    BY <1>1, <1>2 DEF Requested
  <2>3. pc'[Worker] \in {"save", "write"} => cur'[Worker].type \in {"save", "synchronize"}
    BY <1>2 DEF Middle
  <2> QED
    BY <1>1, <1>2, <1>7, <2>1, <2>2, <2>3 DEF Requested
<1>11. ASSUME Kept, found \in Content, last = Nothing PROVE Kept'
  <2>1. disk # 0 /\ (Unloaded \/ Loaded) /\ found # Nothing
    BY <1>5, <1>11, DataAssumption DEF Kept, Content
  <2>2. ~Clears /\ ~Generates
    <3>1. ~Runs("clear")
      BY <1>1, <2>1 DEF Requested, Asked
    <3> QED
      BY <2>1, <3>1 DEF Clears, Generates, Runs, Middle
  <2>3. CASE Loads
    <3>1. Unloaded
      BY <1>4, <2>1, <2>3 DEF Loads, Loaded, WriteLost
    <3>2. UNCHANGED <<disk, file, saving, asking, found>> /\ mem' = disk /\ pc'[Worker] # "save"
      BY <1>1, <2>3 DEF Loads, Middle
    <3>3. CASE memory' = file
      BY <2>1, <3>1, <3>2, <3>3 DEF Kept, Loaded, Unloaded
    <3>4. CASE memory' = Blank
      <4>1. ~resave'
        BY <1>1, <3>4, DataAssumption
      <4> QED
        BY <1>7, <2>1, <3>1, <3>2, <4>1 DEF Kept, Unloaded
    <3> QED
      BY <2>3, <3>3, <3>4 DEF Loads
  <2>4. CASE Opens
    <3>1. Loaded
      <4>1. ~(cur[Worker].type = "save" /\ pc[Worker] = "exec") \/ Runs("save")
        BY DEF Runs, Middle
      <4> QED
        BY <1>4, <2>1, <2>4, <4>1 DEF Opens, Unloaded, Asked
    <3>2. Loaded' /\ disk' # 0
      BY <1>1, <2>1, <2>4, <3>1 DEF Opens, Loaded, WriteLost
    <3> QED
      BY <3>2 DEF Kept
  <2>5. CASE Writes
    <3>1. Loaded /\ saving # Nothing
      BY <1>4, <2>1, <2>5 DEF Writes, Unloaded
    <3>2. Loaded' /\ disk' # 0
      BY <1>1, <2>1, <2>5, <3>1 DEF Writes, WriteFile, Loaded, WriteLost
    <3> QED
      BY <3>2 DEF Kept
  <2>6. CASE UNCHANGED <<disk, mem, memory, file, saving, unseen>> /\ pc'[Worker] \notin Middle
    <3>1. Loaded => Loaded'
      BY <1>1, <2>6 DEF Loaded, WriteLost
    <3>2. Operation(Worker) = "load" => disk > mem
      BY <1>1 DEF Requested, Operation, SyncChoice, Known, Middle
    <3>3. Unloaded => Unloaded'
      BY <1>1, <1>4, <1>7, <2>1, <2>6, <3>2 DEF Unloaded, Middle
    <3> QED
      BY <2>1, <2>6, <3>1, <3>3 DEF Kept
  <2> QED
    BY <1>2, <2>2, <2>3, <2>4, <2>5, <2>6 DEF Ends, Spares
<1>12. Kept => Kept'
  BY <1>1, <1>11 DEF Kept
<1>13. ASSUME SavesEdits, Safe, safe PROVE Safe'
  <2>1. /\ found # Nothing /\ last \in Data /\ mem # 0 /\ memory = last /\ Coming
        /\ disk <= mem /\ last # Nothing
    BY <1>1, <1>13, DataAssumption DEF Safe, Requested
  <2>2. ~Clears /\ ~Generates /\ ~Loads
    <3>1. ~Runs("clear")
      BY <1>1, <2>1 DEF Requested, Asked
    <3> QED
      BY <1>4, <2>1, <3>1 DEF Clears, Generates, Loads, Runs, Middle
  <2>3. UNCHANGED <<mem, memory>>
    BY <1>2, <2>2 DEF Opens, Writes, Ends, Spares
  <2>4. ~Runs("complete") => ~Runs("complete")'
    BY <1>6
  <2>5. CASE Opens
    BY <1>1, <2>1, <2>3, <2>5 DEF Opens, Safe, Coming, WriteLost
  <2>6. CASE Writes
    <3>1. Coming'
      BY <1>1, <1>4, <1>6, <2>1, <2>4, <2>6 DEF Writes, WriteFile, Coming, WriteLost
    <3> QED
      BY <1>1, <2>1, <2>3, <3>1 DEF Safe
  <2>7. CASE Ends
    <3>1. Coming'
      BY <1>1, <1>8, <2>1, <2>7 DEF Ends, Coming, WriteLost
    <3> QED
      BY <1>1, <2>1, <2>3, <3>1 DEF Safe
  <2>8. CASE Spares
    <3>1. Coming'
      BY <1>1, <1>6, <1>13, <2>1, <2>4, <2>8 DEF Spares, Coming, WriteLost, SavesEdits
    <3> QED
      BY <1>1, <2>1, <2>3, <3>1 DEF Safe
  <2> QED
    BY <1>2, <2>2, <2>5, <2>6, <2>7, <2>8
<1>14. SavesEdits /\ Safe => Safe'
  BY <1>1, <1>13 DEF Safe
<1> QED
  BY <1>3, <1>9, <1>10, <1>12, <1>14 DEF BookInv

-----------------------------------------------------------------------------
(* The types, and the order in which the requests of a book run.             *)

\* What BookTypeOK says of the variables of the book that Course does not say.
BookKinds ==
    /\ bell \in 0..Len(events)
    /\ {resave, safe} \subseteq BOOLEAN
    /\ found \in Content \cup {Torn, NoFile, Nothing}

\* What the owner and the book do by themselves is no matter of the events.
LEMMA SameEvents ==
  ASSUME BookInv, Order, Kinds, UNCHANGED <<control, queue, events, posted, pc, cur>>,
         UNCHANGED before
  PROVE  Order' /\ Kinds'
<1>1. UNCHANGED <<synchronous, crashes, open, completed>>
  BY DEF control, setup
<1>2. Order'
  BY <1>1 DEF Order, Runner
<1>3. Kinds'
  BY <1>1 DEF Kinds
<1> QED
  BY <1>2, <1>3

\* What a request of the book puts on the queue comes after all that is there.
LEMMA MainOrder ==
  ASSUME BookInv, Basis', Order, Kinds, NEW type \in TypeNames, Request(Main, type)
  PROVE  Order' /\ Kinds'
<1>1. Main \in Users
  BY DEF Users, Clients
<1> QED
  BY <1>1, RequestOrder DEF BookInv

\* The saves of the plans that are read do so too.
LEMMA FromMapOrder ==
  ASSUME BookInv, Basis', Order, Kinds, FromMap
  PROVE  Order' /\ Kinds'
<1> DEFINE task == Task("save", Nothing)
           taken == active /\ open = "open"
<1>1. /\ UNCHANGED <<control, store, posted, pc, cur>>
      /\ events' = Append(events, NewEvent(taken))
      /\ queue' = IF taken THEN Append(queue, task) ELSE queue
      /\ Basis /\ ~synchronous
  BY DEF FromMap, BookInv, Course
<1>2. task \in GoodTask /\ task.id = Len(events) + 1 /\ taken \in BOOLEAN
  <2>1. "save" \in TypeNames /\ Nothing \in Payloads("save") /\ events \in Seq(EventSet)
    BY <1>1 DEF TypeNames, Payloads, Basis, Shape
  <2> QED
    BY <2>1, RequestIsGood DEF Task
<1>3. \A u \in Threads : cur'[u].id \in 0..Len(events) + 1
  BY <1>1 DEF Kinds, Basis, Shape
<1>4. /\ UNCHANGED <<synchronous, crashes, open, completed, before, posted>>
      /\ pc'[Runner] = pc[Runner] /\ cur'[Runner] = cur[Runner]
  BY <1>1 DEF control, setup, store, content
<1> HIDE DEF task, taken
<1> QED
  BY <1>1, <1>2, <1>3, <1>4, PutOrder

\* Every step of a book keeps the order.
LEMMA BookOrder ==
  ASSUME BookInv, BookInv', Order, Kinds, [BookNext]_allVars
  PROVE  Order' /\ Kinds'
<1>1. Basis /\ Basis' /\ Main \in Users /\ Worker \in Threads
  BY RunnerIsThread DEF BookInv, Users, Clients
<1>2. CASE TurnOn \/ Leave
  BY <1>1, <1>2, IdleOrder DEF TurnOn, Leave
<1>3. CASE TurnOff \/ Clean \/ UNCHANGED allVars
  <2>1. UNCHANGED vars
    BY <1>3 DEF TurnOff, Clean, allVars
  <2> QED
    BY <2>1, SameEvents DEF vars, store, content
<1>4. CASE Edit
  BY <1>4, SameEvents DEF Edit
<1>5. CASE Ask
  <2>1. Request(Main, asking) /\ asking \in TypeNames
    BY <1>5 DEF Ask, BookInv, Course, TypeNames
  <2> QED
    BY <1>1, <2>1, MainOrder
<1>6. CASE Register \/ Ring
  BY <1>1, <1>6, CallbacksOrder DEF Register, Ring
<1>7. CASE Shut
  <2>1. ASSUME NEW type \in Requests(Main), Enqueue(Main, type) PROVE Order' /\ Kinds'
    BY <1>1, <2>1, UsersRequest, MainOrder DEF Request
  <2> QED
    BY <1>1, <1>7, <2>1, IdleOrder DEF Shut
<1>8. CASE Work
  BY <1>1, <1>8, IdleOrder, WorkerGetOrder, RunStepOrder DEF Work
<1>9. CASE FromMap
  BY <1>1, <1>9, FromMapOrder
<1>10. CASE Reboot
  BY <1>1, <1>10, RestartOrder DEF Reboot
<1> QED
  BY <1>2, <1>3, <1>4, <1>5, <1>6, <1>7, <1>8, <1>9, <1>10 DEF BookNext

\* No event is taken away while the process lives; a request makes one.
LEMMA EventsStay ==
  ASSUME Basis, BookNext, ~Reboot
  PROVE  /\ Len(events) \in Nat /\ Len(events') \in Nat /\ Len(events') >= Len(events)
         /\ Ask => Len(events') = Len(events) + 1
<1>1. events \in Seq(EventSet) /\ Len(events) \in Nat
  BY DEF Basis, Shape
<1>2. ASSUME NEW t \in Threads, NEW type, Request(t, type)
      PROVE  Len(events') = Len(events) + 1
  BY <1>1, <1>2 DEF Request, Enqueue, RunInline
<1>3. CASE TurnOn \/ TurnOff \/ Edit \/ Clean \/ Leave
  <2>1. UNCHANGED events
    BY <1>3 DEF TurnOn, TurnOff, Edit, Clean, Leave, Activate, Release, vars
  <2> QED
    BY <1>1, <1>2, <2>1, RunnerIsThread DEF Ask
<1>4. CASE Register \/ Ring
  <2>1. Len(events') = Len(events)
    BY <1>1, <1>4 DEF Register, Ring, OnFinished, RunCallbacks
  <2> QED
    BY <1>1, <1>2, <2>1, RunnerIsThread DEF Ask
<1>5. CASE Ask
  BY <1>1, <1>2, <1>5, RunnerIsThread DEF Ask
<1>6. CASE Shut
  <2>1. UNCHANGED events \/ Len(events') = Len(events) + 1
    BY <1>2, <1>6, RunnerIsThread DEF Shut, Deactivate, Join, Request
  <2> QED
    BY <1>1, <1>2, <2>1, RunnerIsThread DEF Ask
<1>7. CASE Work
  <2>1. CASE NotifyFinished(Worker)
    <3>1. Len(events') = Len(events)
      BY <1>1, <2>1 DEF NotifyFinished
    <3> QED
      BY <1>1, <1>2, <3>1, RunnerIsThread DEF Ask
  <2>2. CASE ~NotifyFinished(Worker)
    <3>1. UNCHANGED events
      BY <1>7, <2>2 DEF Work, WorkerLoop, WorkerGet, RunStep, Look, Set, Clear, Load, Generate,
                        SaveOpen, SaveWrite, Complete, Post
    <3> QED
      BY <1>1, <1>2, <3>1, RunnerIsThread DEF Ask
  <2> QED
    BY <2>1, <2>2
<1>8. CASE FromMap
  <2>1. Len(events') = Len(events) + 1
    BY <1>1, <1>8 DEF FromMap
  <2> QED
    BY <1>1, <2>1
<1> QED
  BY <1>3, <1>4, <1>5, <1>6, <1>7, <1>8 DEF BookNext

\* Every step of a book keeps the types of its own variables.
LEMMA BookKindsStay ==
  ASSUME BookInv, BookKinds, [BookNext]_allVars
  PROVE  BookKinds'
<1>1. CASE Reboot
  <2>1. file \in Content \cup {Torn, NoFile} /\ saving \in Content \cup {Nothing} /\ Blank \in Content
    BY DEF BookInv, Basis, Shape, Content
  <2>2. file' \in Content \cup {Torn, NoFile}
    BY <1>1, <2>1 DEF Reboot, Restart
  <2>3. events' = <<>> /\ bell' = 0 /\ resave' = FALSE /\ safe' = FALSE /\ found' = file'
    BY <1>1 DEF Reboot, Restart
  <2>4. bell' \in 0..Len(events')
    BY <2>3
  <2>5. {resave', safe'} \subseteq BOOLEAN
    BY <2>3, Zenon
  <2> QED
    BY <2>2, <2>3, <2>4, <2>5 DEF BookKinds
<1>2. CASE BookNext /\ ~Reboot
  <2>1. /\ Len(events) \in Nat /\ Len(events') \in Nat /\ Len(events') >= Len(events)
        /\ Ask => Len(events') = Len(events) + 1
    BY <1>2, EventsStay DEF BookInv
  <2>2. bell' \in {bell, 0} \/ (Ask /\ bell' = Len(events) + 1)
    BY <1>2 DEF BookNext, TurnOn, TurnOff, Edit, Clean, Ask, Register, Leave, Ring, Shut, Work,
                FromMap, bookVars
  <2>3. bell' \in 0..Len(events')
    BY <2>1, <2>2 DEF BookKinds
  <2>4. found' \in {found, Nothing}
    BY <1>2 DEF BookNext, TurnOn, TurnOff, Edit, Clean, Ask, Register, Leave, Ring, Shut, Work,
                FromMap, bookVars, seen
  <2>5. safe' \in BOOLEAN
    BY <1>2, Zenon DEF BookKinds, BookNext, TurnOn, TurnOff, Edit, Clean, Ask, Register, Leave, Ring,
                       Shut, Work, FromMap, bookVars, seen
  <2>6. resave' \in BOOLEAN
    BY <1>2, Zenon DEF BookKinds, BookNext, TurnOn, TurnOff, Edit, Clean, Ask, Register, Leave, Ring,
                       Shut, Work, FromMap, bookVars
  <2> QED
    BY <2>3, <2>4, <2>5, <2>6 DEF BookKinds
<1>3. CASE UNCHANGED allVars
  <2>1. UNCHANGED <<events, bell, resave, found, safe>>
    BY <1>3 DEF allVars, bookVars, seen, vars
  <2> QED
    BY <2>1 DEF BookKinds
<1> QED
  BY <1>1, <1>2, <1>3

-----------------------------------------------------------------------------
(* The theorems.                                                             *)

\* The three invariants hold initially ...
LEMMA BookBegins == BookInit => BookInv /\ Kept /\ Safe
<1> SUFFICES ASSUME BookInit PROVE BookInv /\ Kept /\ Safe
  OBVIOUS
<1>1. Init /\ ~synchronous /\ book = "off" /\ asking = "no" /\ ~resave /\ found = file
      /\ last = Nothing /\ ~safe
  BY DEF BookInit
<1>2. Basis
  BY <1>1, InitIInv DEF IInv
<1>3. Untouched
  BY <1>1, RunnerIsThread DEF Init, Untouched, Quiet
<1>4. Course
  BY <1>1, <1>3 DEF Course
<1>5. Requested
  BY <1>1, <1>3 DEF Requested, Untouched, Asked, Runs, Waiting, Middle
<1> QED
  BY <1>1, <1>2, <1>4, <1>5 DEF BookInv, Kept, Safe

\* ... and of every step.
LEMMA BookGoesOn ==
  ASSUME BookInv, [BookNext]_allVars
  PROVE  BookInv' /\ (Kept => Kept') /\ (SavesEdits /\ Safe => Safe')
<1>1. CASE Work
  <2>1. /\ ~resave /\ (WorkerLoop \/ WorkerGet \/ RunStep(Worker))
        /\ resave' \in (IF LoadsPlans THEN BOOLEAN ELSE {FALSE})
        /\ UNCHANGED <<book, asking, found, last, safe>>
    BY <1>1 DEF Work, seen
  <2>2. resave' = FALSE \/ LoadsPlans
    BY <2>1
  <2>3. WorkAlone
    BY <2>1, <2>2 DEF WorkAlone, LoadsPlans
  <2> QED
    BY <2>1, <2>3, WorkerLoopBook, WorkerGetBook, RunStepBook
<1>2. CASE UNCHANGED allVars
  <2>1. /\ UNCHANGED <<synchronous, active, open, closing, completed, queue, posted, pc, cur,
                       disk, mem, auto, cycles, memory, file, saving, unseen, events>>
        /\ UNCHANGED <<book, asking, resave, found, last, safe>>
    BY <1>2 DEF allVars, bookVars, seen, vars, control, setup, store, versions, content
  <2>2. Basis'
    BY <2>1 DEF BookInv, Basis, Shape, TasksOK, OneRunner, InProgress, Versions, Runner
  <2>3. /\ \A type \in {"save", "complete", "clear"} :
              (Runs(type)' <=> Runs(type)) /\ (Asked(type)' <=> Asked(type))
        /\ Saves' <=> Saves
    BY <2>1, SameWork DEF TypeNames
  <2>4. Course' /\ Requested'
    BY <2>1, <2>3 DEF BookInv, Course, Requested, Untouched
  <2>5. (Kept => Kept') /\ (Safe => Safe')
    BY <2>1, <2>3 DEF Kept, Unloaded, Loaded, Safe, Coming, WriteLost
  <2> QED
    BY <2>2, <2>4, <2>5 DEF BookInv
<1> QED
  BY <1>1, <1>2, TurnOnBook, TurnOffBook, EditBook, CleanBook, AskBook, CallbacksBook, ShutBook,
     FromMapBook, RebootBook DEF BookNext

\* A file that can be read keeps its content as long as the owner does not edit the
\* book, whatever the operations of the store do, however they fail, and also if
\* the plans that are loaded ask for saves: only a crash while such a save writes,
\* or a write that fails unseen, takes it away.
THEOREM FileIsKept == BookSpec => []StartKeepsFile
<1>1. BookInit => BookInv /\ Kept
  BY BookBegins
<1>2. (BookInv /\ Kept) /\ [BookNext]_allVars => (BookInv /\ Kept)'
  BY BookGoesOn
<1>3. BookInv /\ Kept => StartKeepsFile
  BY DEF BookInv, Course, Untouched, Kept, Unloaded, Loaded, WriteLost, StartKeepsFile
<1> QED
  BY <1>1, <1>2, <1>3, PTL DEF BookSpec

\* Where edits are followed by save() and no save fails before it opens the file,
\* every edit of a book that was loaded or generated is in the file when the book
\* is shut, unless the write of the last save failed unseen.
THEOREM EditsAreSaved ==
  ASSUME Habit = "save", {"getFrontend", "saveBackend"} \cap CanFail = {}
  PROVE  BookSpec => []EditsSurvive
<1>1. BookInit => BookInv /\ Safe
  BY BookBegins
<1>2. (BookInv /\ Safe) /\ [BookNext]_allVars => (BookInv /\ Safe)'
  BY BookGoesOn DEF SavesEdits
<1>3. BookInv /\ Safe => EditsSurvive
  <2> SUFFICES ASSUME BookInv, Safe, book = "shut", ~active, safe
                  PROVE  file = last \/ WriteLost
    BY DEF EditsSurvive
  <2>1. asking = "no" /\ pc[Worker] = "exited" /\ completed
    BY DEF BookInv, Course, Requested
  <2>2. saving = Nothing
    BY <2>1 DEF BookInv, Course, Basis, InProgress, Runner
  <2>3. Coming /\ last # Nothing
    BY DataAssumption DEF Safe
  <2> QED
    BY <2>1, <2>2, <2>3 DEF Coming
<1> QED
  BY <1>1, <1>2, <1>3, PTL DEF BookSpec

\* Order, Kinds and BookKinds hold of every reachable state of a book.
LEMMA BookOrderHolds == BookSpec => [](BookInv /\ Order /\ Kinds /\ BookKinds)
<1>1. BookInit => BookInv /\ Order /\ Kinds /\ BookKinds
  <2> SUFFICES ASSUME BookInit PROVE BookInv /\ Order /\ Kinds /\ BookKinds
    OBVIOUS
  <2>1. BookInv /\ Order /\ Kinds
    BY BookBegins, OrderBegins DEF BookInit
  <2>2. file \in Content \cup {Torn, NoFile} /\ events = <<>>
    BY <2>1 DEF BookInit, Init, BookInv, Basis, Shape
  <2>3. bell \in 0..Len(events)
    BY <2>2 DEF BookInit
  <2>4. {resave, safe} \subseteq BOOLEAN
    BY Zenon DEF BookInit
  <2>5. found \in Content \cup {Torn, NoFile, Nothing}
    BY <2>2 DEF BookInit
  <2>6. BookKinds
    BY <2>3, <2>4, <2>5 DEF BookKinds
  <2> QED
    BY <2>1, <2>6
<1>2. /\ BookInv /\ Order /\ Kinds /\ BookKinds
      /\ [BookNext]_allVars
      => (BookInv /\ Order /\ Kinds /\ BookKinds)'
  BY BookGoesOn, BookOrder, BookKindsStay
<1> QED
  BY <1>1, <1>2, PTL DEF BookSpec

\* Every variable has its type, and the bell that goes on with activate() is an
\* event that was made.
THEOREM BookTypesHold == BookSpec => []BookTypeOK
<1>1. BookInv /\ Order /\ Kinds /\ BookKinds => BookTypeOK
  BY TypesFollow DEF BookInv, BookKinds, BookTypeOK, Course
<1> QED
  BY <1>1, BookOrderHolds, PTL

\* What a book asks for runs one at a time, each once, in the order it was asked
\* for: also the saves that the worker itself requests in the midst of a load, and
\* although the edits go past the store.
THEOREM BookRunsInOrder == BookSpec => []IssueOrder
<1>1. BookInv /\ Order => IssueOrder
  BY OrderFollows DEF BookInv
<1> QED
  BY <1>1, BookOrderHolds, PTL

-----------------------------------------------------------------------------
(* The callback that ends activate().                                        *)

\* The request whose callback it is will be run, and the callback is added or the
\* main thread is about to add it.
Bell ==
    /\ pc[Main] # "wait"
    /\ book \in {"starting", "stopping"} => bell # 0 \/ (asking = "synchronize" /\ pc[Main] = "idle")
    /\ bell # 0 =>
          /\ events[bell].state # "lost" /\ events[bell].called = 0
          /\ (pc[Main] = "have" /\ cur[Main].id = bell) \/ events[bell].waiting = 1

\* Every step of a book keeps the events where they are, or brings them on.
LEMMA BookPlaces ==
  ASSUME BookInv, BookInv', Order, Kinds, Placed, ToCome, [BookNext]_allVars
  PROVE  Placed' /\ ToCome'
<1>1. Basis /\ Basis' /\ Main \in Users /\ Worker \in Threads /\ ~synchronous
  BY RunnerIsThread DEF BookInv, Course, Users, Clients
<1>2. ASSUME UNCHANGED <<queue, posted, synchronous, events, pc, cur>> PROVE Placed' /\ ToCome'
  <2>1. pc'[Worker] \notin Holding \cup {"idle"}
    BY <1>2 DEF Placed
  <2> QED
    BY <2>1, <1>2, SamePlaces
<1>3. CASE TurnOn \/ Leave
  BY <1>1, <1>3, IdlePlaces DEF TurnOn, Leave
<1>4. CASE TurnOff \/ Clean \/ Edit \/ UNCHANGED allVars
  <2>1. UNCHANGED <<queue, posted, synchronous, events, pc, cur>>
    BY <1>4 DEF TurnOff, Clean, Edit, allVars, vars, control, setup
  <2> QED
    BY <2>1, <1>2
<1>5. CASE Ask
  <2>1. Request(Main, asking) /\ asking \in TypeNames
    BY <1>5 DEF Ask, BookInv, Course, TypeNames
  <2> QED
    BY <1>1, <2>1, EnqueuePlaces, RunInlinePlaces DEF Request
<1>6. CASE Register \/ Ring
  BY <1>1, <1>6, OnFinishedPlaces, CallbacksPlaces DEF Register, Ring
<1>7. CASE Shut
  <2>1. ASSUME NEW type \in Requests(Main), Enqueue(Main, type) PROVE Placed' /\ ToCome'
    BY <1>1, <2>1, UsersRequest, EnqueuePlaces
  <2> QED
    BY <1>1, <1>7, <2>1, IdlePlaces DEF Shut
<1>8. CASE Work
  BY <1>1, <1>8, IdlePlaces, WorkerGetPlaces, OperationPlaces, NotifyPlaces, PostPlaces DEF Work, RunStep
<1>9. CASE FromMap
  <2> DEFINE task == Task("save", Nothing)
             taken == active /\ open = "open"
  <2>1. /\ UNCHANGED <<synchronous, posted, pc, cur>>
        /\ events' = Append(events, NewEvent(taken))
        /\ queue' = IF taken THEN Append(queue, task) ELSE queue
    BY <1>9 DEF FromMap, control, setup
  <2>2. task \in GoodTask /\ task.id = Len(events) + 1 /\ taken \in BOOLEAN
    <3>1. "save" \in TypeNames /\ Nothing \in Payloads("save") /\ events \in Seq(EventSet)
      BY <1>1 DEF TypeNames, Payloads, Basis, Shape
    <3> QED
      BY <3>1, RequestIsGood DEF Task
  <2> HIDE DEF task, taken
  <2>3. /\ pc'[Runner] = pc[Runner] /\ cur'[Runner] = cur[Runner]
        /\ \A u \in Threads : pc'[u] \in Holding =>
               cur'[u].id = Len(events) + 1 \/ (pc[u] \in Holding /\ cur'[u] = cur[u])
    BY <2>1
  <2> QED
    BY <1>1, <2>1, <2>2, <2>3, PutPlaces
<1>10. CASE Reboot
  BY <1>10, RestartPlaces DEF Reboot
<1> QED
  BY <1>3, <1>4, <1>5, <1>6, <1>7, <1>8, <1>9, <1>10 DEF BookNext

\* A step that leaves the main thread and the event of the bell alone.
LEMMA SameBell ==
  ASSUME Bell, UNCHANGED <<bell, book>>, pc'[Main] = pc[Main], cur'[Main] = cur[Main],
         book \in {"starting", "stopping"} /\ bell = 0 => asking' = asking,
         bell # 0 => /\ events[bell].state # "lost" => events'[bell].state # "lost"
                     /\ events'[bell].called = events[bell].called
                     /\ events[bell].waiting = 1 => events'[bell].waiting = 1
  PROVE  Bell'
  BY DEF Bell

\* The events that were made stay what they are when one is added.
LEMMA AddedEvent ==
  ASSUME Basis, NEW run \in BOOLEAN, events' = Append(events, NewEvent(run))
  PROVE  /\ Len(events') = Len(events) + 1 /\ Len(events) \in Nat
         /\ \A e \in 1..Len(events) : events'[e] = events[e]
         /\ events'[Len(events')] = NewEvent(run)
<1> DEFINE new == NewEvent(run)
<1>1. events \in Seq(EventSet) /\ events' = Append(events, new)
  BY DEF Basis, Shape
<1> HIDE DEF new
<1>2. /\ Len(events') = Len(events) + 1 /\ Len(events) \in Nat
      /\ \A e \in 1..Len(events) : events'[e] = events[e]
      /\ events'[Len(events')] = new
  BY <1>1
<1> QED
  BY <1>2 DEF new

\* A request of the book is the one the bell is for, or comes after it.
LEMMA AskBell ==
  ASSUME BookInv, BookKinds, Bell, Ask
  PROVE  Bell'
<1>1. /\ Basis /\ ~synchronous /\ Main \in Threads /\ UNCHANGED book
      /\ bell' = IF book \in {"starting", "stopping"} /\ bell = 0 THEN Len(events) + 1 ELSE bell
  BY RunnerIsThread DEF BookInv, Course, Ask
<1>2. Enqueue(Main, asking)
  BY <1>1 DEF Ask, Request, RunInline
<1> DEFINE run == active /\ open = "open"
<1>3. pc[Main] = "idle" /\ events' = Append(events, NewEvent(run)) /\ Continue(Main)
  BY <1>2 DEF Enqueue
<1>4. /\ Len(events') = Len(events) + 1 /\ Len(events) \in Nat
      /\ \A e \in 1..Len(events) : events'[e] = events[e]
      /\ events'[Len(events')] = NewEvent(run)
  <2>1. run \in BOOLEAN
    OBVIOUS
  <2> HIDE DEF run
  <2> QED
    BY <1>1, <1>3, <2>1, AddedEvent
<1>5. pc'[Main] \in {"idle", "have"}
  BY <1>1, <1>3, ContinueMoves
<1>6. CASE bell # 0
  <2>1. bell' = bell /\ bell \in 1..Len(events) /\ events'[bell] = events[bell]
    BY <1>1, <1>4, <1>6 DEF BookKinds
  <2>2. events[bell].waiting = 1
    BY <1>3, <1>6 DEF Bell
  <2> QED
    BY <2>1, <2>2, <1>5, <1>6 DEF Bell
<1>7. CASE bell = 0 /\ book \in {"starting", "stopping"}
  <2>1. run /\ closing = "no"
    BY <1>7 DEF BookInv, Course
  <2>2. bell' = Len(events') /\ bell' # 0
    BY <1>1, <1>4, <1>7
  <2>3. events'[bell'].state = "pending" /\ events'[bell'].called = 0
    BY <2>1, <2>2, <1>4 DEF NewEvent
  <2>4. Goto(Main, "have")
    BY <2>1, <1>3, OwnerAssumption DEF Continue
  <2>5. pc'[Main] = "have"
    BY <2>4, <1>1 DEF Goto, Basis, Shape
  <2>6. cur'[Main].id = bell'
    BY <2>2, <2>5, <1>1, <1>3, ContinueHas DEF Holding
  <2> QED
    BY <2>2, <2>3, <2>5, <2>6 DEF Bell
<1>8. CASE bell = 0 /\ book \notin {"starting", "stopping"}
  BY <1>1, <1>5, <1>8 DEF Bell
<1> QED
  BY <1>6, <1>7, <1>8

\* The main thread adds the callback, and does not leave its event before; when the
\* bell's callbacks run, activate() goes on.
LEMMA CallbackBell ==
  ASSUME BookInv, Kinds, BookKinds, Bell, Register \/ Leave \/ Ring
  PROVE  Bell'
<1>1. /\ Basis /\ ~synchronous /\ Main \in Threads
      /\ events \in Seq(EventSet) /\ Len(events) \in Nat
      /\ pc \in [Threads -> Places] /\ cur \in [Threads -> GoodTask]
      /\ bell # 0 => bell \in 1..Len(events) /\ events[bell] \in EventSet
  BY RunnerIsThread DEF BookInv, Course, BookKinds, Basis, Shape, TasksOK
<1>2. CASE Register
  <2> DEFINE k == cur[Main].id
             r == [events[k] EXCEPT !.waiting = 1]
  <2>1. /\ UNCHANGED <<pc, cur, bell, book, asking>> /\ events' = [events EXCEPT ![k] = r]
    BY <1>2 DEF Register, OnFinished, bookVars
  <2>2. bell = k /\ bell # 0 => r.state = events[bell].state /\ r.called = events[bell].called /\ r.waiting = 1
    BY <1>1 DEF EventSet
  <2> HIDE DEF k, r
  <2>3. bell # 0 => events'[bell] = IF bell = k THEN r ELSE events[bell]
    BY <1>1, <2>1
  <2>4. bell # 0 => /\ events[bell].state # "lost" => events'[bell].state # "lost"
                    /\ events'[bell].called = events[bell].called
                    /\ events[bell].waiting = 1 => events'[bell].waiting = 1
    BY <2>2, <2>3
  <2> QED
    BY <2>1, <2>4, SameBell
<1>3. CASE Leave
  <2>1. /\ UNCHANGED <<events, bell, book, asking>> /\ pc[Main] = "have"
        /\ events[cur[Main].id].waiting + events[cur[Main].id].called = 1
        /\ Goto(Main, "idle")
    BY <1>3 DEF Leave, Release, bookVars, Bell, Held
  <2>2. pc'[Main] = "idle"
    BY <2>1, <1>1 DEF Goto
  <2>3. bell # 0 => events[bell].waiting = 1
    <3>1. SUFFICES ASSUME bell # 0, cur[Main].id = bell PROVE events[bell].waiting = 1
      BY <2>1 DEF Bell
    <3>2. events[bell].called = 0 /\ events[bell].waiting \in Nat /\ events[bell].called \in Nat
      BY <3>1, <1>1 DEF Bell, EventSet
    <3>3. events[bell].waiting + events[bell].called = 1
      BY <3>1, <2>1
    <3> QED
      BY <3>2, <3>3
  <2>4. book \in {"starting", "stopping"} => bell # 0
    BY <2>1 DEF Bell
  <2> QED
    BY <2>1, <2>2, <2>3, <2>4 DEF Bell
<1>4. CASE Ring
  <2> DEFINE k == Head(posted)
             r == [events[k] EXCEPT !.called = @ + events[k].waiting, !.waiting = 0]
  <2>1. /\ UNCHANGED <<pc, cur, asking>> /\ asking = "no" /\ pc[Main] = "idle"
        /\ events' = [events EXCEPT ![k] = r]
        /\ IF k = bell THEN bell' = 0 /\ book' \in {"on", "shut"} ELSE UNCHANGED <<book, bell>>
    BY <1>4 DEF Ring, RunCallbacks, Free
  <2> HIDE DEF k, r
  <2>2. CASE k = bell
    BY <2>1, <2>2 DEF Bell
  <2>3. CASE k # bell
    <3>1. bell # 0 => events'[bell] = events[bell]
      BY <1>1, <2>1, <2>3
    <3> QED
      BY <2>1, <2>3, <3>1, SameBell
  <2> QED
    BY <2>2, <2>3
<1> QED
  BY <1>2, <1>3, <1>4

\* The worker leaves the main thread alone, and finishes events.
LEMMA WorkBell ==
  ASSUME BookInv, BookKinds, Bell, Work
  PROVE  Bell'
<1>1. /\ Basis /\ ~synchronous /\ Main \in Threads /\ Main # Worker /\ Worker \in Threads
      /\ events \in Seq(EventSet) /\ Len(events) \in Nat
      /\ pc \in [Threads -> Places] /\ cur \in [Threads -> GoodTask]
      /\ bell # 0 => bell \in 1..Len(events) /\ events[bell] \in EventSet
      /\ UNCHANGED <<book, asking, bell>>
  BY RunnerIsThread DEF BookInv, Course, BookKinds, Basis, Shape, TasksOK, Work
<1>2. pc'[Main] = pc[Main] /\ cur'[Main] = cur[Main]
  <2>1. PICK l : Goto(Worker, l)
    BY <1>1 DEF Work, WorkerLoop, WorkerGet, RunStep, Look, Set, Clear, Load, Generate, SaveOpen, SaveWrite,
                Complete, NotifyFinished, Post, AfterRun, Done
  <2>2. UNCHANGED cur \/ \E task : cur' = [cur EXCEPT ![Worker] = task]
    BY DEF Work, WorkerLoop, WorkerGet, RunStep, Look, Set, Clear, Load, Generate, SaveOpen, SaveWrite,
           Complete, NotifyFinished, Post, AfterRun
  <2> QED
    BY <1>1, <2>1, <2>2 DEF Goto
<1>3. CASE NotifyFinished(Worker)
  <2> DEFINE k == cur[Worker].id
             r == [events[k] EXCEPT !.state = "finished"]
  <2>1. events' = [events EXCEPT ![k] = r]
    BY <1>3 DEF NotifyFinished
  <2>2. bell = k /\ bell # 0 => /\ r.state = "finished" /\ r.called = events[bell].called
                                /\ r.waiting = events[bell].waiting
    BY <1>1 DEF EventSet
  <2> HIDE DEF k, r
  <2>3. bell # 0 => events'[bell] = IF bell = k THEN r ELSE events[bell]
    BY <1>1, <2>1
  <2>4. bell # 0 => /\ events[bell].state # "lost" => events'[bell].state # "lost"
                    /\ events'[bell].called = events[bell].called
                    /\ events[bell].waiting = 1 => events'[bell].waiting = 1
    BY <2>2, <2>3
  <2> QED
    BY <1>1, <1>2, <2>4, SameBell
<1>4. CASE ~NotifyFinished(Worker)
  <2>1. UNCHANGED events
    BY <1>4 DEF Work, WorkerLoop, WorkerGet, RunStep, Look, Set, Clear, Load, Generate, SaveOpen, SaveWrite,
                Complete, Post
  <2> QED
    BY <1>1, <1>2, <2>1, SameBell
<1> QED
  BY <1>3, <1>4

\* Every step of a book keeps the bell.
LEMMA BellStays ==
  ASSUME BookInv, Kinds, BookKinds, Bell, [BookNext]_allVars
  PROVE  Bell'
<1>1. /\ Basis /\ ~synchronous /\ Main \in Threads /\ Main # Worker
      /\ pc \in [Threads -> Places] /\ cur \in [Threads -> GoodTask]
      /\ bell # 0 => bell \in 1..Len(events)
  BY RunnerIsThread DEF BookInv, Course, BookKinds, Basis, Shape, TasksOK
<1>2. CASE TurnOn
  <2>1. /\ UNCHANGED <<events, cur, bell>> /\ pc'[Main] = pc[Main] /\ pc[Main] = "idle"
        /\ asking' = "synchronize"
    BY <1>1, <1>2 DEF TurnOn, Activate, Goto
  <2> QED
    BY <2>1 DEF Bell
<1>3. CASE TurnOff
  <2>1. UNCHANGED <<events, cur, bell, pc>> /\ pc[Main] = "idle" /\ asking' = "synchronize"
    BY <1>3 DEF TurnOff, Free, vars
  <2> QED
    BY <2>1 DEF Bell
<1>4. CASE Edit \/ Clean
  <2>1. UNCHANGED <<events, cur, bell, pc, book>> /\ asking = "no"
    BY <1>4 DEF Edit, Clean, Editable, Free, vars
  <2> QED
    BY <2>1, SameBell DEF Bell
<1>5. CASE Shut
  <2>1. book = "shut" /\ UNCHANGED <<bell, book, asking>>
    BY <1>5 DEF Shut, bookVars
  <2>2. CASE Deactivate \/ Join
    <3>1. UNCHANGED <<pc, cur, events>>
      BY <2>2 DEF Deactivate, Join
    <3> QED
      BY <2>1, <3>1, SameBell
  <2>3. ASSUME NEW type, Enqueue(Main, type) PROVE Bell'
    <3> DEFINE run == active /\ open = "open"
    <3>1. pc[Main] = "idle" /\ Continue(Main) /\ events' = Append(events, NewEvent(run)) /\ run \in BOOLEAN
      BY <2>3 DEF Enqueue
    <3> HIDE DEF run
    <3>2. bell # 0 => events'[bell] = events[bell]
      BY <1>1, <3>1, AddedEvent
    <3>3. pc'[Main] \in {"idle", "have"}
      BY <1>1, <3>1, ContinueMoves
    <3> QED
      BY <2>1, <3>1, <3>2, <3>3 DEF Bell
  <2> QED
    BY <1>5, <2>2, <2>3 DEF Shut
<1>6. CASE FromMap
  <2> DEFINE run == active /\ open = "open"
  <2>1. /\ UNCHANGED <<pc, cur, bell, book, asking>> /\ run \in BOOLEAN
        /\ events' = Append(events, NewEvent(run))
    BY <1>6 DEF FromMap
  <2> HIDE DEF run
  <2>2. bell # 0 => events'[bell] = events[bell]
    BY <1>1, <2>1, AddedEvent
  <2> QED
    BY <2>1, <2>2, SameBell
<1>7. CASE Reboot
  <2>1. bell' = 0 /\ book' = "off" /\ pc' = Quiet
    BY <1>7 DEF Reboot, Restart
  <2>2. pc'[Main] = "idle"
    BY <2>1, <1>1 DEF Quiet
  <2> QED
    BY <2>1, <2>2 DEF Bell
<1>8. CASE UNCHANGED allVars
  <2>1. UNCHANGED <<pc, cur, bell, book, asking, events>>
    BY <1>8 DEF allVars, vars, bookVars
  <2> QED
    BY <2>1, SameBell
<1> QED
  BY <1>2, <1>3, <1>4, <1>5, <1>6, <1>7, <1>8, AskBell, CallbackBell, WorkBell DEF BookNext

\* Placed, ToCome and Bell hold of every reachable state of a book.
LEMMA BellHolds == BookSpec => [](Placed /\ ToCome /\ Bell)
<1>1. BookInit => Placed /\ ToCome /\ Bell
  <2> SUFFICES ASSUME BookInit PROVE Placed /\ ToCome /\ Bell
    OBVIOUS
  <2>1. Placed /\ ToCome
    BY PlacesBegin DEF BookInit
  <2>2. bell = 0 /\ book = "off" /\ pc[Main] = "idle"
    BY RunnerIsThread DEF BookInit, Init, Quiet
  <2> QED
    BY <2>1, <2>2 DEF Bell
<1>2. /\ BookInv /\ BookInv' /\ Order /\ Kinds /\ BookKinds /\ Placed /\ ToCome /\ Bell
      /\ [BookNext]_allVars
      => (Placed /\ ToCome /\ Bell)'
  BY BookPlaces, BellStays
<1> QED
  BY <1>1, <1>2, BookOrderHolds, PTL DEF BookSpec

\* A book that starts or stops goes on: the callback it waits for is on an event
\* that is run, and runCallbacks() for it is still to come.
THEOREM BellWillRing == BookSpec => []BellToRing
<1>1. ASSUME BookInv, BookKinds, Placed, ToCome, Bell PROVE BellToRing
  <2>1. SUFFICES ASSUME book \in {"starting", "stopping"}, bell # 0
                 PROVE  /\ bell \in 1..Len(events)
                        /\ events[bell].state # "lost" /\ ToBeCalled(bell)
                        /\ pc[Main] = "idle" => events[bell].waiting = 1
    BY <1>1 DEF BellToRing, Bell
  <2>2. bell \in 1..Len(events) /\ Len(events) \in Nat
    BY <1>1, <2>1 DEF BookKinds, BookInv, Basis, Shape
  <2>3. Wanted(bell)
    BY <1>1, <2>1, OwnerAssumption DEF Bell, Wanted
  <2>4. Calling(bell)
    BY <1>1, <2>1, <2>2, <2>3 DEF Bell, ToCome
  <2>5. ToBeCalled(bell)
    BY <2>4, RunnerIsThread DEF Calling, Going, Queued, ToBeCalled, OnItsWay
  <2> QED
    BY <1>1, <2>1, <2>2, <2>5 DEF Bell
<1> QED
  BY <1>1, BookOrderHolds, BellHolds, PTL
=============================================================================
