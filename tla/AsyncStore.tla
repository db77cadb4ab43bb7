----------------------------- MODULE AsyncStore -----------------------------
(***************************************************************************)
(* The asynchronous key/value persistence of libstore: AsyncStore.hpp, the *)
(* life of one request (ASEvent.hpp) and what the JSON file backend does   *)
(* to the file (JsonAsyncBackend.cpp, File.cpp).                           *)
(*                                                                         *)
(* Threads make events and put them on the transaction queue; one worker   *)
(* runs them; the callbacks of a finished event are posted to the event    *)
(* loop of the main thread.  In synchronous mode the worker leaves at once *)
(* and the calling thread runs the event.  Two version counters decide     *)
(* what synchronize() does.  The queue is the unbounded FIFO of            *)
(* QueuePromise, which ConcurrentQueue is proved to keep.                  *)
(*                                                                         *)
(* The *Sync operations return early on an inactive store; InUse shows     *)
(* that no event runs on one, so the early return is not modelled.         *)
(***************************************************************************)
EXTENDS Integers, Sequences

CONSTANTS
    Main,         \* the thread with the event loop; it activates the store
    Others,       \* other threads that use the store
    Worker,       \* the thread that runs processEvents()
    Data,         \* what a client stores, or the front end generates
    Blank,        \* an empty map, and a file of no bytes
    Torn,         \* a file that ends half-way and does not parse
    NoFile,       \* there is no file
    Nothing,      \* no data, no save in progress
    Types,        \* the requests clients make
    Uses,         \* what clients do with the event they get: "callback", "wait"
    CanFail,      \* the backend, front end and file calls that may fail
    MaxEvents,    \* bound: events made between two restarts
    MaxCrashes,   \* bound: crashes or restarts of the process
    MaxCycles     \* bound: activations between two restarts

ASSUME ThreadAssumption == Main \notin Others /\ Worker \notin Others \cup {Main}
ASSUME DataAssumption ==
    /\ {Blank, Torn, NoFile, Nothing} \cap Data = {}
    /\ Blank \notin {Torn, NoFile, Nothing}
    /\ Torn \notin {NoFile, Nothing}
    /\ NoFile # Nothing
ASSUME RequestAssumption ==
    /\ Types \subseteq {"status", "clear", "get", "set", "load", "save", "generate", "synchronize"}
    /\ Uses \subseteq {"callback", "wait"}
ASSUME BoundsAssumption == {MaxEvents, MaxCrashes, MaxCycles} \subseteq Nat

VARIABLES
    synchronous, \* mSynchronousMode, which is set before activate() or not at all
    active,     \* mConfigureHelper.mIsActive
    cycles,     \* bound: activations so far
    closing,    \* how far the main thread is in activate(false)
    queue,      \* mTransactions, oldest first: number, type and data of an event
    open,       \* mTransactions: not activated yet, open, done for good
    completed,  \* mCompleted
    disk, mem, auto,  \* mDiskCounter, mMemoryCounter, mAutoIncrement
    memory,     \* the content the front end holds
    file,       \* the content of the backend's file
    saving,     \* the content a save is writing to the file it has truncated
    before,     \* history: what the file held before that save
    unseen,     \* history: the file call that failed in the last load or save, unseen
    events,     \* the events made, in order: run yet? callbacks waiting, called
    posted,     \* events whose runCallbacks() is posted to the main thread
    pc, cur,    \* where each thread is, and with which event
    crashes     \* bound: crashes so far

versions == <<disk, mem, auto>>
content == <<memory, file, saving, before, unseen>>
store == <<versions, content>>
setup == <<synchronous, crashes>>
control == <<active, cycles, closing, open, completed, setup>>
vars == <<control, queue, store, events, posted, pc, cur>>

Threads == {Main, Worker} \cup Others
Clients == {Main} \cup Others
\* Nothing protects the store from two callers in synchronous mode, so only one
\* thread uses it then.
Users == IF synchronous THEN {Main} ELSE Clients

\* Outcomes of a call of the backend, the front end or the file.
Outcomes(op) == IF op \in CanFail THEN BOOLEAN ELSE {TRUE}

NoTask == [id |-> 0, type |-> "none", data |-> Nothing]

Quiet == [t \in Threads |-> IF t = Worker THEN "off" ELSE "idle"]

\* A process that starts: nothing in memory, the file as the last one left it.
Init ==
    /\ synchronous \in BOOLEAN
    /\ active = FALSE /\ cycles = 0 /\ closing = "no"
    /\ queue = <<>> /\ open = "new" /\ completed = FALSE
    /\ disk = 0 /\ mem = 0 /\ auto = 0
    /\ memory = Blank /\ saving = Nothing /\ before = Nothing /\ unseen = "none"
    /\ file \in Data \cup {NoFile}
    /\ events = <<>> /\ posted = <<>>
    /\ pc = Quiet /\ cur = [t \in Threads |-> NoTask]
    /\ crashes = 0

Goto(t, l) == pc' = [pc EXCEPT ![t] = l]

-----------------------------------------------------------------------------
(* activate() *)

\* activate(true): a file that exists counts as a version newer than memory.
\* A queue that is done stays done, a store that is completed stays completed.
\* Mutant: an existing file is not counted.
ActivateBlind ==
    /\ pc[Main] = "idle" /\ closing = "no" /\ ~active /\ cycles < MaxCycles
    /\ active' = TRUE
    /\ cycles' = cycles + 1
    /\ open' = IF open = "new" THEN "open" ELSE open
    /\ Goto(Worker, "loop")
    /\ UNCHANGED <<closing, queue, completed, setup, store, events, posted, cur>>
Activate ==
    /\ pc[Main] = "idle"
    /\ closing = "no"
    /\ ~active
    /\ cycles < MaxCycles
    /\ active' = TRUE
    /\ cycles' = cycles + 1
    /\ IF file # NoFile
       THEN auto' = auto + 1 /\ disk' = auto + 1
       ELSE UNCHANGED <<auto, disk>>
    /\ open' = IF open = "new" THEN "open" ELSE open
    /\ Goto(Worker, "loop")
    /\ UNCHANGED <<closing, queue, completed, setup, mem, content, events, posted, cur>>

\* activate(false): request synchronize, then complete, ...
\* Mutant: without the synchronize.
DeactivateRaw ==
    /\ pc[Main] = "idle" /\ closing = "no" /\ active /\ Len(events) + 2 <= MaxEvents
    /\ closing' = "complete"
    /\ UNCHANGED <<active, cycles, open, completed, setup, queue, store, events,
                   posted, pc, cur>>
Deactivate ==
    /\ pc[Main] = "idle"
    /\ closing = "no"
    /\ active
    /\ Len(events) + 2 <= MaxEvents
    /\ closing' = "synchronize"
    /\ UNCHANGED <<active, cycles, open, completed, setup, queue, store, events,
                   posted, pc, cur>>

\* ... and wait for the worker to leave processEvents().
\* Mutant: it goes on when both requests are made.
JoinEarly ==
    /\ pc[Main] = "idle" /\ closing = "join"
    /\ active' = FALSE
    /\ closing' = "no"
    /\ UNCHANGED <<cycles, open, completed, setup, queue, store, events, posted, pc, cur>>
Join ==
    /\ pc[Main] = "idle"
    /\ closing = "join"
    /\ pc[Worker] = "exited"
    /\ active' = FALSE
    /\ closing' = "no"
    /\ UNCHANGED <<cycles, open, completed, setup, queue, store, events, posted, pc, cur>>

-----------------------------------------------------------------------------
(* Requests: status(), clear(), get(), ... and what a thread does with one *)

\* What a thread does when it has made its request: activate(false) goes on
\* with its next step, a client may hold the event it got.
Continue(t) ==
    IF t = Main /\ closing # "no"
    THEN /\ closing' = IF closing = "synchronize" THEN "complete" ELSE "join"
         /\ Goto(t, "idle")
         /\ cur' = [cur EXCEPT ![t] = NoTask]
    ELSE /\ UNCHANGED closing
         /\ IF Uses = {}
            THEN Goto(t, "idle") /\ cur' = [cur EXCEPT ![t] = NoTask]
            ELSE Goto(t, "have") /\ cur' = [cur EXCEPT ![t] = [NoTask EXCEPT !.id = Len(events')]]

\* What a thread can request now: what it likes, or what activate(false) does.
Requests(t) ==
    IF t = Main /\ closing # "no" THEN {closing} \ {"join"} ELSE Types
Payloads(type) == IF type = "set" THEN Data ELSE {Nothing}

\* The event with number id of the request that t makes; nobody will run an
\* event that is made on an inactive store or dropped by a queue that is done.
NewEvent(run) == [state |-> IF run THEN "pending" ELSE "lost", waiting |-> 0, called |-> 0]
Task(type, d) == [id |-> Len(events) + 1, type |-> type, data |-> d]

\* Mutant: the newest event is put where the worker takes the next one.
EnqueueFirst(t, type) ==
    /\ pc[t] = "idle" /\ ~synchronous /\ Len(events) < MaxEvents
    /\ \E d \in Payloads(type) :
          LET taken == active /\ open = "open"
          IN  /\ events' = Append(events, NewEvent(taken))
              /\ queue' = IF taken THEN <<Task(type, d)>> \o queue ELSE queue
    /\ Continue(t)
    /\ UNCHANGED <<active, cycles, open, completed, setup, store, posted>>

\* A request and its enqueueEvent(), with a worker.  The test of active and the
\* put are one step: active is only taken back when the queue is done, and then
\* the put drops the event, so nothing tells the two apart.
Enqueue(t, type) ==
    /\ pc[t] = "idle"
    /\ ~synchronous
    /\ Len(events) < MaxEvents
    /\ \E d \in Payloads(type) :
          LET taken == active /\ open = "open"
          IN  /\ events' = Append(events, NewEvent(taken))
              /\ queue' = IF taken THEN Append(queue, Task(type, d)) ELSE queue
    /\ Continue(t)
    /\ UNCHANGED <<active, cycles, open, completed, setup, store, posted>>

\* A request and its enqueueEvent() in synchronous mode: the caller runs it.
RunInline(t, type) ==
    /\ pc[t] = "idle"
    /\ synchronous
    /\ Len(events) < MaxEvents
    /\ events' = Append(events, NewEvent(active))
    /\ IF active
       THEN /\ \E d \in Payloads(type) : cur' = [cur EXCEPT ![t] = Task(type, d)]
            /\ Goto(t, "exec")
            /\ UNCHANGED closing
       ELSE Continue(t)
    /\ UNCHANGED <<active, cycles, open, completed, setup, queue, store, posted>>

Request(t, type) == Enqueue(t, type) \/ RunInline(t, type)

Held(t) == events[cur[t].id]

\* onFinished(), with at most one callback on an event.
OnFinished(t) ==
    /\ pc[t] = "have"
    /\ "callback" \in Uses
    /\ Held(t).waiting + Held(t).called = 0
    /\ events' = [events EXCEPT ![cur[t].id].waiting = 1]
    /\ UNCHANGED <<control, queue, store, posted, pc, cur>>

\* waitForFinished()
WaitForFinished(t) ==
    /\ pc[t] = "have"
    /\ "wait" \in Uses
    /\ Goto(t, "wait")
    /\ UNCHANGED <<control, queue, store, events, posted, cur>>

\* Mutant: an event counts as finished when its callbacks have run.
ReleaseWhenCalled(t) ==
    /\ pc[t] = "have" \/ (pc[t] = "wait" /\ Held(t).state = "finished"
                             /\ cur[t].id \notin {posted[i] : i \in 1..Len(posted)})
    /\ Goto(t, "idle")
    /\ cur' = [cur EXCEPT ![t] = NoTask]
    /\ UNCHANGED <<control, queue, store, events, posted>>
\* The thread is done with the event, or waitForFinished() returns.
Release(t) ==
    /\ pc[t] = "have" \/ (pc[t] = "wait" /\ Held(t).state = "finished")
    /\ Goto(t, "idle")
    /\ cur' = [cur EXCEPT ![t] = NoTask]
    /\ UNCHANGED <<control, queue, store, events, posted>>

\* The event loop of the main thread runs a posted runCallbacks().
RunCallbacks ==
    /\ pc[Main] = "idle"
    /\ closing = "no"
    /\ posted # <<>>
    /\ posted' = Tail(posted)
    /\ events' = [events EXCEPT ![Head(posted)].called = @ + events[Head(posted)].waiting,
                                ![Head(posted)].waiting = 0]
    /\ UNCHANGED <<control, queue, store, pc, cur>>

-----------------------------------------------------------------------------
(* The worker: processEvents() *)

WorkerLoop ==
    /\ pc[Worker] = "loop"
    /\ Goto(Worker, IF completed \/ synchronous THEN "exited" ELSE "get")
    /\ UNCHANGED <<control, queue, store, events, posted, cur>>

\* get() blocks while the queue is empty and returns a null event when done.
WorkerGet ==
    /\ pc[Worker] = "get"
    /\ \/ /\ open = "done"
          /\ Goto(Worker, "loop")
          /\ UNCHANGED <<queue, cur>>
       \/ /\ open # "done"
          /\ queue # <<>>
          /\ queue' = Tail(queue)
          /\ cur' = [cur EXCEPT ![Worker] = Head(queue)]
          /\ Goto(Worker, "exec")
    /\ UNCHANGED <<control, store, events, posted>>

-----------------------------------------------------------------------------
(* ASEvent::run() and the *Sync operations *)

\* The choice of synchronizeSync() between load, save, generate and nothing.
SyncChoice ==
    IF disk > mem THEN "load"
    ELSE IF disk < mem THEN "save"
    ELSE IF disk = 0 THEN "bootstrap" ELSE "none"

\* The operation the thread is to carry out; at "save" the second half of the
\* bootstrap.
Operation(t) ==
    IF pc[t] = "save" THEN "save"
    ELSE IF pc[t] # "exec" THEN "idle"
    ELSE IF cur[t].type = "synchronize" THEN SyncChoice
    ELSE cur[t].type

Done(t) == Goto(t, "notify")

\* status(), getSync(), and synchronizeSync() with nothing to do.
Look(t) ==
    /\ Operation(t) \in {"status", "get", "none"}
    /\ Done(t)
    /\ UNCHANGED <<control, queue, store, events, posted, cur>>

\* setSync()
\* Mutant: the version is the successor of the memory's own.
SetFromMem(t) ==
    /\ Operation(t) = "set"
    /\ Done(t)
    /\ \E ok \in Outcomes("setFrontend") :
          IF ok THEN memory' = cur[t].data /\ mem' = mem + 1 ELSE UNCHANGED <<memory, mem>>
    /\ UNCHANGED <<control, queue, auto, disk, file, saving, before, unseen, events, posted, cur>>
Set(t) ==
    /\ Operation(t) = "set"
    /\ Done(t)
    /\ \E ok \in Outcomes("setFrontend") :
          IF ok
          THEN memory' = cur[t].data /\ auto' = auto + 1 /\ mem' = auto + 1
          ELSE UNCHANGED <<memory, auto, mem>>
    /\ UNCHANGED <<control, queue, disk, file, saving, before, unseen, events, posted, cur>>

\* clearSync(): backend and front end fail independently.
Clear(t) ==
    /\ Operation(t) = "clear"
    /\ Done(t)
    /\ \E b \in Outcomes("clearBackend"), f \in Outcomes("clearFrontend") :
          /\ IF b THEN file' = NoFile /\ disk' = 0 ELSE UNCHANGED <<file, disk>>
          /\ IF f THEN memory' = Blank /\ mem' = 0 ELSE UNCHANGED <<memory, mem>>
    /\ UNCHANGED <<control, queue, auto, saving, before, unseen, events, posted, cur>>

\* What a load reads.  A file that exists and cannot be opened reads as no bytes
\* (fileToByteArray), which counts as an empty map; a torn one does not parse.
Read(ok) == IF ok THEN file ELSE Blank
Loadable(ok) == file # NoFile /\ Read(ok) # Torn

\* loadSync()
\* Mutant: a failed load counts as a version all the same.
LoadCounts(t) ==
    /\ Operation(t) = "load"
    /\ Done(t)
    /\ \E b \in Outcomes("loadBackend"), f \in Outcomes("setFrontend"), r \in Outcomes("fileRead") :
          /\ IF b /\ f /\ Loadable(r)
             THEN memory' = Read(r) /\ unseen' = IF r THEN "none" ELSE "fileRead"
             ELSE UNCHANGED <<memory, unseen>>
          /\ mem' = disk
    /\ UNCHANGED <<control, queue, auto, disk, file, saving, before, events, posted, cur>>
Load(t) ==
    /\ Operation(t) = "load"
    /\ Done(t)
    /\ \E b \in Outcomes("loadBackend"), f \in Outcomes("setFrontend"), r \in Outcomes("fileRead") :
          IF b /\ f /\ Loadable(r)
          THEN memory' = Read(r) /\ mem' = disk /\ unseen' = IF r THEN "none" ELSE "fileRead"
          ELSE UNCHANGED <<memory, mem, unseen>>
    /\ UNCHANGED <<control, queue, auto, disk, file, saving, before, events, posted, cur>>

\* generateSync(), by itself or as the first half of the bootstrap.
Generate(t) ==
    /\ Operation(t) \in {"generate", "bootstrap"}
    /\ \/ /\ memory' \in Data
          /\ auto' = auto + 1
          /\ mem' = auto + 1
          /\ Goto(t, IF Operation(t) = "generate" THEN "notify" ELSE "save")
       \/ /\ "generateFrontend" \in CanFail
          /\ Done(t)
          /\ UNCHANGED <<memory, auto, mem>>
    /\ UNCHANGED <<control, queue, disk, file, saving, before, unseen, events, posted, cur>>

\* saveSync() up to the opening of the file, which truncates it.
SaveOpen(t) ==
    /\ Operation(t) = "save"
    /\ \/ /\ saving' = memory
          /\ before' = file
          /\ file' = Blank
          /\ Goto(t, "write")
       \/ /\ {"getFrontend", "saveBackend"} \cap CanFail # {}
          /\ Done(t)
          /\ UNCHANGED <<saving, before, file>>
    /\ UNCHANGED <<control, queue, versions, memory, unseen, events, posted, cur>>

\* stringToFile() writes the text into the file it has opened.  It does not look
\* at what came of it: a disk that is full leaves nothing, or a part.
WriteFile ==
    \/ file' = saving /\ unseen' = "none"
    \/ "fileWrite" \in CanFail /\ file' \in {Blank, Torn} /\ unseen' = "fileWrite"

\* The rest of saveSync(): write the text, count the version.
\* Mutant: the version on disk is counted as a new one.
SaveWriteAnew(t) ==
    /\ pc[t] = "write"
    /\ WriteFile
    /\ saving' = Nothing
    /\ before' = Nothing
    /\ auto' = auto + 1
    /\ disk' = auto + 1
    /\ Done(t)
    /\ UNCHANGED <<control, queue, mem, memory, events, posted, cur>>
SaveWrite(t) ==
    /\ pc[t] = "write"
    /\ WriteFile
    /\ saving' = Nothing
    /\ before' = Nothing
    /\ disk' = mem
    /\ Done(t)
    /\ UNCHANGED <<control, queue, mem, auto, memory, events, posted, cur>>

\* completeSync(): the worker is to stop; what is still queued stays there.
\* Mutant: the queue is shut but the worker is not told.
CompleteQueueOnly(t) ==
    /\ Operation(t) = "complete"
    /\ open' = "done"
    /\ Done(t)
    /\ UNCHANGED <<active, cycles, closing, completed, setup, queue, store, events, posted, cur>>
Complete(t) ==
    /\ Operation(t) = "complete"
    /\ completed' = TRUE
    /\ open' = "done"
    /\ Done(t)
    /\ UNCHANGED <<active, cycles, closing, setup, queue, store, events, posted, cur>>

\* notifyFinished()
NotifyFinished(t) ==
    /\ pc[t] = "notify"
    /\ events' = [events EXCEPT ![cur[t].id].state = "finished"]
    /\ Goto(t, "post")
    /\ UNCHANGED <<control, queue, store, posted, cur>>

\* After run() the worker loops and a caller goes on.
AfterRun(t) ==
    IF t = Worker
    THEN Goto(t, "loop") /\ cur' = [cur EXCEPT ![t] = NoTask] /\ UNCHANGED closing
    ELSE Continue(t)

\* Mutant: the thread that ran the event runs its callbacks itself.
PostDirect(t) ==
    /\ pc[t] = "post"
    /\ events' = [events EXCEPT ![cur[t].id].called = @ + events[cur[t].id].waiting,
                                ![cur[t].id].waiting = 0]
    /\ AfterRun(t)
    /\ UNCHANGED <<active, cycles, open, completed, setup, queue, store, posted>>
\* runCallbacksForEvent() posts to the main thread.  Where no client registers a
\* callback the posted call does nothing and is left out.
Post(t) ==
    /\ pc[t] = "post"
    /\ posted' = IF "callback" \in Uses THEN Append(posted, cur[t].id) ELSE posted
    /\ UNCHANGED events
    /\ AfterRun(t)
    /\ UNCHANGED <<active, cycles, open, completed, setup, queue, store>>

-----------------------------------------------------------------------------

\* The process dies or ends and is started again.  A save in progress leaves
\* an empty file, a part of the text, or all of it.
Restart ==
    /\ crashes < MaxCrashes
    /\ crashes' = crashes + 1
    /\ file' \in IF saving = Nothing THEN {file} ELSE {Blank, Torn, saving}
    /\ UNCHANGED synchronous
    /\ active' = FALSE /\ cycles' = 0 /\ closing' = "no"
    /\ queue' = <<>> /\ open' = "new" /\ completed' = FALSE
    /\ disk' = 0 /\ mem' = 0 /\ auto' = 0
    /\ memory' = Blank /\ saving' = Nothing /\ before' = Nothing /\ unseen' = "none"
    /\ events' = <<>> /\ posted' = <<>>
    /\ pc' = Quiet /\ cur' = [t \in Threads |-> NoTask]

-----------------------------------------------------------------------------

\* One step of running an event.
RunStep(t) ==
    \/ Look(t) \/ Set(t) \/ Clear(t) \/ Load(t) \/ Generate(t)
    \/ SaveOpen(t) \/ SaveWrite(t) \/ Complete(t)
    \/ NotifyFinished(t) \/ Post(t)

\* A call that a thread has begun goes on.
CallStep(t) ==
    \/ Release(t)
    \/ t = Main /\ closing # "no" /\ \E type \in Requests(t) : Request(t, type)

Next ==
    \/ Activate \/ Deactivate \/ Join \/ RunCallbacks \/ Restart
    \/ \E t \in Users :
          \/ \E type \in Requests(t) : Request(t, type)
          \/ OnFinished(t) \/ WaitForFinished(t) \/ Release(t)
    \/ WorkerLoop \/ WorkerGet
    \/ \E t \in Threads : RunStep(t)

Spec == Init /\ [][Next]_vars

\* The worker and a thread inside a call keep running, the event loop runs what
\* is posted to it.  Nobody has to make a request.
Fairness ==
    /\ WF_vars(WorkerLoop \/ WorkerGet \/ RunStep(Worker))
    /\ \A t \in Clients : WF_vars(RunStep(t)) /\ WF_vars(CallStep(t))
    /\ WF_vars(Join)
    /\ WF_vars(RunCallbacks)

FairSpec == Spec /\ Fairness

-----------------------------------------------------------------------------
(* What the store promises about one memory and one file: see StorePromise.  *)
(* A version counter stands for two things only, whether its side holds      *)
(* anything and whether the file is behind; a save happens when it is        *)
(* complete.                                                                 *)

Running == {t \in Threads : pc[t] \in {"exec", "save", "write"}}

\* What is carried out, with what, and the file as it was before.
Doing == IF Running = {} THEN "nothing" ELSE cur[CHOOSE t \in Running : TRUE].type
With == IF Running = {} THEN Nothing ELSE cur[CHOOSE t \in Running : TRUE].data
Saved == IF saving = Nothing THEN file ELSE before

Promise == INSTANCE StorePromise WITH
    doing <- Doing,
    with <- With,
    file <- Saved,
    held  <- mem # 0,
    kept  <- disk # 0,
    behind <- disk # 0 /\ disk < mem

\* The store is an implementation of that promise.
KeepsPromise == Promise!Spec

-----------------------------------------------------------------------------
(* Properties *)

Content == Data \cup {Blank}
Busy == {"exec", "save", "write", "notify", "post"}

\* Every variable has its type.
TypeOK ==
    /\ {synchronous, active, completed} \subseteq BOOLEAN
    /\ closing \in {"no", "synchronize", "complete", "join"}
    /\ open \in {"new", "open", "done"}
    /\ \A n \in {cycles, crashes, disk, mem, auto} : n \in Nat
    /\ memory \in Content
    /\ file \in Content \cup {Torn, NoFile}
    /\ saving \in Content \cup {Nothing}
    /\ before \in Content \cup {Torn, NoFile, Nothing}
    /\ unseen \in {"none", "fileRead", "fileWrite"}
    /\ events \in Seq([state : {"pending", "finished", "lost"}, waiting : 0..1, called : 0..1])
    /\ \A i \in 1..Len(queue) : queue[i].id \in 1..Len(events)
    /\ posted \in Seq(1..Len(events))
    /\ pc \in [Threads -> {"idle", "have", "wait", "off", "loop", "get", "exited"} \cup Busy]
    /\ \A t \in Threads : cur[t].id \in 0..Len(events)

\* When the counters agree on a version, memory and file hold the same: no
\* order of sets, loads, saves, clears and failures makes synchronize() skip
\* a save or a load that was needed.  The exception is a failure of the file that
\* the last load or save did not see, and then it is one side only that is empty
\* or torn, until the next load or save.
CountersHonest ==
    disk = mem /\ disk # 0 /\ saving = Nothing =>
        \/ file = memory
        \/ unseen = "fileWrite" /\ file \in {Blank, Torn}
        \/ unseen = "fileRead" /\ memory = Blank

\* What synchronize() takes equal counters to mean: there is nothing to do.
EqualMeansSame == disk = mem /\ disk # 0 /\ saving = Nothing => file = memory

\* A version on disk is newer than the one in memory only when memory holds
\* none: the load of synchronize() never overwrites what a client has set.
LoadNeverDiscards == disk > mem => mem = 0

\* No event runs on an inactive store, and a save in progress belongs to a
\* thread that runs an event: Join waits until the worker is out.
InUse ==
    /\ (\E t \in Threads : pc[t] \in Busy) => active
    /\ saving # Nothing <=> \E t \in Threads : pc[t] = "write"

\* Events run one at a time, each once, in the order they were made.
IssueOrder ==
    /\ \A i, j \in 1..Len(queue) : i < j => queue[i].id < queue[j].id
    /\ \A i \in 1..Len(queue) :
          /\ events[queue[i].id].state = "pending"
          /\ \A t \in Threads : pc[t] \in Busy => cur[t].id < queue[i].id
          /\ \A e \in queue[i].id..Len(events) : events[e].state # "finished"

\* When the activate(false) of the only client is over and nothing failed, the
\* file holds what memory holds.  (A client beside the main thread may still get
\* a set between the last synchronize and the end.)
OrderlyShutdown ==
    (CanFail = {} /\ Others = {} /\ cycles = 1 /\ ~active /\ mem # 0) => file = memory

\* A thread waits for an event that nobody will run: there is no way out of
\* waitForFinished() then.
Stuck(t) == pc[t] = "wait" /\ Held(t).state = "lost"

\* A callback that the main thread registers on an event that is run is called,
\* unless the main thread gets stuck: runCallbacks() cannot overtake
\* onFinished(), both happen in the main thread.
CallbackCalled ==
    \A i \in 1..MaxEvents :
        (i <= Len(events) /\ events[i].waiting = 1 /\ events[i].state # "lost")
            ~> (Stuck(Main) \/ (i <= Len(events) /\ events[i].called = 1))

\* A thread that waits for its event goes on, unless it is stuck.
WaitReturns == \A t \in Clients : pc[t] = "wait" ~> pc[t] # "wait" \/ Stuck(t)

\* activate(false) returns.
DeactivateReturns == closing # "no" ~> closing = "no"

\* A request that an active store accepts is carried out.
RequestServed ==
    \A i \in 1..MaxEvents :
        (active /\ i = Len(events)) ~> (i <= Len(events) /\ events[i].state = "finished")
-----------------------------------------------------------------------------
(* What has to be so at any moment for the answers above to come.  *)

\* An event is on its way: it waits in the queue, or it is being run.
OnItsWay(i) ==
    \/ \E k \in 1..Len(queue) : queue[k].id = i
    \/ \E t \in Threads : pc[t] \in Busy /\ cur[t].id = i

\* No request is forgotten: what the store accepted and has not run is on its way.
NoneForgotten ==
    \A i \in 1..Len(events) : events[i].state = "pending" => OnItsWay(i)

\* The callbacks of an event are still to be called.
ToBeCalled(i) == OnItsWay(i) \/ \E k \in 1..Len(posted) : posted[k] = i

\* The main thread may add a callback to an event as long as it holds it, or it
\* has added one.
Wanted(i) ==
    \/ "callback" \in Uses /\ pc[Main] \in {"have", "wait"} /\ cur[Main].id = i
    \/ Others = {} /\ events[i].waiting = 1

\* The callbacks it adds to an event that is run are still to be called, so
\* that runCallbacks() never overtakes its onFinished().
CallbackToCome ==
    \A i \in 1..Len(events) : Wanted(i) /\ events[i].state # "lost" => ToBeCalled(i)

\* The worker can go on, and has not been told to stop.
Alive == pc[Worker] \in {"loop", "get"} \cup Busy /\ ~completed /\ open = "open"

\* What is in the queue has a worker, if no other thread makes a request after
\* the one that stops the worker.
QueueServed == Others = {} /\ queue # <<>> => Alive

\* So nothing is left behind by activate(false).
NothingLeft == Others = {} /\ ~active => \A i \in 1..Len(events) : events[i].state # "pending"

\* activate(false) waits for a worker that leaves, or that has still to be told.
JoinServed ==
    closing = "join" /\ ~synchronous /\ pc[Worker] # "exited" =>
        \/ completed /\ open = "done" /\ pc[Worker] \in {"loop", "get", "notify", "post"}
        \/ /\ Alive
           /\ \/ \E k \in 1..Len(queue) : queue[k].type = "complete"
              \/ pc[Worker] = "exec" /\ cur[Worker].type = "complete"
=============================================================================
