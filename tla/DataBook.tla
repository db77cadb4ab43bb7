------------------------------ MODULE DataBook ------------------------------
(***************************************************************************)
(* A book of the application on top of AsyncStore: SimpleDataStore         *)
(* (SimpleDataStore.hpp/.cpp) with a front end that its owner edits in     *)
(* place, like PlanBook and AddressBook.                                   *)
(*                                                                         *)
(* An edit changes the content in memory directly, past the store and its  *)
(* version counters, and then makes a request so that the store writes it: *)
(* PlanBook::upsertPlan, removePlan and setDefaultPlan call save(),        *)
(* AddressBook::removeAssociate calls synchronize().  PlanBook::fromMap()  *)
(* uses upsertPlan() too: the worker that loads the book requests that it  *)
(* be saved.  Everything else here runs in the main thread, beside the     *)
(* worker.                                                                 *)
(***************************************************************************)
EXTENDS AsyncStore

CONSTANT Habit   \* what an edit requests: "save" or "synchronize"

ASSUME HabitAssumption == Habit \in {"save", "synchronize"}
ASSUME OwnerAssumption == Others = {} /\ Uses = {"callback"}

VARIABLES
    book,     \* off, starting, on, stopping, shut: SimpleDataStore::activate()
    asking,   \* the request the main thread is about to make
    bell,     \* the event whose callback goes on with activate()
    resave,   \* the load that is running has put plans into the book
    found,    \* history: what the file held when the process began, until a clear
    last,     \* history: what the owner made of the book since the process began
    safe      \* history: it did so after the book was loaded or generated

seen == <<found, last, safe>>
bookVars == <<book, asking, bell, resave, seen>>
allVars == <<vars, bookVars>>

BookInit ==
    /\ Init
    /\ ~synchronous
    /\ book = "off"
    /\ asking = "no"
    /\ bell = 0
    /\ resave = FALSE
    /\ found = file
    /\ last = Nothing
    /\ safe = FALSE

\* The main thread is free to run something else.
Free == pc[Main] = "idle" /\ asking = "no" /\ closing = "no"

\* activate(true): activate the store, then synchronize() with the callback.
TurnOn ==
    /\ Free
    /\ book = "off" /\ cycles = 0
    /\ Activate
    /\ book' = "starting"
    /\ asking' = "synchronize"
    /\ UNCHANGED <<bell, resave, seen>>

\* activate(false): synchronize() with a callback that goes on.
TurnOff ==
    /\ Free
    /\ book = "on"
    /\ book' = "stopping"
    /\ asking' = "synchronize"
    /\ UNCHANGED <<vars, bell, resave, seen>>

\* The book counts as active from activate(true) to the end of activate(false).
\* Four more events may be needed to start and stop it.
Editable ==
    /\ Free
    /\ book \in {"starting", "on", "stopping"}
    /\ Len(events) + 5 <= MaxEvents

\* The owner changes the content.
\* Mutant: no request follows the change.
EditQuietly ==
    /\ Editable
    /\ memory' \in Data \ {memory}
    /\ last' = memory'
    /\ safe' = (book # "starting" /\ mem # 0 /\ found # Nothing)
    /\ UNCHANGED <<control, queue, versions, file, saving, before, unseen, events, posted, pc, cur,
                   book, asking, bell, resave, found>>
Edit ==
    /\ Editable
    /\ memory' \in Data \ {memory}
    /\ last' = memory'
    /\ safe' = (book # "starting" /\ mem # 0 /\ found # Nothing)
    /\ asking' = Habit
    /\ UNCHANGED <<control, queue, versions, file, saving, before, unseen, events, posted, pc, cur,
                   book, bell, resave, found>>

\* clear(), of every book when the node is unborn.
Clean ==
    /\ Editable
    /\ book # "starting"
    /\ asking' = "clear"
    /\ found' = Nothing
    /\ last' = Nothing
    /\ safe' = FALSE
    /\ UNCHANGED <<vars, book, bell, resave>>

\* SimpleDataStore::synchronize(), save() and clear(): make the request ...
Ask ==
    /\ asking # "no"
    /\ Request(Main, asking)
    /\ bell' = IF book \in {"starting", "stopping"} /\ bell = 0 THEN Len(events) + 1 ELSE bell
    /\ asking' = "no"
    /\ UNCHANGED <<book, resave, seen>>

\* ... and register the callback.
Register == OnFinished(Main) /\ UNCHANGED bookVars

Leave ==
    /\ pc[Main] = "have" => Held(Main).waiting + Held(Main).called = 1
    /\ Release(Main)
    /\ UNCHANGED bookVars

\* The callback of the first synchronize() ends activate(true), the callback of
\* the second goes on with the store's activate(false); failed or not.
Ring ==
    /\ Free
    /\ RunCallbacks
    /\ IF Head(posted) = bell
       THEN /\ book' = IF book = "starting" THEN "on" ELSE "shut"
            /\ bell' = 0
       ELSE UNCHANGED <<book, bell>>
    /\ UNCHANGED <<asking, resave, seen>>

\* The store's activate(false) runs to its end within that callback.
Shut ==
    /\ book = "shut"
    /\ \/ active /\ Deactivate
       \/ closing # "no" /\ \E type \in Requests(Main) : Enqueue(Main, type)
       \/ Join
    /\ UNCHANGED bookVars

\* A step of the worker.  A PlanBook that is loaded may have got plans.
LoadsPlans ==
    Habit = "save" /\ Operation(Worker) = "load" /\ mem' = disk /\ memory' \in Data
Work ==
    /\ ~resave
    /\ WorkerLoop \/ WorkerGet \/ RunStep(Worker)
    /\ resave' \in IF LoadsPlans THEN BOOLEAN ELSE {FALSE}
    /\ UNCHANGED <<book, asking, bell, seen>>

\* fromMap(): each plan that is read is upserted, which requests a save, before
\* the load is over.
FromMap ==
    /\ resave
    /\ resave' \in IF Len(events) + 6 <= MaxEvents THEN BOOLEAN ELSE {FALSE}
    /\ LET taken == active /\ open = "open"
       IN  /\ events' = Append(events, NewEvent(taken))
           /\ queue' = IF taken THEN Append(queue, Task("save", Nothing)) ELSE queue
    /\ UNCHANGED <<control, store, posted, pc, cur, book, asking, bell, seen>>

\* The process dies and starts again.
Reboot ==
    /\ Restart
    /\ book' = "off"
    /\ asking' = "no"
    /\ bell' = 0
    /\ resave' = FALSE
    /\ found' = file'
    /\ last' = Nothing
    /\ safe' = FALSE

BookNext ==
    \/ TurnOn \/ TurnOff \/ Edit \/ Clean \/ Ask \/ Register \/ Leave \/ Ring \/ Shut
    \/ Work \/ FromMap \/ Reboot

BookSpec == BookInit /\ [][BookNext]_allVars

\* The worker runs, and so does the main thread once it has something to do.
BookFairness ==
    /\ WF_allVars(Work \/ FromMap)
    /\ WF_allVars(Ask \/ Leave)
    /\ WF_allVars(Register)
    /\ WF_allVars(Ring)
    /\ WF_allVars(Shut)

FairBookSpec == BookSpec /\ BookFairness

-----------------------------------------------------------------------------
(* Properties *)

\* Every variable has its type.
BookTypeOK ==
    /\ TypeOK
    /\ book \in {"off", "starting", "on", "stopping", "shut"}
    /\ asking \in {"no", "save", "synchronize", "clear"}
    /\ bell \in 0..Len(events)
    /\ {resave, safe} \subseteq BOOLEAN
    /\ found \in Content \cup {Torn, NoFile, Nothing}
    /\ last \in Data \cup {Nothing}

\* The last save was one whose write failed, unseen.
WriteLost == unseen = "fileWrite" /\ file \in {Blank, Torn}

\* When the book is shut, the file holds what its owner made of it: every edit
\* after the book was loaded or generated counts, also one that came while
\* activate(false) was waiting for its callback, and also one that overtook the
\* saves of the load.  All that can take it is the last save of all, when its
\* write fails unseen.
EditsSurvive == book = "shut" /\ ~active /\ safe => file = last \/ WriteLost

\* A file that can be read keeps its content as long as the owner does not edit
\* the book: loading it, failing to load it, taking it for empty, and writing it
\* again because it was loaded.  Only that writing can take it away, when the
\* process dies during it or when it fails unseen.
StartKeepsFile ==
    found \in Content /\ last = Nothing => file = found \/ saving = found \/ WriteLost

\* The same of a process that does not die: what is not edited is not lost.
UneditedFileStays ==
    found \in Content /\ last = Nothing => file = found \/ saving = found

\* The callback that ends activate(true) or activate(false) comes: it is on an
\* event that is run and whose callbacks are still to be called, or the main
\* thread is about to put it there.
BellToRing ==
    book \in {"starting", "stopping"} =>
        \/ bell = 0 /\ asking = "synchronize" /\ pc[Main] = "idle"
        \/ /\ bell \in 1..Len(events)
           /\ events[bell].state # "lost" /\ ToBeCalled(bell)
           /\ pc[Main] = "idle" => events[bell].waiting = 1

\* activate(true) calls back, and so does activate(false), unless the process dies.
StartsUp == book = "starting" ~> book \in {"on", "off"}
ShutsDown == book = "stopping" ~> ~active

\* "Save, load or bootstrap data depending on wether memory or disk is newest"
\* (AsyncStore.hpp:188): an edit that is followed by synchronize() gets to the
\* file.
SynchronizeSaves == EditsSurvive

\* The same of an edit to a book that was cleared, or whose file could not be
\* loaded: memory is newer than disk.
UnloadedEditsSurvive == book = "shut" /\ ~active /\ last # Nothing => file = last
=============================================================================
