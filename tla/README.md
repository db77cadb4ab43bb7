# TLA+ models of OctoMY

OctoMY is robot software in C++ and Qt: *agents* (robots), *remotes* and *hubs* are
all *nodes* that find each other, exchange keys and then talk over UDP. This
directory holds TLA+ modules for the parts of it whose correctness depends on the
order in which things happen, TLC configurations that check them on small
instances, and proofs, checked by TLAPS, of what holds on every instance.

All paths below are relative to `src/src/libs/` of the repository.

* [1. The system](#1-the-system): the parts, and what is hard about each
* [2. The modules](#2-the-modules): how state and actions correspond to the code
* [3. The runs](#3-the-runs): bounds, fairness, results
* [4. What the models found](#4-what-the-models-found)
* [5. What is proved](#5-what-is-proved)
* [6. What is not modelled](#6-what-is-not-modelled)
* [7. The plan](#7-the-plan)
* [8. Running it](#8-running-it)

## 1. The system

A `Node` (libnode) owns everything: key store, local identity, address book, plan
book, discovery, communications, and a service level manager that starts and stops
them. Nearly all of it runs in the main thread, in callbacks of Qt's event loop;
the exceptions are the workers of the data stores. Hence two kinds of concurrency:
threads (queue, stores) and, everywhere else, callbacks that come later and find
other state than the one they were created in.

```
            Node ----- ServiceLevelManager --> ServiceManager --> Service wrappers
             |                                                      | start, stop
             |        +---------------------------------------------+
             v        v
   KeyStore   LocalIdentityStore   AddressBook   PlanBook     DiscoveryClient    Comms
       |            |    SimpleDataStore |          |            | associates       |
       +-----------AsyncStore <----------+----------+            v             CommsChannel
                     |   worker                              AddressBook        |   |    |
              ConcurrentQueue   JsonAsyncBackend --> file              couriers   sessions  carrier --> network
                                                     (blobs, sync parameters)   (handshake)
```

### Inventory

| Component | State | Operations | Interacts with | What is hard | Correct means |
|---|---|---|---|---|---|
| `ConcurrentQueue`, `TaskQueue` (libutil) | list, capacity, done flag, two wait conditions, mutex, activation flag | put, get with a time limit, tryGet, activate, count, runOne | any threads; AsyncStore's callers and worker | flags read outside the mutex, lost wake-ups, overrun of the capacity | items leave once and in order; nobody sleeps beside work; the capacity holds; calls return |
| `AsyncStore`, `ASEvent`, `JsonAsyncBackend` (libstore) | event queue, two version counters and their source, completed flag, front end content, file | status, clear, get, set, load, save, generate, synchronize, complete, activate; onFinished, waitForFinished on an event | calling threads, one worker, the main event loop, the file system | counters that several requests move and that failures leave behind; a crash inside a save; reads and writes whose failure nobody notices; callbacks that race completion; shutting down | equal counters mean equal content unless the file failed unnoticed; loading discards nothing; every event is run once, in order; callbacks and waits end; a shut store has saved |
| `SimpleDataStore`, `PlanBook`, `AddressBook`, `LocalIdentityStore`, `AgentConfigStore` | content edited in place, activation | activate with callback, edits, save, synchronize, clear, load | AsyncStore | edits behind the back of the counters, an activation that ends in a callback | an edit that was requested to be stored is in the file after shutdown; a book that is on is loaded |
| `KeyStore`, `Key` (libsec) | own key, keys of associates, cache and dirty flag | as above, setPubKeyForID, sign, verify | AsyncStore, DiscoveryClient, CommsChannel | the same, and a cache | the same, and the cache is never stale |
| `ServiceManager`, `ServiceLevelManager`, `Service` (libservice) | services with wanted and actual activation, levels enabled, running calls | enableLevel, changeActivation, register, unregister | service wrappers that answer through callbacks, at once, later, or never | rounds driven by callbacks, overlapping calls, failures, dependencies both ways | dependencies start first; what is needed stays on; what is not needed stops; calls return |
| Handshake: `CommsChannel`, `HandshakeState`, `CommsSession`, `IDDuel` (libcomms) | sessions, pending handshakes; per session role, step, nonces, ids | sendingOpportunity, rescheduleSending, receive of SYN, SYN-ACK, ACK | carrier, session directory, key store, address book, couriers | simultaneous start, loss, duplicates, late datagrams, restarts, role changes | opposite roles in the end; nonces and ids belong together; replies answer real offers; both sides established |
| `CommsSessionDirectory` | three indices and the set of sessions | create, insert, remove, find, prune, generate an unused id | CommsChannel, Comms | the indices drifting apart, refused insertions | every session is found under all its names |
| `ReliabilitySystem`, `FlowControl` | sequence numbers, four packet queues, mode and penalties | packetSent, packetReceived, generateAckBits, processAck, update | CommsSession | nothing yet: only packetSent() and update() are compiled in (`USE_RELIBABILITY_SYSTEM` is defined nowhere) and nobody reads their results | an ack is only for a packet that arrived |
| `BlobCourier`, `Blob` | per blob sent: chunks sent and acknowledged, two indices, name acknowledged; per blob received: chunks received; ids and names on both sides; acknowledgements owed | submitSendingBlob, sendingOpportunity, dataReceived | CommsChannel | fields without tags, loss of data or of acknowledgements, resending, ids chosen by the sender | no chunk is claimed that was not sent; done means complete at the other end; a transfer ends |
| `SyncContext`, `SyncParameter` | per parameter a local and a remote value with time stamps, two needs and two bits taken from them; a clock | setLocalValue, update, send, receive, bestValue, forceSync | AgentStateCourier | acknowledgements without a version, a clock that the peer overwrites, changes between update and send | a value that was acknowledged is shown; no value comes back as a change; the ends come to rest |
| Other couriers, `CourierSet` | a mandate: size, priority, due time | mandate, sendingOpportunity, dataReceived | CommsChannel | one that is due for ever | everyone gets a turn |
| `Comms` | channel, key store, address book, couriers | configure, activate, createSession, registerCourier | Node, CommsChannel | unfinished refactoring (section 6) | |
| Carriers (UDP, local) | socket, timer, connection status | start, stop, writeData, sending opportunities | operating system | time-outs, addresses | |
| `ConfigureHelper` | configured, active | configure, activate | most classes | refused calls whose result callers ignore | |
| Discovery, pairing, Zoo, `Associate` (libpair, libzoo) | client: a timer, associates and their addresses; server: sessions by pin, members with address and time | activate, discover, registerPossibleAssociate; request, set, prune | Zoo over HTTP, AddressBook, KeyStore, Comms | members thrown out while they ask, sessions found by one pin and opened by another, answers after deactivation or cut off | nodes that share pins meet; a newer address stays; nobody outstays a prune |
| `HoneymoonScheduler` | four durations, a trigger time | trigger, reset, currentValue | discovery, session creation | boundaries of the decay | requests are frequent after an activation and rare later |
| Node, Hub, Remote, Agent, clients | the objects above | appConfigure, appActivate | all | order of start-up (covered by the service manager) | |
| Plans: `Plan`, parser, evaluator | syntax trees | parse, evaluate | editor | grammar | |
| Triggers | a list of triggers | step, run | timer | sequential | |
| ArduMY (libardumy) | on the computer a set of actuators with dirty flags and a serializer; on the board a parser and its copy of the set | build, configure, move, resize and delete actuators, syncData; parse | serial line | frames without length or marker: each side derives it from its own copy; lost bytes, a board that restarts | the board stays in step and holds what it was told; it finds a command again after a fault |
| Hardware controllers, sensors, media | devices | device input and output | cameras, microphones, serial lines | signal processing, codecs | |
| Random numbers, identities, commands, windows, vendored code | | | | | |

PROJECT.json lists the hazards of these parts line by line, with the properties
that would notice them.

## 2. The modules

| Module | Models | Composed with |
|---|---|---|
| `QueuePromise` | abstract specification: what a queue promises its callers | |
| `ConcurrentQueue` | `ConcurrentQueue.hpp`, `TaskQueue.hpp` | `QueuePromise` (refinement) |
| `ConcurrentQueueProofs` | theorems | `ConcurrentQueue` |
| `StorePromise` | abstract specification: what a store promises about one memory and one file | |
| `AsyncStore` | `AsyncStore.hpp`, `ASEvent.hpp`, `JsonAsyncBackend.cpp`, `File.cpp` | `StorePromise` (refinement) |
| `MCAsyncStore` | symmetry and the sets of requests and failures for TLC | `AsyncStore` |
| `AsyncStoreProofs` | theorems | `AsyncStore` |
| `DataBook` | `SimpleDataStore` and the edits of `PlanBook` and `AddressBook` | all of `AsyncStore` |
| `DataBookProofs` | theorems | `DataBook`, and the lemmas of `AsyncStoreProofs` |
| `ServiceManager` | `ServiceManager.cpp`, `ServiceLevelManager.cpp`, `Service.cpp` | |
| `MCServiceManager` | the services and levels of `Node.cpp` | `ServiceManager` |
| `ServiceManagerProofs` | theorems | `ServiceManager` |
| `Handshake` | `CommsChannel.cpp`, `HandshakeState.cpp`, `CommsSession`, `IDDuel` | |
| `MCHandshake` | two nodes | `Handshake` |
| `HandshakeProofs` | theorems | `Handshake` |
| `BlobTransfer` | `BlobCourier.cpp`, `Blob`, `SendingBlob`, `ReceivingBlob` and their chunks | |
| `MCBlobTransfer` | a long and a short blob, one each way | `BlobTransfer` |
| `BlobTransferProofs` | theorems | `BlobTransfer` |
| `SyncParameters` | `SyncContext.cpp`, `SyncParameter.hpp`, `AgentStateCourier.cpp` | |
| `MCSyncParameters` | the clocks | `SyncParameters` |
| `SyncParametersProofs` | theorems | `SyncParameters` |
| `ArduMYLink` | the serializers and parsers of `ardumy_arduino`, `ArduMYController.cpp` | |
| `Discovery` | `DiscoveryClient.cpp`, `DiscoveryServer.cpp`, `DiscoveryServerSession.cpp`, `HoneymoonScheduler.hpp` | |
| `MCDiscovery` | three nodes with their pins | `Discovery` |
| `DiscoveryProofs` | theorems | `Discovery` |

Operators whose comment says *Mutant* are variants of the operator below them, with
a bug that could plausibly have been made. No specification uses them: each shows
that one of the properties would notice.

### ConcurrentQueue

Each thread has a program counter, and a step is what happens between two points at
which another thread can get in between. A critical section is one step unless it
looks at something another thread may change without the mutex: `activate(false)`
sets `mDone` and wakes without taking it, so `get()` is modelled as "look at done and
the list" and "enter the wait", with `lock` held in between. `put()` looks at `mDone`
before it locks (`PutCheckDone`) and, having waited for room, pushes without looking
again (`PutResume`), as the code does with `if` where one expects `while`. `Take` has
the code's test for not-full, which is inverted (section 4). The wait of `get()`
times out at any moment (`GetTimeout`); that of `put()` never does. `pushed` and
`taken` are history.

`QueuePromise` has no mutex, conditions or program counters: a call of `put()` that is accepted
adds its item at most once, and only where there is room as long as the queue is not
closed; a call of `get()` takes one item and comes back without one only from a
closed queue, `tryGet()` only from an empty list. `KeepsPromise` maps to it: an item enters at the
`append()`, leaves at the `takeFirst()`, and a call is `putting`, `getting` or `trying` while its
thread is inside the queue.

### AsyncStore and StorePromise

One action per part of a request that others can observe: making the event and putting it on the
queue (`Enqueue`), the worker taking it (`WorkerGet`), the operation (`Set`, `Load`, `SaveOpen`,
`SaveWrite`, ...), marking it finished (`NotifyFinished`), posting its callbacks to the main
thread (`Post`), running them (`RunCallbacks`). A save is two steps, because the file is
truncated when it is opened and written later, and `Restart` in between leaves it empty, torn or
whole. Every call of the back and front end in `CanFail` may fail, and so may two calls on the
file that the store does not hear of. `stringToFile()` truncates the file, ignores the results
of the write and the flush, and reports success (`WriteFile`: the file is then empty or torn,
and the save counts). `fileToByteArray()` returns nothing for a file that cannot be opened,
which `loadBackend()` takes for an empty map (`Read`, `Loadable`: the load counts). `unseen` is
history: which of the two happened in the last load or save. `disk`, `mem` and `auto` are the
version counters. `synchronous` is the mode in which callers run their own events.

Callbacks and waits are enabled by the constant `Uses`, so that a run that is about
content is not multiplied by who waits for what. In the code an event may be given
several callbacks; the model has at most one per event.

The queue inside is a sequence, from which one step takes and to which one step adds: what
`QueuePromise` says with capacity 0 and the worker as its only consumer, and
`ConcurrentQueue` is proved to keep (theorem `KeepsItsPromise`).

`StorePromise` has no threads, events or counters. A store knows of memory and of the file
whether they hold a version, and whether the file is behind; a request is one atomic change of
content, or fails and changes nothing, or fails half-way where the code can (clear).
`KeepsPromise` maps to it: `held` is `mem # 0`, `kept` is `disk # 0`, `behind` is
`disk # 0 /\ disk < mem`, the request being carried out is that of the running thread, and while a save is
being written the file is still the old one. A crash in that window is allowed to leave less
than the old or new content, because the code does not write to a second file and rename it. Two
outcomes of a request that succeeds are allowed because the code cannot tell them: a save that
leaves an empty or torn file, and a load of any file that leaves memory empty. Until the next
load or save has gone well, being up to date means no more than that.

The last section of `AsyncStore` says what has to be so at any moment for the answers of the
liveness properties to come: an accepted request is on its way until it is run
(`NoneForgotten`); the callbacks of an event that is run are still to be called as long as the
main thread may add one (`CallbackToCome`), so that the unlocked list of callbacks is never read
too early; what is queued has a worker (`QueueServed`), nothing is left when the store is off
(`NothingLeft`), and the worker that `activate(false)` waits for leaves (`JoinServed`).
`QueueServed` and `NothingLeft` need that no other thread uses the store, and so does
`WaitReturns`: a request that another thread puts behind the complete of `activate(false)` is
accepted and never run (section 4, `ASLeftBehind.cfg`). `BellToRing` in `DataBook` says of the
end of `activate()` of a book what `CallbackToCome` says of a callback.

### DataBook

The steps of AsyncStore with one client, plus `SimpleDataStore::activate()` in both directions
as a small state machine (`book`), whose transitions are made by callbacks of particular events
(`bell`), edits in place, and `clear()`. `Habit` says which request follows an edit: `save()`,
as in PlanBook, or `synchronize()`, as in `AddressBook::removeAssociate()`. A book counts as
active as soon as `activate(true)` has begun, so edits may come before it is loaded.
`PlanBook::fromMap()`, which the worker runs inside a load, upserts each plan and thereby
requests saves (`FromMap`, one or several): a book that is only started is written again. Loads
may fail, files may be unreadable or not be written for want of room, and one crash may leave
the file empty or torn.

### ServiceManager

`wanted` and `active` are the sets of services with `mActiveWanted` and `mActive`.
`calls` holds the activations under way: the two sets captured by the callbacks, and
the shared counter of the round. `ChangeActivation` is one round, `Answer` the callback
of one service; the last one starts the next round in the same step, as in the code.
Dependencies count as met when they are *wanted*; dependents likewise, and the
outcome of a service is dropped: both as in the code. `MCServiceManager` compares
`Activatable` and `Deactivatable` with the recursion as it is written, on every input
of its instance (`OneLevelIsEnough`). `Silent` are the wrappers that do not call back at all when their
ConfigureHelper refuses (address book, plan book, agent configuration, Comms).

Registering happens in `Node::appConfigure()` before the first level is enabled and is
therefore a constant. `Slots` bounds how many calls overlap.

### Handshake

`session[n][p]` is the session node n has for peer p, `pending` the associates whose
handshake is due, `network` the datagrams in flight as a set. A datagram is taken
out when delivered (or kept, `MaxDuplicates` times), taken out when lost, and
delivered in any order. Sessions and nonces are random numbers in the code; here
they are identities (node, peer, how often the node has been restarted), so they
are distinct, which the code only makes likely. A session may fail to be created.
Nothing in the repository removes a session (`prune()` has no caller), so only
`Restart` does.

`SendingOpportunity` is the whole handler of the carrier's signal: send every pending
handshake, creating sessions for which there is none, then reschedule. `Recieve`
and `RecieveFirst` (the code's spelling) are the whole handler of a datagram with
and without a session: the duel when both sides claim one role, otherwise the step
expected, the nonce check, what is recorded, and the step counter. `ExpectedStepTX`
and `ExpectedStepRX` are the tables of `HandshakeState.cpp`, and `Established` is its
`isDone()` as it is written: a negated enumerator, true exactly where the session
waits for a SYN.

External: a `Comms` that keeps the key store and the address book it is given and
knows its couriers (section 6), and the network.

### BlobTransfer

Both couriers of a channel, each the sender of its own blobs and the receiver of the other's. A
packet of `BlobCourier` is a list of fields without tags: the id of a blob; its name until the
name is acknowledged; a chunk if there is one to send; the acknowledgements owed. The reader
cannot tell which of them were left out. `kind` says what was written: `idle` (no blob to send),
`done` (a blob that is done, of which only the id is written), `bare` (no chunk was due) and
`chunk`. `Readings` is what `dataReceived()` makes of each: past the end of a packet all fields
read as 0, and the checksum of no bytes is 0, so a packet without a chunk and without
acknowledgements is an empty chunk 0 with a good checksum. After the id of a blob that is done,
the count of acknowledgements is read as the size of a name and the acknowledgements as the
name, which no blob has (a ghost); of each four bytes three are left over for the fields behind
it. Up to three acknowledgements leave too little for a chunk; four may be read as a chunk of
some number with a good checksum, six also as acknowledgements, and the model allows any of
those in the packet. `byId` keeps what stands under an id, because looking up an id that is not
there inserts a null blob.

How many acknowledgements go into a packet is `AckCount`: what `MAX_ACKS` leaves room for, in a
`quint16` that wraps when a chunk leaves less than nothing, cut to the `quint8` of the count.
The rest stay owed. Nothing bounds what a courier receives or owes: `Settings` bounds what is
submitted, sent, and repeated by the link.

`SendBlob` is a whole `sendingOpportunity()` with `findNextSendingChunk()` in `NextChunk`:
the two indices, the quota of chunks in transit and the resend, which `due` enables at any
moment instead of after its time. `Receive` is a whole `dataReceived()`. Names, ids and
data are identities. `data` and `completed` are history: the chunks whose bytes
arrived, and that `blobReceiveComplete()` was emitted.

### SyncParameters

Two `SyncContext`s with the same parameters, driven as `AgentStateCourier` does:
`rescheduleSending()` calls `update()`, which notes the time and copies what is needed into
the bits to send; `sendingOpportunity()` calls `send()`; `dataReceived()` calls `receive()`.
A value is identified by the change that made it. `now` is the clock a context keeps; a
received packet overwrites it with the clock of its sender, and `setLocalValue()` stamps
with whatever stands there. `forceSync()` has no caller and is left out.

Two constants of a behaviour, chosen in `Init` or once, describe its surroundings:
`patient` (only the controller makes changes, and only when both ends are at rest) and
`calm` (from now on nothing is lost, delayed or duplicated).

### ArduMYLink

The computer's set of actuators with the dirty flags, the bytes on the line, and the
board's parser with its copy of the set. `syncData` writes all frames that are due, as the
loop of `ArduMYController::syncData()` does; `parse` reads one byte. The parser is the byte
automaton of the code: magic, command, and a state for each kind of frame, where the number
of bytes to expect is computed from the board's own copy. `Finish` is what `nextByte()`
does to the last byte of a frame, `Overrun` the values whose byte takes the place of
bits. The user may configure, move, add, remove and delete actuators, with or without
the dirty flag, as the callers do. A byte may be lost, and the board may restart at
any time.

An actuator is its representation, one range and its value. The other configuration fields
are of fixed length and lie between the two in the frame. `told` (what the frames said)
and `clean` (no fault, and each frame as long as the board must take it to be) are history.

### Discovery

Client and server of the Zoo. The server keeps sessions by pin: `KeyOf` is the loop of
`DiscoveryServer::request()`, which uses the session of the first pin that is registered and
else opens one under the last. `Prune` asks of each member when it was last seen. That is the
`lastSeenMS` of its request, which nothing sets: the client's own `Associate` reads it from an
empty value as the start of 1970 in its own time zone (`variantToMs()` in `HumanTime.cpp`) and
sends that. To the west of UTC, and on it, the time is long past and the member goes at every
prune. East of UTC it is negative, as a `quint64` later than any deadline, and the member stays
for good, with the session it is in and the address it joined with: `East` is the set of those
nodes, a session survives as long as one of them is in it (`Survivors`). A full session bounces
a newcomer, a member that asks again is not updated, an answer beyond 20000 bytes is cut by the
client and cannot be parsed. `Answer` is the client's whole `responseHandler()`; what is told to
nodes whose address books are not followed (`Keepers`) is left out. `Settings` are the room in a
session, the members that fit in an answer, and `East`; `named` is history, the addresses a node
gave since the last prune.

Time: until `Settle` anything goes, at any rate, with dropped connections and a Zoo that
starts again. From then on the active nodes are in their honeymoon: they ask
once per second and are answered within it, and the server prunes every ten. `Rounds` is
the number of answers between two prunes: three in the run, nine or ten in the code. Two
are not enough: with `Rounds` at 2, two nodes of one pair meet under their first pin while the
third opens a session under its last, and changes over too late.

## 3. The runs

| Run | Instance | Checks |
|---|---|---|
| `cq_bounded` | 2 producers, 2 polling consumers, capacity 1, 2 puts each | `NoSleepOnItems`, `CapacityUntilDone`, `KeepsPromise`, `Delivered`, `ConsumersReleased` |
| `as_safety` | main thread, one other, worker; both modes; 2 contents; all requests; every call may fail, seen or unseen; 4 events, 1 crash | `CountersHonest`, `LoadNeverDiscards`, `InUse`, `IssueOrder`, `KeepsPromise` |
| `as_live` | main thread and worker; set and load; callbacks and waits; 4 events | `OrderlyShutdown`, `CallbackCalled`, `WaitReturns`, `DeactivateReturns` |
| `db_book` | a book edited, saved and cleared, 8 events, 2 contents, loads that fail, reads and writes that fail unseen, 1 crash | `EditsSurvive`, `StartKeepsFile`, `StartsUp`, `ShutsDown` |
| `sm_levels` | key store, local identity, address book, discovery, and Comms that is named but not registered; 2 levels, 2 calls at once, the key store may fail, the address book may be silent | `RoundsHonest`, `StartOrder`, `LevelsObeyed`, `NeededStaysOn`, `CallReturns` |
| `hs_duel` | 2 nodes, each restarted at most once, 1 duplicate | `RecordedTogether`, `RepliesReturnOffers`, `AgreedOnSession`, `DuelSettles`, `PeerLearned` |
| `bt_transfer` | a blob of 2 chunks one way, one of 1 chunk the other way; the long one alone with 3 packets under way; both with 1 packet each way; both with 1 packet in all and up to 4 acknowledgements owed | `ClaimsWereSent`, `DoneMeansComplete`, `QuietTransferEnds` |
| `sp_sync` | 1 parameter, 2 changes, 1 packet under way each way | `RareChangesArrive`, `SilentEndSendsNothing`, `ComesToRest` |
| `am_link` | up to 3 actuators of bits and double words, 1 change after the set was built, 1 fault | `InStep`, `OnlyLastByteLost`, `Regains` |
| `dc_meet` | 3 nodes, two of them with both pins, one that moves once, 1 answer under way each; nobody east of UTC and sessions of 2, or the one that moves east of UTC and room for all | `NoneOutstays`, `AddressesAdvance`, `FellowsMeet` |
| `hs_completes` | 2 nodes, no restarts, no duplicates; loss and reordering remain | `HandshakeCompletes` is violated |
| `am_compare` | up to 2 actuators, no faults | `SetsCompareEqual` is violated |

The type invariant of each module (`TypeOK`, of `DataBook` `BookTypeOK`) is part of none of
these runs: it is proved, except that of `ArduMYLink`, which holds of the instance of `am_link`.

### Why the bounds are enough

* **Queue.** With one slot, two producers can both be blocked and both be released, and
  two consumers can compete for one wake-up: the smallest instance in which a wake-up
  can be lost to a third party. With four puts a released producer meets a list filled
  by the other. The theorems drop the bounds.
* **Store.** A synchronize depends on three counters that one request each sets; four events are
  a request that disturbs them, one that disturbs them again, and the synchronize and complete
  of `activate(false)`. The second thread makes requests between those two. One crash is enough
  for a file to be empty, torn or whole at the next start, since all else starts over; a write
  that fails unseen gives the same to a store that goes on. Two contents tell "the file is
  current" from "it is not", and are symmetric.
* **Book.** Eight events are the synchronize of the start, the save of the load, two or three
  requests of the owner, the synchronize of the stop and the two of the store, so that an
  edit can fall before, into and behind each of them. One crash gives a second start with
  whatever file the first life left.
* **Services.** The instance *is* the one of `Node.cpp`; address list and plan book stand
  where the address book stands and are left out. Two calls at once let calls overlap
  in every way a pair can.
* **Blobs.** A chunk that is sent again, one that is acknowledged late and a packet without a
  chunk need two chunks and packets that overtake each other: three of one direction, with
  acknowledgements that do so on the way back, as long as only the long blob is sent. The blob
  of the other direction supplies acknowledgements that ride on packets without a chunk, or
  behind the id of a blob that is done; with one packet at a time repeated by the link, up to
  four are owed and sent together, the first number that can be read as a chunk. The two blobs
  have sizes at which `MAX_ACKS` is 0 in some of their packets and more than is owed in others.
  The quota of chunks in transit is 1 for every blob of up to ten chunks, so two chunks exhaust
  it. All of these at once are beyond TLC; the theorems have no bounds.
* **Parameters.** Parameters do not touch each other; two changes are one whose
  acknowledgement meets another. The clocks agree and advance with the changes.
* **ArduMY.** One byte of enable bits covers eight actuators. Three actuators of two
  representations give a frame of bits before, between or after other values; one change
  between two batches makes the two copies differ in every way a change can.
* **Discovery.** Two nodes that share their pins and one that shares only the first: the
  smallest set in which the session that is found and the one that is opened differ. One node
  moves, so that one address is old; it is the one east of UTC in the second setting, where a
  session outlives prunes. In the first a session holds two members: the third is bounced.
* **Handshake.** Sessions of different pairs share only the pending set, so two nodes
  show what a pair does. One restart each gives both an old life whose datagrams are
  in flight; a second duplicate or restart is covered by the theorems.

A cfg turns the deadlock check off where the system may stop: a store that is shut
with no request left to make, couriers with nothing to send on a quiet link, ends that are
at rest with no change left, a board that has read everything. It is on for the queue (a
consumer can always poll), the services, the handshake and discovery.

### Fairness

Nobody has to make a request, edit a book, switch a level or restart: those actions
carry no fairness anywhere.

* *Queue*: a thread inside a call continues (weak); a producer waiting for the mutex
  gets it in the end (strong), because the others hold it for a moment and a polling
  consumer sleeps up to a second in between. Consumers call again, as the worker of
  AsyncStore does in its loop.
* *Store and book*: the worker thread runs; a thread inside a call continues; the event
  loop runs what is posted to it while the main thread is not blocked.
* *Services*: those that answer at all answer in the end (weak, one by one); those in
  `Silent` need not.
* *Handshake*: a carrier timer keeps giving opportunities to a node whose couriers want
  to send (weak); a handshake that becomes pending again and again is sent again and
  again, and a kind of datagram that is sent to a node again and again arrives again
  and again (strong): that is what an unreliable link that is not dead gives. Loss
  stays possible for ever.
* *Blobs*: the channel asks a courier for packets (weak), and a packet under way
  arrives (weak). `QuietTransferEnds` is about a calm link, which neither loses nor
  reorders: on others a transfer need not end (section 4).
* *Parameters*: `update()` and `send()` are called again and again (weak); a packet is
  bound to arrive only once the link is calm.
* *ArduMY*: the controller's timer calls `syncData()` every second and the board reads in its
  loop (weak).
* *Discovery*: the timers of clients and server run, and a request that reaches the
  server is answered (weak). `FellowsMeet` is about nodes that stay together in the
  honeymoon; nothing obliges them to be.

### Liveness properties and their exceptions

`WaitReturns` and `CallbackCalled` except a thread that waits for an event that nobody
runs, because it was made on an inactive store: `waitForFinished()` then never
returns, and in the main thread stops the event loop. `CallReturns` excepts calls that
overlapped (an enable and a disable of one level can undo each other round by round for
ever) and services that stay silent. `PeerLearned` speaks of nodes that stay up.
`Regains` excepts two states of the board that only a reset ends: the command to go limp,
and a configuration whose representation there is not.

## 4. What the models found

The last two runs of the table are disagreements between the code and what its own
comments and tests say of it; PROJECT.json quotes the lines.

* **`HandshakeCompletes`** (`hs_completes`): `HandshakeState::handleTX()` never advances the
  step, so an initiator never expects the SYN-ACK and the handshake never completes.
* **`SetsCompareEqual`** (`am_compare`): the last byte of every configuration and of every batch
  of values is replaced by 0, as the call that finds a frame complete returns what the
  next call returns. The comparison in the test is commented out.

Twelve more are kept as configurations of their own beside the runs. TLC finds each violated:

| Configuration | Module | Property | What the code does |
|---|---|---|---|
| `CQBlockedPut.cfg` | `ConcurrentQueue` | `BlockedPutResumes` | in `get()` and `tryGet()` the variable `isFull` is true when there is room, so not-full is never signalled when a full list gets room. A blocked `put()` stays blocked until the queue is deactivated. All queues of the repository are unbounded, so nothing blocks today |
| `ASReactivate.cfg` | `MCAsyncStore` | `RequestServed` | `completeSync()` sets `mCompleted` and shuts the queue, and nothing resets either: a store activated for the second time takes requests and runs none |
| `ASLeftBehind.cfg` | `MCAsyncStore` | `WaitReturns` | the worker leaves as soon as it has run the complete of `activate(false)`, while the store still takes requests: one that another thread puts on the queue between the two is never run, and a thread that waits for it never returns |
| `ASUnseen.cfg` | `MCAsyncStore` | `EqualMeansSame` | a write that fails (a full disk) is reported as success after the file was truncated, and a file that cannot be opened is loaded as empty: the counters agree and the contents differ |
| `DBFullDisk.cfg` | `DataBook` | `UneditedFileStays` | starting a plan book writes its file again. On a full disk that leaves it empty or torn: plans are lost that nobody touched, without a crash and without an error |
| `DBSynchronize.cfg` | `DataBook` | `SynchronizeSaves` | `AddressBook::removeAssociate()` edits the map and calls `synchronize()`, but no counter moved, so nothing is written |
| `DBUnloaded.cfg` | `DataBook` | `UnloadedEditsSurvive` | an edit moves no counter. Before the first load it is overwritten by the load; after `clear()`, or when the load failed, both counters stay 0 through all saves, so the synchronize of `activate(false)` generates an empty book and saves that over the edits |
| `SMUnneeded.cfg` | `MCServiceManager` | `UnneededStops` | `dependentsMet()` asks for dependents that are on where it should ask for dependents that are off. Switching off the only enabled level leaves the key store and the local identity running |
| `BTHollow.cfg` | `MCBlobTransfer` | `ReceivedHasData` | a packet without a chunk is read as an empty chunk 0 with a good checksum: chunk 0 is marked as received without its data |
| `SPOverride.cfg` | `MCSyncParameters` | `ControllerOverrides` | AgentStateCourier.hpp:34-36 says that in a conflict the value of the controller overrides that of the agent. With two changes in quick succession an acknowledgement of the first ends the sending of the second, and the ends come to rest with different values |
| `DCEast.cfg` | `MCDiscovery` | `PresentAddress` | a node born east of UTC is never thrown out of a session, and a member that asks again is not updated: its fellows are told the address it joined with, whatever address it has now |
| `DCCrowd.cfg` | `MCDiscovery` | `CrowdMeets` | a session takes in more members than fit in an answer of 20000 bytes; a cut answer cannot be parsed, so its members never hear of each other |

More facts the models show, not stated as violations:

* A session that has just lost a duel counts as established (`isDone()`), which `DuelSettles`
  shows to be harmless as long as the winner keeps sending; it does (`WinnerKeepsSending`).
* Overlapping level switches can leave a service starting before what it depends on
  (`StartOrder` holds for calls that do not overlap).
* The name of a blob is acknowledged only once, when it is new. If that packet is lost, the
  sender repeats the name for ever and is never done (`QuietTransferEnds` needs the calm link).
* After a lost byte the board may take any byte for the command to go limp, which has no
  end.
* The Zoo throws out all its members that were not born east of UTC every ten seconds, so that two
  nodes of those meet only if both ask between the same two prunes: nodes past their honeymoon, which ask
  once a minute, need luck.

Six further configurations check what the proofs of section 5 add to the properties of the
runs: the safety that the liveness properties rest on. TLC finds them to hold.

| Configuration | Module | Properties | Instance |
|---|---|---|---|
| `ASServed.cfg` | `MCAsyncStore` | `NoneForgotten`, `CallbackToCome`, `QueueServed`, `NothingLeft`, `JoinServed` | main thread and worker, both modes; set and load; callbacks and waits; 5 events, a second activation, 1 crash |
| `DBBell.cfg` | `DataBook` | `BellToRing` | that of `db_book` |
| `SMAdvance.cfg` | `MCServiceManager` | `CallWaits`, `EveryAnswerCounts` | that of `sm_levels` |
| `HSRoles.cfg` | `MCHandshake` | `WinnerKeepsSending`, `DuelDecides`, `RolesStand` | that of `hs_duel` |
| `BTMissing.cfg` | `MCBlobTransfer` | `NothingGoesMissing` | that of `bt_transfer` |
| `SPArrived.cfg` | `MCSyncParameters` | `AckedHasArrived` | that of `sp_sync` |

## 5. What is proved

Every safety and action property of the passing runs is a theorem, except the two of
`ArduMYLink`. Beyond these, the theorems of the last table above say of most liveness
properties all that is left of them without fairness: that what must come is always on its
way, and that each step brings it nearer.

All hold for every value of the constants, under the assumptions named in the modules (threads,
contents, blobs and IDs distinct; finitely many services, none depending on itself; finitely
many couriers). Bounds such as `MaxEvents` or `MaxRestarts` are arbitrary numbers in the
theorems. Three theorems have a hypothesis more, and each is about the code and not the proof:
`LoadDiscardsNothing` and `KeepsItsPromise` of the store are about processes that activate it
once, and `EditsAreSaved` about books that save their edits and saves that do not fail before
they open the file. Conditions under which a property speaks at all (calls that do not overlap,
a calm link, no other thread) stand in the property.

**ConcurrentQueueProofs**: `TypeCorrect`, `FIFOOrder`, `NoLostWakeup`, `CapacityRespected`,
`CallsInOrder`, `KeepsItsPromise`.
The capacity is not inductive by itself: `PutResume` pushes without looking. What saves
it before `done` is that nobody wakes a producer: `Take` would signal only on an over-full
list, and there is none while the capacity holds. So the invariant `IInv` carries both
facts together: a waiting producer has not been woken, no consumer is about to notify,
and the list is within its capacity. For the wake-ups, `LockHolder` says that while a
consumer is between looking and waiting, it has the mutex and the list is empty. `KeepsItsPromise` maps
every step to one of `QueuePromise` or to none. From `IInv` it needs that a producer that was
woken finds room or a closed queue, although it does not look, and that the queue is only closed
when it is off. `CallsInOrder` adds `Numbered`: a producer inside `put()` has added nothing since its
call began.

**AsyncStoreProofs**: `CountersTellTruth`, `StoreInUse`, `LoadDiscardsNothing`,
`KeepsItsPromise`, `TypesHold`, `RunsInOrder`, `ClosesInAgreement`, `NothingForgotten`,
`CallbacksInTime`, `QueueHasWorker`, `NothingLeftBehind`, `JoinIsServed`. Equal counters mean
equal content only because one thread at a time runs events; a set in the middle of another's
save would break it. The invariant comes in two parts. `Basis` says who the runner is (the
worker, or the main thread in synchronous mode), that it runs on an active store only, that a
save in progress is its own, and that no counter is ahead of `mAutoIncrement`, so that a version
just made is new. `Agreement` says that a save in progress writes what is in memory and that the
counters tell the truth, but for what `unseen` admits: after an unseen failure to write the file
is empty or torn, after one to read memory is empty, and nothing else differs. Each step keeps
`Basis` whatever becomes of `Agreement`, so that `Basis` can be used where content changes
behind the back of the store, in a book. Five more invariants stand on these:

* *The refinement.* `KeepsItsPromise` maps every step to a request of `StorePromise` or to
  nothing. `Serving` says that what is queued and run are requests, and that a save within
  a synchronize is there because memory is newer than the file. It needs `MaxCycles <= 1`,
  as `LoadDiscardsNothing` does and as `as_safety` has it: a second activation counts the file
  as newer than memory, and a promised save becomes a load.
* *The order.* `RunsInOrder` from `Order`: the queue holds pending events in increasing order,
  all made after whatever was finished and after the one that is being run.
  `Kinds` holds the rest of the types; a callback is waiting or was called, not both.
* *The end.* `ClosesInAgreement` from `Lifetime`, which follows one activation of a store with one client
  where nothing fails from its beginning: the synchronize of `activate(false)` is in the queue behind
  everything else and just before the complete, and from the moment it is done nothing can take
  memory and file apart (`ClosingQueue`). `ClosingInline` says the same of synchronous mode,
  where there is no queue.
* *Callbacks.* `NothingForgotten` and `CallbacksInTime` from `Placed` and `ToCome`. An event
  leaves the queue when the runner takes it and the runner when its callbacks are posted.
  `onFinished()` locks nothing; what saves it is that callbacks run in the main thread: while
  that thread holds an event it has just made, it can be past the queue and the runner, but what
  was posted is not run yet.
* *The worker.* `QueueHasWorker`, `NothingLeftBehind` and `JoinIsServed` from `Attended` and
  `Finishing`: the worker leaves only after complete; once `activate(false)` waits for it,
  complete is in the queue or in work; and where only the main thread makes requests, complete
  is the last of them, so that the worker leaves an empty queue. The first two have that
  hypothesis because they are false without it (`ASLeftBehind.cfg`).

**DataBookProofs**: `FileIsKept`, `EditsAreSaved`, `BookTypesHold`, `BookRunsInOrder`,
`BellWillRing`, on the `Basis` of the store: an edit goes past the store, so `CountersHonest` is
false of a book and `Agreement` cannot be used. `Course` says how far the book and its store are
(a book that is off has not touched its store; one that is on has an open store that nobody has
asked to complete), `Requested` which requests can be in the queue and in work. `FileIsKept` has
two cases, and its invariant `Kept` says that it is one or the other: as long as the file is not
loaded, or was taken for empty because it could not be read, nobody has asked for a save, so
that nothing will write it; once it is loaded, what is written is what was read, or the last
write was lost (`WriteLost`). It holds for both habits and whatever fails. `EditsAreSaved`
follows the save of the last edit (`Coming`): the owner is about to ask for it, or it is in the
queue with no complete before it, or it is being run, or being written, or the file has the
edit; and a load cannot overwrite memory any more, since a save leaves the counters equal. Its
hypothesis is the habit of `PlanBook`: with `synchronize()` it is false (`DBSynchronize.cfg`).
`BookRunsInOrder` is the order of the store once more, because the worker that loads a book puts
requests on its own queue. `BellWillRing` adds to the store's `ToCome` which event `activate()`
waits for, and that its callback was not called yet (`Bell`).

**ServiceManagerProofs**: `TypeCorrect`, `RoundsAreHonest`, `StartsInOrder`, `LevelsAreObeyed`,
`NeededServicesStayOn`, `CallsAreWaiting`, `NoEndlessRounds`, for any services, levels and
dependencies, whichever fail or stay silent. None of the properties is inductive. While calls do
not overlap (`Orderly`): the two sets that a call captured still separate what is wanted from
what is needed (`Heading`); an answer still owed is about what its service was told last, on top
of dependencies that were wanted before it (`Asked`); and what is wanted has been started, has
failed, or is about to answer (`Started`). `StartsInOrder` needs that dependencies are
transitive (`DependenciesTransitive`). That a call does not end too soon needs that a round that
can start nothing has nothing left to start (`SomethingToStart`): of the services still to be
wanted, one with the fewest dependencies has all of them wanted, if there are services for them.
The same lemma makes `NoEndlessRounds`: a round that does something takes services out of those
that are not as the levels want them (`Astray`), and puts none in; since there are finitely
many, a call that is alone and is answered comes to its end. What `CallReturns` adds is only
that services answer.

**HandshakeProofs**: `TypeCorrect`, `RecordsConsistent`, `RepliesHonest`, `SessionAgreed`,
`WinnerIsHeard`, `DuelsAreDecided`, `RolesAreKept`, for any number of nodes, restarts and
duplicates. The invariant says what a step stands for: at step 0 a session knows nothing of its
peer, at step 1 it has the nonce of a SYN of the peer, at step 2 that of a SYN-ACK, in whatever
role it is by now. `SessionAgreed` needs more: the node with the greater ID never gets to step
2, since it wins every duel, so it is never an initiator beyond step 0; thus once it has
answered a SYN it stays where it is for the rest of its life (`Stands`), and a SYN-ACK of its
present life names the session it still has. The last three are `DuelSettles` less its fairness:
the winner keeps its role and always has something to send (`WinnerInv`); every datagram of its
present life says that role (`SentInv`), and gives the loser the other one, be it dropped for
the duel or not (`RecieveRole`); so only a restart, or one of the finitely many datagrams from
before it, takes opposite roles apart.

**SyncParametersProofs**: `TypesHold`, `SilentEndsStaySilent`, `NoAckOfEarlierChange` and
`AcksAreEarned` for any number of parameters, changes and packets, whatever is lost, late or
duplicated. `SilentEndSendsNothing` is inductive as it stands, because it says everything an end
without changes leaves behind: no need and no bit to send, no value under way to its peer,
nothing for the peer to acknowledge, and nothing received there. `NoAckOfEarlierChange` is about
a controller that waits for rest: an acknowledgement has no version, so what matters is that
while a change is unacknowledged no acknowledgement of an earlier one is left anywhere, in a bit
or in a packet (`Rare`). At rest the link is empty; `Ages` says that clocks are past zero by
then, so that a value that was never set looks older than one that was. `AcksAreEarned` asks for
no rest. It holds because an acknowledgement can be stale only in its value, not in its
parameter: an end acknowledges what it has received (`Arrived`), and what is sent was set at one
of the ends (`Dated`).

**BlobTransferProofs**: `TypesHold`, `NoInventedChunk`, `DoneIsComplete`, `NothingIsMissing`,
for any blobs, numbers of chunks and sizes, and for all `Settings`: any number of packets under
way, of repetitions and of acknowledgements owed. `DoneIsComplete` follows acknowledgements
back: what one says, owed or under way, the receiver has (`AcksHonest`), and the chunk that made
it have everything announced the blob (`LastAnnounces`). `NoInventedChunk` rests on the choice
of chunks: a packet that will be taken for chunk 0 is only written by a sender that has sent
chunk 0, because it sends it first and sends nothing bare while little is in transit
(`StartsWithFirst`, `PacketsHonest`). What is read of acknowledgements behind the id of a blob
that is done cannot claim too much either: such a packet is sent only when all chunks were
acknowledged, so that the blob has nothing unsent or missing, and a ghost takes the place of
none but such a blob (`GhostsLate`). That the choice stays within the blob needs a first clear
bit: a non-empty set of numbers has a least one, from the well-foundedness of `<`.
`NothingIsMissing` rests on every packet being read as it was written, which is so where only
one courier sends blobs (`OneWay`): the other sends packets of acknowledgements only, which are
found, and is owed none, so that none can be taken for a name. With blobs in both directions an
acknowledgement behind a blob that is done is lost in a name, which is why `QuietTransferEnds`
is about traffic one way.

**DiscoveryProofs**: `TypesHold`, `ToldIsRecent`, `NoStaleAddress`, for any nodes and settings,
whoever is never pruned, and any one or two pins each. `NoStaleAddress` says that the address
book, the answers on the way and the session a node would ask next have addresses in that order
(`InSequence`). What could break it is a change of the session asked, since a session that
outlives a prune may hold an older address than another. The first pin that is registered
counts, and a node is led to the later pin only when the session under the earlier one is gone,
which it is not as long as anybody stays in it. So where a session has an older address of a
member, that member is in a session the node is led to sooner, and stays there as long as it
stays in the older one: a prune throws it out of both or of neither (`Behind`). `ToldIsRecent`
is inductive with the types.

The proofs have one step per action; lemmas say what an operation does to a single
session, datagram or thread.

Only model-checked: all liveness and `ENABLED` (TLAPS does not reason about fairness here), and
`ArduMYLink`. `InStep` compares the board's actuators with what a batch of frames said, byte by
byte; it needs facts about `FlattenSeq`, `SelectSeq` and sums of bits for sequences of any
length, that is, induction over data, for which the installed provers have no way.
`MCServiceManager`, which TLC alone uses, has the only recursive operator.

## 6. What is not modelled

* **Comms** is in the middle of a refactoring at this commit: `Comms::configure()` drops the
  key store and address book, `Comms::couriers()` asks the channel, whose `couriers()` asks
  Comms, without end, and `registerCourier()` does the same. A model of that has one
  behaviour. The handshake is modelled with a Comms that answers, as
  `test/testCommsChannel` supposes.
* **The data phase** of CommsChannel: `sendCourierData()` writes nothing, so sessions carry no
  courier data, and time-outs of sessions are computed and not acted upon. The couriers
  (`BlobTransfer`, `SyncParameters`) are therefore modelled over a link of their own.
* **ReliabilitySystem** is compiled out: `USE_RELIBABILITY_SYSTEM` is defined nowhere. What remains,
  `packetSent()` and `update()`, has results that nobody reads.
* **CommsSessionDirectory** beyond "the session with this id, or none": its further indices need
  several associates behind one address, which the handshake cannot bring about; `prune()`
  has no caller.
* **KeyStore** keeps a cache over the life cycle that `DataBook` models; keys are calls of mbedTLS.
* **Unlocked sharing**: the worker and the main thread share a book's map without a lock, which
  is undefined behaviour with no outcome to choose from but a crash.
* **`load()` and `status()`** of the books, which only a debugging window calls.
* **Pairing and trust**: choices of the user in windows; and the couriers that are made for a new
  associate.
* **Configuration of ArduMY** beyond representation and range, servos and pins on the board, the
  status request, which the computer never sends, and windows.
* **`forceSync()`**, which has no caller, and the decay of `HoneymoonScheduler` between its two ends.
* **Registering and unregistering services** while levels are enabled: only tests do.
* **Synchronous mode from several threads**: nothing protects the store then; one thread uses
  it in the model.
* Plans, geometry, codecs, device drivers, windows, styles and resources: sequential parsers, or
  floating point, or presentation. Most of the repository's lines are these and copies of
  third-party libraries (mbedTLS, qhttp, zbar, haar, a markdown library and others).

## 7. The plan

Done: queue, store, both against their abstract specifications, books, services, handshake,
blobs, shared parameters, ArduMY, discovery; theorems for all of them but ArduMY: the two
refinements, every safety and action property of the runs, and for queue, store, books, services,
handshake and blobs what is left of their liveness properties without fairness.

Next, proofs:

1. The same for `FellowsMeet` and `ComesToRest`, whose progress takes several rounds: which sessions
   are left between two prunes, and how often a value can still be sent after the last change.
2. `ArduMYLink`: what does not need the content of a frame, namely that the parser's state
   stays within its copy of the set.
3. Liveness itself, with a prover that reasons about `ENABLED`: the theorems above are the
   invariants and the decreasing measures such proofs need.

Extending the model, when the code does: the data phase of a session, with the couriers of
this directory on it and `ReliabilitySystem` beneath; `Comms` once it is whole; the wire between
services and stores.

## 8. Running it

```
tlc -workers 2 -config HSDuel.cfg MCHandshake     # a run: see the table in section 3
tlapm HandshakeProofs.tla                          # a proof module
```

Deadlock checking follows the cfg. The longest run takes three minutes with two workers.
