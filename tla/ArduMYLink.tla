----------------------------- MODULE ArduMYLink -----------------------------
(***************************************************************************)
(* The serial protocol of ArduMY: ArduMYCommandSerializer on the computer  *)
(* and ArduMYCommandParser on the board, with the set of actuators each    *)
(* keeps and the line between them.                                        *)
(*                                                                         *)
(* The line carries bytes and nothing marks where a frame begins.  The     *)
(* board never answers: what it holds is what it made of the bytes, and    *)
(* it starts to listen, and listens again after an error, when it sees     *)
(* the four bytes of the magic.                                            *)
(*                                                                         *)
(* An actuator is its representation, its range and its value.  The other  *)
(* fields of the configuration are left out: they are of the same kind as  *)
(* the range and come before it.  A value is its first two bytes.          *)
(***************************************************************************)
EXTENDS Integers, Sequences, FiniteSetsExt, SequencesExt

CONSTANTS
    Payload,        \* the bytes a value is made of
    Configurable,   \* the representations the user chooses from
    MaxActuators,   \* bound: actuators the user adds
    MaxChanges,     \* bound: changes of the user after the set is built
    MaxFaults       \* bound: bytes lost and resets of the board

ASSUME PayloadAssumption == Payload \subseteq 0..255
ASSUME ConfigurableAssumption == Configurable \subseteq 0..6
\* One byte of enable bits tells the actuators of the computer apart.
ASSUME BoundsAssumption == MaxActuators \in 1..8 /\ {MaxChanges, MaxFaults} \subseteq Nat

VARIABLES
    actuators,     \* ArduMYCommandSerializer::actuators
    countDirty,    \* isCountDirty
    syncDue,       \* isSyncDue
    serializing,   \* ArduMYCommandSerializer::currentCommand between two batches
    line,          \* the bytes written and not yet read
    command,       \* ArduMYCommandParser::currentCommand
    magicIndex,    \* MagicDetector::idx
    configIndex,   \* actuatorConfigIndex
    config,        \* ArduMYActuatorConfigParser: its actuator, and the bytes it took
    enableBits,    \* ArduMYActuatorValueParser::enableBits
    readings,      \* ArduMYActuatorValueParser: the values it still expects, and bytes of the first
    parsed,        \* ArduMYCommandParser::actuators
    told,          \* history: what the frames said of the actuators
    clean,         \* history: every byte arrived and every frame had its proper length
    changes,       \* history: changes of the user
    faults         \* history: faults of the line and the board

host == <<actuators, countDirty, syncDue, serializing>>
values == <<enableBits, readings>>
board == <<command, magicIndex, configIndex, config, values, parsed>>
history == <<told, clean, changes, faults>>
vars == <<host, line, board, history>>

Byte == 0..255

SYNC == 0
AWAITING_COMMAND == 1
SET_COUNT == 3
SET_CONFIG == 4
SET_VALUES == 5
SET_LIMP == 6
Magic == <<12, 112, 255, 0>>

BIT == 0
NONE == 7   \* VALREP_REPRESENTATION_COUNT
ByteCount(rep) == <<1, 1, 2, 4, 8, 4, 8>>[rep + 1]
Held(bytes) == SubSeq(bytes, 1, IF Len(bytes) < 2 THEN Len(bytes) ELSE 2)
\* Bytes written over those of a value: a shorter one leaves the second byte.
Over(old, bytes) == Held(bytes) \o SubSeq(old, Len(Held(bytes)) + 1, 2)

NewActuator == [rep |-> NONE, range |-> <<0, 0>>, value |-> <<0, 0>>]
Actuator == [rep : Byte, range : Seq(Byte), value : Seq(Byte)]

\* The actuators of the computer have their dirty flags with them.
Flagged(a, c, v) == a @@ [configDirty |-> c, valueDirty |-> v]
Unflagged(a) == [rep |-> a.rep, range |-> a.range, value |-> a.value]

Resized(set, n, new) == [i \in 1..n |-> IF i <= Len(set) THEN set[i] ELSE new]

Init ==
    /\ actuators = <<>>
    /\ countDirty = FALSE
    /\ syncDue = FALSE
    /\ serializing = SYNC
    /\ line = <<>>
    /\ command = SYNC
    /\ magicIndex = 0
    /\ configIndex = -1
    /\ config = [of |-> 0, bytes |-> <<>>]
    /\ enableBits = <<>>
    /\ readings = [next |-> <<>>, bytes |-> <<>>]
    /\ parsed = <<>>
    /\ told = <<>>
    /\ clean = TRUE
    /\ changes = 0
    /\ faults = 0

-----------------------------------------------------------------------------
(* The user of the set *)

\* The value and the range of an actuator all of whose bytes are p.
Filled(rep, p) == IF rep = BIT THEN <<IF p > 0 THEN 1 ELSE 0, 0>> ELSE <<p, p>>
Configured(rep, p) ==
    Flagged([rep |-> rep, range |-> Filled(rep, p), value |-> Filled(rep, p)], TRUE, TRUE)

\* A set is built and sent as a whole, the way the tests do.
Build(reps, p) ==
    /\ actuators = <<>> /\ changes = 0
    /\ actuators' = [i \in DOMAIN reps |-> Configured(reps[i], p)]
    /\ countDirty' = TRUE
    /\ UNCHANGED <<syncDue, serializing, line, board, history>>

Changed ==
    /\ changes < MaxChanges
    /\ changes' = changes + 1
    /\ UNCHANGED <<syncDue, serializing, line, board, told, clean, faults>>

Configure(i, rep, p) ==
    /\ Changed
    /\ actuators' = [actuators EXCEPT ![i] = Configured(rep, p)]
    /\ UNCHANGED countDirty

\* onMoved() marks the value of an actuator without a representation, too.
Move(i, p) ==
    /\ Changed
    /\ actuators' = [actuators EXCEPT ![i].value = Over(@, Filled(actuators[i].rep, p)),
                                      ![i].valueDirty = TRUE]
    /\ UNCHANGED countDirty

\* ArduMYController sets a flag of its own instead of the one of the set.
Resize(n, announced) ==
    /\ Changed
    /\ n # Len(actuators)
    /\ actuators' = Resized(actuators, n, Flagged(NewActuator, FALSE, FALSE))
    /\ countDirty' = (countDirty \/ announced)

deleteActuator(i) ==
    /\ Changed
    /\ actuators' = RemoveAt(actuators, i)
    /\ UNCHANGED countDirty

RequestSync ==
    /\ ~syncDue
    /\ syncDue' = TRUE
    /\ UNCHANGED <<actuators, countDirty, serializing, line, board, history>>

-----------------------------------------------------------------------------
(* The serializer *)

\* The call that finds a frame complete returns 0 in place of its last byte.
Finish(frame) == [frame EXCEPT ![Len(frame)] = 0]

SyncFrame == <<SYNC>> \o Magic
CountFrame == <<SET_COUNT, Len(actuators)>>
ConfigFrame(i) ==
    LET a == actuators[i]
    IN Finish(<<SET_CONFIG, i - 1, a.rep>> \o SubSeq(a.range, 1, ByteCount(a.rep)))
ConfigFrames ==
    FlattenSeq([i \in DOMAIN actuators |->
                   IF actuators[i].configDirty THEN ConfigFrame(i) ELSE <<>>])

DirtyValues == {i \in DOMAIN actuators : actuators[i].valueDirty}
DirtyAs(rep) ==
    SelectSeq([i \in DOMAIN actuators |-> i],
              LAMBDA i : i \in DirtyValues /\ actuators[i].rep = rep)
BitSum(bit(_), I) == SumSet({IF bit(i) THEN 2^(i - 1) ELSE 0 : i \in I})

\* When the bits are done the loop over the actuators steps past the first
\* one of the next representation.  If it then meets another of them, a byte of
\* that one takes the place of the bits, and the first one is left out.
Overrun ==
    LET next == {rep \in 1..6 : DirtyAs(rep) # <<>>}
    IN IF DirtyAs(BIT) # <<>> /\ next # {} /\ Len(DirtyAs(Min(next))) > 1
       THEN {Min(next)} ELSE {}

BitBatch ==
    LET of == DirtyAs(BIT)
    IN IF of = <<>> \/ Overrun # {} THEN <<>>
       ELSE <<BitSum(LAMBDA k : actuators[of[k]].value[1] = 1, DOMAIN of)>>
ValueBatch(rep) ==
    LET of == IF rep \in Overrun THEN Tail(DirtyAs(rep)) ELSE DirtyAs(rep)
    IN FlattenSeq([k \in DOMAIN of |-> SubSeq(actuators[of[k]].value, 1, ByteCount(rep))])

ValuesFrame ==
    LET bytes == BitBatch \o FlattenSeq([rep \in 1..6 |-> ValueBatch(rep)])
    IN Finish(<<SET_VALUES, BitSum(LAMBDA i : i \in DirtyValues, DOMAIN actuators)>>
              \o IF bytes = <<>> THEN <<0>> ELSE bytes)

\* The actuators the last byte of a frame of values is about.
LastOfValues ==
    LET reps == {actuators[i].rep : i \in DirtyValues} \ {NONE}
    IN IF reps = {} THEN {}
       ELSE IF reps = {BIT} THEN ToSet(DirtyAs(BIT))
       ELSE {Last(DirtyAs(Max(reps)))}

\* What the frames of a batch say of the actuators, and the values they spoil.
Untold == NewActuator @@ [spoilt |-> FALSE]
Telling ==
    LET sized == IF countDirty THEN Resized(told, Len(actuators), Untold) ELSE told
    IN [i \in DOMAIN sized |->
          IF i \notin DOMAIN actuators THEN sized[i]
          ELSE LET a == actuators[i]
               IN [rep    |-> IF a.configDirty THEN a.rep ELSE sized[i].rep,
                   range  |-> IF a.configDirty THEN a.range ELSE sized[i].range,
                   value  |-> IF a.valueDirty THEN a.value ELSE sized[i].value,
                   spoilt |-> IF a.valueDirty THEN i \in LastOfValues ELSE sized[i].spoilt]]

\* The board can tell how long each frame of a batch is.
Framed ==
    /\ Len(Telling) = Len(actuators)
    /\ \A i \in DirtyValues : Telling[i].rep = actuators[i].rep
    /\ DirtyValues # {} => \E i \in DirtyValues : actuators[i].rep # NONE
    /\ Overrun = {}

\* syncData() writes frames until nothing is due.  The board is not heard, so
\* it loses nothing to let it read a batch before the next one is written.
syncData ==
    /\ line = <<>>
    /\ line' = (IF serializing = SYNC THEN SyncFrame ELSE <<>>)
               \o (IF syncDue THEN SyncFrame ELSE <<>>)
               \o (IF countDirty THEN CountFrame ELSE <<>>)
               \o ConfigFrames
               \o (IF DirtyValues # {} THEN ValuesFrame ELSE <<>>)
    /\ line' # <<>>
    /\ serializing' = AWAITING_COMMAND
    /\ syncDue' = FALSE
    /\ countDirty' = FALSE
    /\ actuators' = [i \in DOMAIN actuators |-> Flagged(Unflagged(actuators[i]), FALSE, FALSE)]
    /\ told' = Telling
    /\ clean' = (clean /\ Framed)
    /\ UNCHANGED <<board, changes, faults>>

-----------------------------------------------------------------------------
(* The parser *)

\* detect(): a byte that does not fit is not tried as the first one.
NextMagicIndex(b) == IF b = Magic[magicIndex + 1] THEN (magicIndex + 1) % Len(Magic) ELSE 0

DetectMagic(b) ==
    /\ command = SYNC
    /\ magicIndex' = NextMagicIndex(b)
    /\ command' = IF b = Magic[magicIndex + 1] /\ magicIndex = 3 THEN AWAITING_COMMAND ELSE SYNC
    /\ UNCHANGED <<configIndex, config, values, parsed>>

prepareCommand(b) ==
    /\ command = AWAITING_COMMAND
    /\ command' = IF b \in {SET_COUNT, SET_CONFIG, SET_VALUES, SET_LIMP} THEN b ELSE SYNC
    /\ config' = IF b = SET_CONFIG THEN [config EXCEPT !.bytes = <<>>] ELSE config
    /\ enableBits' = IF b = SET_VALUES THEN <<>> ELSE enableBits
    /\ readings' = IF b = SET_VALUES THEN [next |-> <<>>, bytes |-> <<>>] ELSE readings
    /\ magicIndex' = IF b \in {SYNC, SET_COUNT, SET_CONFIG, SET_VALUES, SET_LIMP}
                     THEN magicIndex ELSE 0
    /\ UNCHANGED <<configIndex, parsed>>

\* Another size moves the actuators: the configuration parser is left with the
\* address of one that is gone.
ParseCount(n) ==
    /\ command = SET_COUNT
    /\ parsed' = Resized(parsed, n, NewActuator)
    /\ config' = IF n = Len(parsed) /\ n # 0 THEN config ELSE [config EXCEPT !.of = 0]
    /\ command' = AWAITING_COMMAND
    /\ UNCHANGED <<magicIndex, configIndex, values>>

\* An index out of range is not forgotten.
ParseConfigIndex(b) ==
    /\ command = SET_CONFIG
    /\ configIndex < 0
    /\ configIndex' = b
    /\ IF b >= Len(parsed)
       THEN command' = SYNC /\ UNCHANGED config
       ELSE config' = [of |-> b + 1, bytes |-> <<>>] /\ UNCHANGED command
    /\ UNCHANGED <<magicIndex, values, parsed>>

\* The range ends where the representation says; one that there is not never ends.
ConfigCompleteEarly(bytes) == bytes[1] < NONE /\ Len(bytes) = ByteCount(bytes[1])
ConfigComplete(bytes) == bytes[1] < NONE /\ Len(bytes) = 1 + ByteCount(bytes[1])

\* The fields are written as they come.
WithField(a, bytes) ==
    IF Len(bytes) = 1 THEN [a EXCEPT !.rep = bytes[1]]
    ELSE IF ConfigComplete(bytes) THEN [a EXCEPT !.range = Over(@, Tail(bytes))]
    ELSE a

ParseConfig(b) ==
    /\ command = SET_CONFIG
    /\ configIndex >= 0
    /\ LET bytes == Append(config.bytes, b)
           whole == ConfigComplete(bytes)
       IN /\ parsed' = IF config.of = 0 THEN parsed
                       ELSE [parsed EXCEPT ![config.of] = WithField(@, bytes)]
          /\ config' = [config EXCEPT !.bytes = IF bytes[1] < NONE THEN bytes ELSE <<bytes[1]>>]
          /\ configIndex' = IF whole THEN -1 ELSE configIndex
          /\ command' = IF whole THEN AWAITING_COMMAND ELSE SET_CONFIG
    /\ UNCHANGED <<magicIndex, values>>

Enabled(bits) ==
    {i \in DOMAIN parsed : (bits[((i - 1) \div 8) + 1] \div 2^((i - 1) % 8)) % 2 = 1}
EnabledAs(rep, bits) ==
    SelectSeq([i \in DOMAIN parsed |-> i],
              LAMBDA i : i \in Enabled(bits) /\ parsed[i].rep = rep)

\* The values to expect, each by the actuators it is for: up to eight of
\* BIT, one of any other representation.
Expected(bits) ==
    LET ofBits == EnabledAs(BIT, bits)
        eights == [k \in 1..((Len(ofBits) + 7) \div 8) |->
                     SubSeq(ofBits, 8*k - 7, IF Len(ofBits) < 8*k THEN Len(ofBits) ELSE 8*k)]
        ones(rep) == [k \in DOMAIN EnabledAs(rep, bits) |-> <<EnabledAs(rep, bits)[k]>>]
    IN eights \o FlattenSeq([rep \in 1..6 |-> ones(rep)])

\* reset() leaves nothing to expect of a set without actuators.
AllEnableBitsOfAny(bits) == Len(bits) = (Len(parsed) + 7) \div 8
AllEnableBits(bits) == parsed = <<>> \/ Len(bits) = (Len(parsed) + 7) \div 8

ParseEnabled(b) ==
    /\ command = SET_VALUES
    /\ readings.next = <<>>
    /\ LET bits == Append(enableBits, b)
           next == IF AllEnableBits(bits) THEN Expected(bits) ELSE <<>>
       IN /\ enableBits' = IF parsed = <<>> THEN <<>> ELSE bits
          /\ readings' = [next |-> next, bytes |-> <<>>]
          /\ command' = IF AllEnableBits(bits) /\ next = <<>> THEN AWAITING_COMMAND ELSE SET_VALUES
    /\ UNCHANGED <<magicIndex, configIndex, config, parsed>>

BitOfActuator(of, i) == i - 1
BitOfPlace(of, i) == (CHOOSE k \in DOMAIN of : of[k] = i) - 1
Stored(of, bytes) ==
    IF parsed[of[1]].rep = BIT
    THEN [i \in DOMAIN parsed |->
            IF Contains(of, i)
            THEN [parsed[i] EXCEPT !.value =
                    Over(@, <<(bytes[1] \div 2^BitOfPlace(of, i)) % 2>>)]
            ELSE parsed[i]]
    ELSE [parsed EXCEPT ![of[1]].value = Over(@, bytes)]

ParseValue(b) ==
    /\ command = SET_VALUES
    /\ readings.next # <<>>
    /\ LET of == Head(readings.next)
           bytes == Append(readings.bytes, b)
           whole == Len(bytes) = ByteCount(parsed[of[1]].rep)
           next == IF whole THEN Tail(readings.next) ELSE readings.next
       IN /\ parsed' = IF whole THEN Stored(of, bytes) ELSE parsed
          /\ readings' = [next |-> next, bytes |-> IF whole THEN <<>> ELSE bytes]
          /\ command' = IF next = <<>> THEN AWAITING_COMMAND ELSE SET_VALUES
    /\ UNCHANGED <<magicIndex, configIndex, config, enableBits>>

\* There is no way out of the command to go limp.
ParseLimp(b) ==
    /\ command = SET_LIMP
    /\ UNCHANGED board

parse ==
    /\ line # <<>>
    /\ line' = Tail(line)
    /\ UNCHANGED <<host, history>>
    /\ LET b == Head(line)
       IN \/ DetectMagic(b)
          \/ prepareCommand(b)
          \/ ParseCount(b)
          \/ ParseConfigIndex(b)
          \/ ParseConfig(b)
          \/ ParseEnabled(b)
          \/ ParseValue(b)
          \/ ParseLimp(b)

-----------------------------------------------------------------------------
(* The line and the board *)

Fault ==
    /\ faults < MaxFaults
    /\ faults' = faults + 1
    /\ clean' = FALSE
    /\ UNCHANGED <<host, told, changes>>

LoseByte ==
    /\ Fault
    /\ line # <<>>
    /\ line' = Tail(line)
    /\ UNCHANGED board

ResetBoard ==
    /\ Fault
    /\ command' = SYNC
    /\ magicIndex' = 0
    /\ configIndex' = -1
    /\ config' = [of |-> 0, bytes |-> <<>>]
    /\ enableBits' = <<>>
    /\ readings' = [next |-> <<>>, bytes |-> <<>>]
    /\ parsed' = <<>>
    /\ UNCHANGED line

Sizes == 0..MaxActuators

Next ==
    \/ \E n \in Sizes, p \in Payload : \E reps \in [1..n -> Configurable] : Build(reps, p)
    \/ \E i \in DOMAIN actuators, rep \in Configurable, p \in Payload : Configure(i, rep, p)
    \/ \E i \in DOMAIN actuators, p \in Payload : Move(i, p)
    \/ \E n \in Sizes, announced \in BOOLEAN : Resize(n, announced)
    \/ \E i \in DOMAIN actuators : deleteActuator(i)
    \/ RequestSync
    \/ syncData
    \/ parse
    \/ LoseByte
    \/ ResetBoard

\* The timer of the controller calls syncData() each second; the board reads in its loop.
Fairness == WF_vars(syncData) /\ WF_vars(parse)

Spec == Init /\ [][Next]_vars
FairSpec == Spec /\ Fairness

-----------------------------------------------------------------------------
(* Properties *)

\* Every variable has its type.
TypeOK ==
    /\ \A i \in DOMAIN actuators : Unflagged(actuators[i]) \in Actuator
    /\ {countDirty, syncDue, clean} \subseteq BOOLEAN
    /\ serializing \in {SYNC, AWAITING_COMMAND}
    /\ line \in Seq(Byte)
    /\ command \in {SYNC, AWAITING_COMMAND, SET_COUNT, SET_CONFIG, SET_VALUES, SET_LIMP}
    /\ magicIndex \in 0..3
    /\ command # SYNC => magicIndex = 0
    /\ configIndex \in -1..255
    /\ config.of \in 0..Len(parsed) /\ config.bytes \in Seq(Byte)
    /\ \A i \in DOMAIN parsed : parsed[i] \in Actuator
    /\ enableBits \in Seq(Byte)
    /\ \A k \in DOMAIN readings.next : ToSet(readings.next[k]) \subseteq DOMAIN parsed

\* The board is between two frames whenever it has read a batch to its end,
\* and it holds as many actuators, of the same representations, as it was told of.
\* No frame says where it ends: the parsers of values and of configurations must
\* work out from their own copy of the set what the serializers worked out from theirs.
InStep ==
    clean /\ line = <<>> =>
        /\ command = serializing
        /\ configIndex = -1
        /\ Len(parsed) = Len(told)
        /\ \A i \in DOMAIN told : parsed[i].rep = told[i].rep

Bytes(rep) == IF ByteCount(rep) = 1 THEN 1 ELSE 2
Holds(bytes, saying, n, spoilt) ==
    /\ \A k \in 1..n - 1 : bytes[k] = saying[k]
    /\ bytes[n] = IF spoilt THEN 0 ELSE saying[n]

\* While the frames have their proper length, the board holds the range and the value
\* it was last told of each actuator, but for the last byte of each frame: that one is 0.
OnlyLastByteLost ==
    clean /\ line = <<>> =>
        \A i \in DOMAIN told :
            told[i].rep # NONE =>
                /\ Holds(parsed[i].value, told[i].value, Bytes(told[i].rep), told[i].spoilt)
                /\ Holds(parsed[i].range, told[i].range, Bytes(told[i].rep), TRUE)

\* States of the parser that only a reset ends: the command to go limp, and a
\* configuration whose representation is none.
Trapped ==
    \/ command = SET_LIMP
    \/ command = SET_CONFIG /\ config.bytes # <<>> /\ config.bytes[1] >= NONE

\* Whatever was lost, and wherever in a frame: if the computer goes on to send
\* frames of sync, the board waits for a command again, unless it is trapped.
Regains ==
    []<>(line = SyncFrame) => []<>(Trapped \/ (line = <<>> /\ command = AWAITING_COMMAND))

\* The comparison at the end of testCommandSerializerFull: once everything is
\* sent and read, the two sets are the same.
SetsCompareEqual ==
    clean /\ line = <<>> =>
        \A i \in DOMAIN told :
            told[i].rep # NONE =>
                /\ Holds(parsed[i].value, told[i].value, Bytes(told[i].rep), FALSE)
                /\ Holds(parsed[i].range, told[i].range, Bytes(told[i].rep), FALSE)

=============================================================================
