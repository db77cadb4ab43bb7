---------------------------- MODULE BlobTransfer ----------------------------
(***************************************************************************)
(* The transfer of blobs between the two ends of a channel: BlobCourier    *)
(* with Blob, SendingBlob, ReceivingBlob and their chunks.                 *)
(*                                                                         *)
(* A courier is asked for a packet from time to time and writes one: the   *)
(* name of a blob until the name is acknowledged, one chunk, and the       *)
(* acknowledgements it owes.  The fields have no tags: the reader of a     *)
(* packet without a chunk reads on where the chunk would be.  What it then *)
(* takes the next bytes for is modelled, the bytes are not: the checksum   *)
(* tells a chunk from other bytes, except from none at all.                *)
(*                                                                         *)
(* A name and an id stand for a blob.  What is read of bytes that are      *)
(* acknowledgements is left open as far as it depends on their values: a   *)
(* name among them is a ghost, which may be new or not, but no blob has    *)
(* it; and no blob has the id that straddles two of them.                  *)
(***************************************************************************)
EXTENDS Integers, Sequences, FiniteSets

CONSTANTS
    Courier,      \* the two ends of the channel
    Blob,         \* the blobs that may be submitted
    Owner,        \* the courier that sends a blob
    Total,        \* mTotalIndecies: the number of chunks of a blob
    LastSize,     \* the bytes in the last chunk of a blob
    NameSize,     \* the bytes in the name of a blob
    Settings      \* bounds: the tuples <<offered, each, all, owed>> to look at

ASSUME CourierAssumption ==
    /\ IsFiniteSet(Courier) /\ Cardinality(Courier) = 2
    /\ Owner \in [Blob -> Courier]
ASSUME TotalAssumption == Total \in [Blob -> Nat \ {0}]
\* A name has up to ten characters, of up to three bytes each.
ASSUME SizeAssumption == LastSize \in [Blob -> 1..400] /\ NameSize \in [Blob -> 1..30]
ASSUME SettingsAssumption == Settings \subseteq (SUBSET Blob) \X Nat \X Nat \X Nat

VARIABLES
    setting,    \* bounds: one of Settings
    calm,       \* environment: the link delivers each packet once, in order
    submitted,  \* mSendingBlobsById, mSendingBlobsByName
    sent,       \* mIsSent: the chunks sent at least once
    acked,      \* mIsAcknowleged
    nameAcked,  \* mNameAcknowleged
    unsent,     \* mUnsentIndex
    unacked,    \* mUnacknowlegedIndex
    known,      \* mReceivingBlobsByName, the blobs in it
    byId,       \* mReceivingBlobsById: what stands under the id of a blob
    got,        \* mIsReceived
    data,       \* mData: the chunks that hold what was sent
    completed,  \* history: blobReceiveComplete() was emitted
    pending,    \* mPendingAcks
    net         \* the packets under way

senderVars == <<submitted, sent, acked, nameAcked, unsent, unacked>>
receiverVars == <<known, byId, got, data, completed>>
vars == <<setting, calm, senderVars, receiverVars, pending, net>>

\* Bounds: the blobs that are ever submitted, the packets under way to one courier and
\* to both, and the acknowledgements owed by a courier that is sent to.  They bound what
\* is sent and what the link repeats; a courier takes every packet that arrives.
Offered == setting[1]
MaxToOne == setting[2]
MaxInAll == setting[3]
MaxOwed == setting[4]

Peer(c) == CHOOSE d \in Courier : d # c
Receiver(b) == Peer(Owner[b])

NoBlob == "noBlob"
ASSUME BlobAssumption == NoBlob \notin Blob
NoChunk == -1
NameAck == -1
Chunks(b) == 0..Total[b] - 1
\* Total[b] stands for every chunk that a blob does not have, but a ghost may.
Acks == [blob : Blob, chunk : {NameAck} \cup UNION {0..Total[b] : b \in Blob}]

Packets ==
    [to : Courier, blob : Blob \cup {NoBlob}, kind : {"idle", "done", "bare", "chunk"},
     name : BOOLEAN, chunk : {NoChunk} \cup UNION {Chunks(b) : b \in Blob},
     acks : Seq(Acks)]

-----------------------------------------------------------------------------
(* SendingBlob *)

\* Mutant: what was sent counts.
IsDoneWhenSent(b) == sent[b] = Chunks(b) /\ nameAcked[b]

IsDone(b) == acked[b] = Chunks(b) /\ nameAcked[b]

MaxInTransit(b) == IF Total[b] <= 10 THEN 1 ELSE Total[b] \div 10

\* firstUnsent() and firstUnacknowleged(): one before the first clear bit.
BeforeFirstClear(bits, b) ==
    (CHOOSE i \in 0..Total[b] : i \notin bits /\ \A j \in 0..i - 1 : j \in bits) - 1

\* findNextSendingChunk(): the chunk to send, or none, and both indices after it.
\* While few chunks are in transit the next unsent one is sent; otherwise, when
\* it is time for a resend (due), the next one that may be unacknowledged.
Choice(n, u, a) == [chunk |-> n, unsent |-> u, unacked |-> a]

NextChunk(b, due) ==
    LET i == IF unsent[b] >= Total[b] THEN BeforeFirstClear(sent[b], b) ELSE unsent[b]
        j == IF unacked[b] + 1 >= Total[b] THEN BeforeFirstClear(acked[b], b)
             ELSE unacked[b] + 1 IN
    IF acked[b] = Chunks(b) THEN Choice(NoChunk, unsent[b], unacked[b])
    ELSE IF Cardinality(sent[b]) - Cardinality(acked[b]) <= MaxInTransit(b)
    THEN Choice(i, i + 1, unacked[b])
    ELSE IF due THEN Choice(j, unsent[b], j)
    ELSE Choice(NoChunk, unsent[b], unacked[b])

-----------------------------------------------------------------------------
(* Initial state; nothing has been submitted *)

Init ==
    /\ setting \in Settings
    /\ calm \in BOOLEAN
    /\ submitted = {}
    /\ sent = [b \in Blob |-> {}]
    /\ acked = [b \in Blob |-> {}]
    /\ nameAcked = [b \in Blob |-> FALSE]
    /\ unsent = [b \in Blob |-> 0]
    /\ unacked = [b \in Blob |-> 0]
    /\ known = {}
    /\ byId = [b \in Blob |-> "none"]
    /\ got = [b \in Blob |-> {}]
    /\ data = [b \in Blob |-> {}]
    /\ completed = [b \in Blob |-> FALSE]
    /\ pending = [c \in Courier |-> <<>>]
    /\ net = {}

(* submitSendingBlob() refuses a name that is there already. *)
Submit(b) ==
    /\ b \in Offered \ submitted
    /\ submitted' = submitted \cup {b}
    /\ UNCHANGED <<setting, calm, sent, acked, nameAcked, unsent, unacked, receiverVars, pending, net>>

-----------------------------------------------------------------------------
(* sendingOpportunity() *)

InTransit(c) == {p \in net : p.to = c}

\* The bytes before the acknowledgements; the four of a chunk's number count as two.
Written(b, kind, name, n) ==
    IF kind \in {"idle", "done"} THEN 2
    ELSE 3 + (IF name THEN NameSize[b] + 8 ELSE 0)
           + IF kind = "bare" THEN 2 ELSE 6 + IF n = Total[b] - 1 THEN LastSize[b] ELSE 400

\* MAX_ACKS: what is left of 400 bytes, in fours, rounded towards 0.  It is a quint16,
\* which wraps where a chunk leaves less than nothing.
MaxAcks(bytes) ==
    IF bytes <= 404 THEN (404 - bytes) \div 4 ELSE (65536 - (bytes - 404) \div 4) % 65536

\* ackCount, a quint8: of the acknowledgements owed, how many go into a packet.
AckCount(owed, bytes) ==
    LET few == owed % 65536 <= MaxAcks(bytes) IN
    (IF few THEN owed % 65536 ELSE MaxAcks(bytes)) % 256

\* The end of every packet: the oldest acknowledgements owed, which are then forgotten.
Emit(c, b, kind, name, n) ==
    LET k == AckCount(Len(pending[c]), Written(b, kind, name, n)) IN
    /\ Cardinality(InTransit(Peer(c))) < IF calm THEN 1 ELSE MaxToOne
    /\ calm \/ Cardinality(net) < MaxInAll
    /\ Len(pending[Peer(c)]) <= MaxOwed
    /\ net' = net \cup {[to |-> Peer(c), blob |-> b, kind |-> kind, name |-> name,
                         chunk |-> n, acks |-> SubSeq(pending[c], 1, k)]}
    /\ pending' = [pending EXCEPT ![c] = SubSeq(@, k + 1, Len(@))]
    /\ UNCHANGED <<setting, calm, submitted, acked, nameAcked, receiverVars>>

\* Without blobs to send a courier that heard of one still sends packets.
SendIdle(c) ==
    /\ \A b \in submitted : Owner[b] # c
    /\ \E b \in Blob : Receiver(b) = c /\ byId[b] # "none"
    /\ Emit(c, NoBlob, "idle", FALSE, NoChunk)
    /\ UNCHANGED <<sent, unsent, unacked>>

\* A blob that is done is still chosen; only its id is sent.
SendDone(c, b) ==
    /\ b \in submitted /\ Owner[b] = c /\ IsDone(b)
    /\ Emit(c, b, "done", FALSE, NoChunk)
    /\ UNCHANGED <<sent, unsent, unacked>>

\* due: mLastResendTime is long enough ago.
SendBlob(c, b, due) ==
    LET next == NextChunk(b, due) IN
    /\ b \in submitted /\ Owner[b] = c /\ ~IsDone(b)
    /\ Emit(c, b, IF next.chunk = NoChunk THEN "bare" ELSE "chunk",
            ~nameAcked[b], next.chunk)
    /\ sent' = [sent EXCEPT ![b] = @ \cup ({next.chunk} \ {NoChunk})]
    /\ unsent' = [unsent EXCEPT ![b] = next.unsent]
    /\ unacked' = [unacked EXCEPT ![b] = next.unacked]

Send(c) ==
    \/ SendIdle(c)
    \/ \E b \in Blob : SendDone(c, b) \/ \E due \in BOOLEAN : SendBlob(c, b, due)

-----------------------------------------------------------------------------
(* dataReceived() *)

\* In a packet of a blob that is done the count of acknowledgements stands where the
\* size of the name is read, the acknowledgements where the name is; of each four
\* bytes one goes into the name, and the fields after it are read from the others.
LeftOver(p) == IF p.kind = "done" THEN 3 * Len(p.acks) ELSE 0

\* The chunk that a packet appears to carry.  Past its end every field reads as 0, and
\* the checksum of no data is 0: the packet then carries chunk 0, of no bytes.  The
\* number of the chunk follows the eight bytes of a size.
\* Mutant: a chunk is taken for the one after it.
ClaimsOffByOne(p) ==
    IF p.kind = "chunk" THEN {(p.chunk + 1) % Total[p.blob]}
    ELSE IF p.kind = "bare" /\ p.acks # <<>> THEN {NoChunk}
    ELSE IF LeftOver(p) < 8 + 4 THEN {0}
    ELSE {NoChunk} \cup 0..Total[p.blob]

Claims(p) ==
    IF p.kind = "chunk" THEN {p.chunk}
    ELSE IF p.kind = "bare" /\ p.acks # <<>> THEN {NoChunk}
    ELSE IF LeftOver(p) < 8 + 4 THEN {0}
    ELSE {NoChunk} \cup 0..Total[p.blob]

\* The acknowledgements where the reader looks for them, and those that it may come
\* upon after it took sixteen bytes for a chunk and one for their count.
AcksOf(p) == {p.acks[i] : i \in DOMAIN p.acks}
FoundAcks(p) == IF p.kind \in {"idle", "chunk"} THEN AcksOf(p) ELSE {}

\* What the reader makes of a packet: whether it reads the name of a new ghost, whether
\* the ghost, of whatever size, has the chunk, the chunk and the acknowledgements.
NamesGhost(p) == p.kind = "done" /\ p.acks # <<>>
Readings(p) ==
    [ghost : IF NamesGhost(p) THEN BOOLEAN ELSE {FALSE},
     has : IF NamesGhost(p) \/ \E b \in Blob : byId[b] = "ghost" THEN BOOLEAN ELSE {FALSE},
     chunk : Claims(p),
     acks : {FoundAcks(p)} \cup IF LeftOver(p) <= 8 + 8 + 1 THEN {} ELSE SUBSET AcksOf(p)]

NewBlob(p) == p.kind \in {"bare", "chunk"} /\ p.name /\ p.blob \notin known

\* What stands under the id once the name is read: looking up an id that is not
\* there inserts a null blob.
Target(p, r) ==
    IF NewBlob(p) THEN "blob"
    ELSE IF r.ghost THEN "ghost"
    ELSE IF byId[p.blob] = "none" THEN "null" ELSE byId[p.blob]

\* The chunk is one of the blob, or of the ghost, that stands there.
Mark(p, r) ==
    /\ r.chunk # NoChunk
    /\ \/ Target(p, r) = "blob" /\ r.chunk \in Chunks(p.blob)
       \/ Target(p, r) = "ghost" /\ r.has

\* The name is acknowledged when it is new, a chunk whenever it is received.
\* Mutant: a packet earns one acknowledgement.
OwedOnce(p, r) ==
    IF Mark(p, r) THEN <<[blob |-> p.blob, chunk |-> r.chunk]>>
    ELSE IF NewBlob(p) \/ r.ghost THEN <<[blob |-> p.blob, chunk |-> NameAck]>>
    ELSE <<>>

Owed(p, r) ==
    (IF NewBlob(p) \/ r.ghost THEN <<[blob |-> p.blob, chunk |-> NameAck]>> ELSE <<>>)
    \o (IF Mark(p, r) THEN <<[blob |-> p.blob, chunk |-> r.chunk]>> ELSE <<>>)

\* The part of a packet about a blob of the peer.
ReceiveBlob(p, r) ==
    LET b == p.blob
        chunks == IF Mark(p, r) /\ Target(p, r) = "blob" THEN {r.chunk} ELSE {} IN
    /\ known' = IF NewBlob(p) THEN known \cup {b} ELSE known
    /\ byId' = [byId EXCEPT ![b] = Target(p, r)]
    /\ got' = [got EXCEPT ![b] = @ \cup chunks]
    /\ data' = [data EXCEPT ![b] = IF p.kind = "chunk" THEN @ \cup chunks ELSE @]
    /\ completed' = [completed EXCEPT ![b] = @ \/ (chunks # {} /\ got'[b] = Chunks(b))]
    /\ pending' = [pending EXCEPT ![p.to] = @ \o Owed(p, r)]

\* The acknowledgements, for blobs of this courier.
ReceiveAcks(r) ==
    /\ nameAcked' = [b \in Blob |-> nameAcked[b] \/ [blob |-> b, chunk |-> NameAck] \in r.acks]
    /\ acked' = [b \in Blob |->
                    acked[b] \cup {n \in Chunks(b) : [blob |-> b, chunk |-> n] \in r.acks}]

\* again: the packet will arrive once more, which happens on no calm link.
Receive(p, again) ==
    /\ p \in net
    /\ again => ~calm /\ Len(pending[p.to]) <= MaxOwed
    /\ \E r \in Readings(p) :
          /\ IF p.blob = NoBlob THEN UNCHANGED <<receiverVars, pending>> ELSE ReceiveBlob(p, r)
          /\ ReceiveAcks(r)
    /\ net' = IF again THEN net ELSE net \ {p}
    /\ UNCHANGED <<setting, calm, submitted, sent, unsent, unacked>>

\* external: the link loses a packet.
Lose(p) ==
    /\ p \in net /\ ~calm
    /\ net' = net \ {p}
    /\ UNCHANGED <<setting, calm, senderVars, receiverVars, pending>>

-----------------------------------------------------------------------------
ReceiveAny(c) == \E p \in InTransit(c) : Receive(p, FALSE)

Next ==
    \/ \E b \in Blob : Submit(b)
    \/ \E c \in Courier : Send(c)
    \/ \E p \in net : Lose(p) \/ \E again \in BOOLEAN : Receive(p, again)

Spec == Init /\ [][Next]_vars

(* The channel asks a courier for packets as long as it wants to send, and a  *)
(* calm link delivers.                                                        *)
Fairness == \A c \in Courier : WF_vars(Send(c)) /\ WF_vars(ReceiveAny(c))
FairSpec == Spec /\ Fairness

-----------------------------------------------------------------------------
(* Properties *)

\* Every variable has its type.
TypeOK ==
    /\ setting \in Settings
    /\ calm \in BOOLEAN
    /\ submitted \subseteq Blob /\ known \subseteq Blob
    /\ sent \in [Blob -> SUBSET Nat] /\ acked \in [Blob -> SUBSET Nat]
    /\ got \in [Blob -> SUBSET Nat] /\ data \in [Blob -> SUBSET Nat]
    /\ \A b \in Blob : sent[b] \cup acked[b] \cup got[b] \cup data[b] \subseteq Chunks(b)
    /\ nameAcked \in [Blob -> BOOLEAN] /\ completed \in [Blob -> BOOLEAN]
    /\ unsent \in [Blob -> Nat]
    /\ \A b \in Blob : unsent[b] <= Total[b]
    /\ unacked \in [Blob -> Int]
    /\ \A b \in Blob : unacked[b] \in {-1} \cup Chunks(b)
    /\ byId \in [Blob -> {"none", "null", "blob", "ghost"}]
    /\ pending \in [Courier -> Seq(Acks)]
    /\ net \subseteq Packets

\* A receiver claims no chunk that was never sent, although every packet without
\* a chunk and without acknowledgements appears to carry chunk 0.
ClaimsWereSent == \A b \in Blob : got[b] \subseteq sent[b]

\* The sender is done with a blob only after the receiver announced it complete
\* (blobReceiveComplete()), whatever was lost, duplicated or reordered.
DoneMeansComplete == \A b \in Blob : IsDone(b) => completed[b]

\* On a calm link, a blob that is the only traffic between the couriers reaches
\* the receiver and the sender learns of it.
OnlyTraffic(b) == \A other \in submitted : Owner[other] = Owner[b]
QuietTransferEnds ==
    \A b \in Blob : []OnlyTraffic(b) => (b \in submitted /\ calm ~> IsDone(b))

\* The acknowledgement of a chunk or of the name is owed, or is under way in a packet
\* in which its reader finds it.
AckToCome(b, n) ==
    LET ack == [blob |-> b, chunk |-> n] IN
    \/ \E i \in DOMAIN pending[Receiver(b)] : pending[Receiver(b)][i] = ack
    \/ \E p \in net : p.to = Owner[b] /\ ack \in FoundAcks(p)

\* On a calm link without traffic the other way, what the sender waits for is always
\* on its way: each chunk it has sent, or the answer to it, and the name, which is
\* acknowledged only once.
NothingGoesMissing ==
    calm =>
        \A b \in submitted : OnlyTraffic(b) =>
            /\ \A n \in sent[b] \ acked[b] :
                  AckToCome(b, n) \/ \E p \in net : p.blob = b /\ p.kind = "chunk" /\ p.chunk = n
            /\ sent[b] # {} /\ ~nameAcked[b] =>
                  AckToCome(b, NameAck) \/ (b \notin known /\ \E p \in net : p.blob = b /\ p.name)

\* A chunk that the receiver holds as received has its data.
\* BlobCourier.cpp:323 says that a packet without a chunk says so.
ReceivedHasData == \A b \in Blob : got[b] = data[b]
=============================================================================
