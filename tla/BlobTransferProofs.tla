------------------------- MODULE BlobTransferProofs -------------------------
(***************************************************************************)
(* What is proved of BlobTransfer, for any blobs, numbers of chunks and    *)
(* settings, and so for any number of packets under way and of             *)
(* acknowledgements owed: its types, that no chunk is claimed that was not *)
(* sent, that a sender who is done has a receiver who announced the blob,  *)
(* and that on a calm link nothing the sender waits for goes missing.      *)
(***************************************************************************)
EXTENDS BlobTransfer, TLAPS, FiniteSetTheorems, WellFoundedInduction

USE CourierAssumption, TotalAssumption, SettingsAssumption

\* What makes the two properties inductive.  An acknowledged chunk was received,
\* and so was one of the blob whose acknowledgement is owed or under way.
Honest(ack) == ack.chunk \in Chunks(ack.blob) => ack.chunk \in got[ack.blob]

AcksHonest ==
    /\ \A b \in Blob : acked[b] \subseteq got[b]
    /\ \A c \in Courier : \A i \in DOMAIN pending[c] : Honest(pending[c][i])
    /\ \A p \in net : \A i \in DOMAIN p.acks : Honest(p.acks[i])

\* A ghost takes the place of a blob only once all its chunks are acknowledged.
GhostsLate == \A b \in Blob : byId[b] = "ghost" => acked[b] = Chunks(b)

\* The first chunk sent is chunk 0, and it was sent before any packet that
\* appears to carry it.
StartsWithFirst ==
    \A b \in Blob : (sent[b] # {} \/ unsent[b] > 0) => 0 \in sent[b]

PacketsHonest ==
    \A p \in net :
        /\ p.kind = "idle" => p.blob = NoBlob
        /\ p.kind # "idle" => p.blob \in Blob
        /\ p.kind = "chunk" => p.chunk \in sent[p.blob]
        /\ p.kind = "bare" => 0 \in sent[p.blob]
        /\ p.kind = "done" => acked[p.blob] = Chunks(p.blob)

\* The last chunk to arrive announces the blob.
LastAnnounces == \A b \in Blob : got[b] = Chunks(b) => completed[b]

IInv ==
    /\ TypeOK
    /\ ClaimsWereSent
    /\ AcksHonest
    /\ GhostsLate
    /\ StartsWithFirst
    /\ PacketsHonest
    /\ LastAnnounces

-----------------------------------------------------------------------------
(* The operators *)

\* The least number that is not in a set.
LEMMA FirstClear ==
    ASSUME NEW bits, NEW n \in Nat, n \notin bits
    PROVE  \E i \in 0..n : i \notin bits /\ \A j \in 0..i - 1 : j \in bits
  <1> DEFINE Less == {p \in Nat \X Nat : p[1] < p[2]}
             Clear == {i \in Nat : i \notin bits}
  <1>1. IsWellFoundedOn(Less, Nat)
    BY NatLessThanWellFounded DEF OpToRel
  <1>2. Clear \subseteq Nat /\ Clear # {}
    OBVIOUS
  <1>3. \E i \in Clear : \A j \in Clear : <<j, i>> \notin Less
    <2> HIDE DEF Less, Clear
    <2>1. QED
      BY <1>1, <1>2, WFMin
  <1>4. PICK i \in Clear : \A j \in Clear : ~(j < i)
    BY <1>3
  <1>5. QED
    BY <1>4

LEMMA ClearType ==
    ASSUME NEW b \in Blob, NEW bits \in SUBSET Chunks(b)
    PROVE  BeforeFirstClear(bits, b) \in {-1} \cup Chunks(b)
  <1>1. Total[b] \in Nat /\ Total[b] \notin bits
    BY DEF Chunks
  <1>2. \E i \in 0..Total[b] : i \notin bits /\ \A j \in 0..i - 1 : j \in bits
    BY <1>1, FirstClear
  <1> DEFINE first == CHOOSE i \in 0..Total[b] : i \notin bits /\ \A j \in 0..i - 1 : j \in bits
  <1>3. first \in 0..Total[b]
    BY <1>2
  <1>4. BeforeFirstClear(bits, b) = first - 1
    BY DEF BeforeFirstClear
  <1> HIDE DEF first
  <1>5. QED
    BY <1>1, <1>3, <1>4 DEF Chunks

LEMMA ChunksFinite ==
    ASSUME NEW b \in Blob, NEW S \in SUBSET Chunks(b)
    PROVE  /\ IsFiniteSet(S)
           /\ Cardinality(S) \in Nat
           /\ S = {} => Cardinality(S) = 0
  <1>1. IsFiniteSet(Chunks(b))
    BY FS_Interval DEF Chunks
  <1>2. IsFiniteSet(S)
    BY <1>1, FS_Subset
  <1>3. QED
    BY <1>2, FS_EmptySet, FS_CardinalityType

LEMMA PeerType == ASSUME NEW c \in Courier PROVE Peer(c) \in Courier
  <1>1. \E d \in Courier : d # c
    <2>1. SUFFICES ASSUME Courier = {c} PROVE FALSE
      OBVIOUS
    <2>2. Cardinality({c}) = 1
      BY FS_Singleton
    <2>3. QED
      BY <2>1, <2>2
  <1>2. QED
    BY <1>1 DEF Peer

\* What findNextSendingChunk() returns.
LEMMA NextFacts ==
    ASSUME IInv, NEW b \in Blob, NEW due \in BOOLEAN, NEW next, next = NextChunk(b, due)
    PROVE  /\ next.chunk \in {NoChunk} \cup Chunks(b)
           /\ next.unsent \in 0..Total[b]
           /\ next.unacked \in {-1} \cup Chunks(b)
           /\ next.chunk = NoChunk => 0 \in sent[b]
           /\ 0 \in sent[b] \/ next.chunk = 0
  <1>1. /\ Total[b] \in Nat \ {0} /\ unsent[b] \in 0..Total[b]
        /\ sent[b] \subseteq Chunks(b) /\ acked[b] \subseteq Chunks(b)
        /\ unacked[b] \in {-1} \cup Chunks(b)
    BY DEF IInv, TypeOK
  <1> DEFINE i == IF unsent[b] >= Total[b] THEN BeforeFirstClear(sent[b], b) ELSE unsent[b]
             j == IF unacked[b] + 1 >= Total[b] THEN BeforeFirstClear(acked[b], b)
                  ELSE unacked[b] + 1
             few == Cardinality(sent[b]) - Cardinality(acked[b]) <= MaxInTransit(b)
  <1>2. i \in {-1} \cup Chunks(b) /\ j \in {-1} \cup Chunks(b)
    BY <1>1, ClearType DEF Chunks
  <1>3. next = IF acked[b] = Chunks(b) THEN Choice(NoChunk, unsent[b], unacked[b])
               ELSE IF few THEN Choice(i, i + 1, unacked[b])
               ELSE IF due THEN Choice(j, unsent[b], j)
               ELSE Choice(NoChunk, unsent[b], unacked[b])
    BY DEF NextChunk
  <1>4. acked[b] = Chunks(b) => 0 \in sent[b]
    BY <1>1 DEF IInv, AcksHonest, ClaimsWereSent, Chunks
  <1>5. ~few => 0 \in sent[b]
    <2>1. MaxInTransit(b) \in Nat
      BY <1>1 DEF MaxInTransit
    <2>2. ~few => Cardinality(sent[b]) # 0
      BY <2>1, <1>1, ChunksFinite
    <2>3. QED
      BY <2>2, <1>1, ChunksFinite DEF IInv, StartsWithFirst
  <1>6. 0 \in sent[b] \/ i = 0
    BY <1>1 DEF IInv, StartsWithFirst
  <1> HIDE DEF i, j, few
  <1>7. QED
    BY <1>1, <1>2, <1>3, <1>4, <1>5, <1>6 DEF Choice, NoChunk, Chunks

-----------------------------------------------------------------------------
(* Sending *)

\* As many acknowledgements go into a packet as are owed, or fewer.
LEMMA WrittenType ==
    ASSUME NEW b \in Blob \cup {NoBlob}, NEW kind, NEW name, NEW n,
           kind \notin {"idle", "done"} => b \in Blob
    PROVE  Written(b, kind, name, n) \in Nat
  <1>1. b \in Blob => NameSize[b] \in Nat /\ LastSize[b] \in Nat
    BY SizeAssumption
  <1>2. CASE kind \in {"idle", "done"}
    BY <1>2 DEF Written
  <1>3. CASE kind \notin {"idle", "done"}
    <2> DEFINE x == IF name THEN NameSize[b] + 8 ELSE 0
               size == IF n = Total[b] - 1 THEN LastSize[b] ELSE 400
               y == IF kind = "bare" THEN 2 ELSE 6 + size
    <2>1. x \in Nat /\ size \in Nat
      BY <1>1, <1>3
    <2>2. y \in Nat
      <3> HIDE DEF size
      <3> QED
        BY <2>1
    <2>3. Written(b, kind, name, n) = 3 + x + y
      BY <1>3 DEF Written
    <2> HIDE DEF x, y
    <2> QED
      BY <2>1, <2>2, <2>3
  <1> QED
    BY <1>2, <1>3

LEMMA CountType ==
    ASSUME NEW owed \in Nat, NEW bytes \in Nat
    PROVE  AckCount(owed, bytes) \in 0..owed
  <1> DEFINE max == MaxAcks(bytes)
  <1>1. max \in Nat
    <2>1. CASE bytes <= 404
      <3>1. 404 - bytes \in Nat
        BY <2>1
      <3> QED
        BY <2>1, <3>1 DEF MaxAcks
    <2>2. CASE ~(bytes <= 404)
      <3> DEFINE q == 65536 - (bytes - 404) \div 4
      <3>1. q \in Int
        OBVIOUS
      <3> HIDE DEF q
      <3>2. q % 65536 \in Nat
        BY <3>1
      <3> QED
        BY <2>2, <3>2 DEF MaxAcks, q
    <2> QED
      BY <2>1, <2>2
  <1> DEFINE low == owed % 65536
             k == IF low <= max THEN low ELSE max
  <1>2. low \in Nat /\ low <= owed
    OBVIOUS
  <1>3. AckCount(owed, bytes) = k % 256
    BY DEF AckCount
  <1> HIDE DEF max, low
  <1>4. k \in Nat /\ k <= owed
    BY <1>1, <1>2
  <1> HIDE DEF k
  <1>5. k % 256 \in Nat /\ k % 256 <= k
    BY <1>4
  <1> QED
    BY <1>2, <1>3, <1>4, <1>5

\* A sequence in two parts.
LEMMA Split ==
    ASSUME NEW S, NEW s \in Seq(S), NEW k \in 0..Len(s)
    PROVE  /\ SubSeq(s, 1, k) \in Seq(S) /\ SubSeq(s, k + 1, Len(s)) \in Seq(S)
           /\ \A i \in DOMAIN SubSeq(s, 1, k) : i \in DOMAIN s /\ SubSeq(s, 1, k)[i] = s[i]
           /\ \A i \in DOMAIN SubSeq(s, k + 1, Len(s)) :
                 k + i \in DOMAIN s /\ SubSeq(s, k + 1, Len(s))[i] = s[k + i]
           /\ \A j \in DOMAIN s :
                 \/ j \in DOMAIN SubSeq(s, 1, k)
                 \/ j - k \in DOMAIN SubSeq(s, k + 1, Len(s))
  OBVIOUS

\* What Emit() does: the packet that it adds, with the oldest acknowledgements owed.
Emitted(m, c, b, kind, name, n) ==
    /\ net' = net \cup {m}
    /\ m = [to |-> Peer(c), blob |-> b, kind |-> kind, name |-> name,
            chunk |-> n, acks |-> m.acks]
    /\ m.acks \in Seq(Acks) /\ pending'[c] \in Seq(Acks)
    /\ \A d \in Courier : d # c => pending'[d] = pending[d]
    /\ pending' \in [Courier -> Seq(Acks)]
    /\ \A i \in DOMAIN m.acks : \E j \in DOMAIN pending[c] : m.acks[i] = pending[c][j]
    /\ \A i \in DOMAIN pending'[c] :
          \E j \in DOMAIN pending[c] : pending'[c][i] = pending[c][j]
    /\ \A j \in DOMAIN pending[c] :
          \/ \E i \in DOMAIN m.acks : m.acks[i] = pending[c][j]
          \/ \E i \in DOMAIN pending'[c] : pending'[c][i] = pending[c][j]
    /\ pending[c] = <<>> => m.acks = <<>> /\ pending'[c] = <<>>

LEMMA EmitFacts ==
    ASSUME IInv, NEW c \in Courier, NEW b \in Blob \cup {NoBlob},
           NEW kind \in {"idle", "done", "bare", "chunk"}, NEW name, NEW n,
           Emit(c, b, kind, name, n),
           kind # "idle" => b \in Blob
    PROVE  \E m : Emitted(m, c, b, kind, name, n)
  <1> DEFINE s == pending[c]
             k == AckCount(Len(s), Written(b, kind, name, n))
             front == SubSeq(s, 1, k)
             rest == SubSeq(s, k + 1, Len(s))
             m == [to |-> Peer(c), blob |-> b, kind |-> kind, name |-> name,
                   chunk |-> n, acks |-> front]
  <1>1. s \in Seq(Acks) /\ pending \in [Courier -> Seq(Acks)]
    BY DEF IInv, TypeOK
  <1>2. k \in 0..Len(s)
    <2>1. Len(s) \in Nat
      BY <1>1
    <2>2. Written(b, kind, name, n) \in Nat
      BY WrittenType
    <2> QED
      BY <2>1, <2>2, CountType
  <1>3. net' = net \cup {m} /\ pending' = [pending EXCEPT ![c] = SubSeq(@, k + 1, Len(@))]
    BY DEF Emit
  <1>4. pending' = [pending EXCEPT ![c] = rest]
    BY <1>3
  <1>5. m.acks = front
    OBVIOUS
  <1> HIDE DEF s, k
  <1>6. /\ front \in Seq(Acks) /\ rest \in Seq(Acks)
        /\ \A i \in DOMAIN front : i \in DOMAIN s /\ front[i] = s[i]
        /\ \A i \in DOMAIN rest : k + i \in DOMAIN s /\ rest[i] = s[k + i]
        /\ \A j \in DOMAIN s : j \in DOMAIN front \/ j - k \in DOMAIN rest
    BY <1>1, <1>2, Split
  <1>7. s = <<>> => front = <<>> /\ rest = <<>>
    <2> SUFFICES ASSUME s = <<>> PROVE front = <<>> /\ rest = <<>>
      OBVIOUS
    <2>1. k = 0
      BY <1>2
    <2> QED
      BY <2>1
  <1> HIDE DEF front, rest
  <1>8. pending'[c] = rest /\ \A d \in Courier : d # c => pending'[d] = pending[d]
    BY <1>1, <1>4
  <1>9. ASSUME NEW j \in DOMAIN s
        PROVE  \/ \E i \in DOMAIN front : front[i] = s[j]
               \/ \E i \in DOMAIN rest : rest[i] = s[j]
    <2>1. CASE j \in DOMAIN front
      BY <2>1, <1>6
    <2>2. CASE j - k \in DOMAIN rest
      <3>1. j \in Nat /\ k \in Nat
        BY <1>1, <1>2
      <3>2. rest[j - k] = s[k + (j - k)] /\ k + (j - k) = j
        BY <3>1, <2>2, <1>6
      <3> QED
        BY <3>2, <2>2
    <2> QED
      BY <2>1, <2>2, <1>6
  <1>10. pending' \in [Courier -> Seq(Acks)]
    BY <1>1, <1>4, <1>6
  <1>11. m = [to |-> Peer(c), blob |-> b, kind |-> kind, name |-> name, chunk |-> n, acks |-> m.acks]
    BY <1>5
  <1> HIDE DEF m
  <1>12. /\ \A i \in DOMAIN m.acks : \E j \in DOMAIN s : m.acks[i] = s[j]
         /\ \A i \in DOMAIN pending'[c] : \E j \in DOMAIN s : pending'[c][i] = s[j]
         /\ \A j \in DOMAIN s : \/ \E i \in DOMAIN m.acks : m.acks[i] = s[j]
                               \/ \E i \in DOMAIN pending'[c] : pending'[c][i] = s[j]
    BY <1>5, <1>6, <1>8, <1>9
  <1> QED
    BY <1>3, <1>5, <1>6, <1>7, <1>8, <1>10, <1>11, <1>12 DEF s, Emitted

\* A packet that carries a chunk that is counted as sent, or none after chunk 0,
\* preserves the invariant, whichever of the three kinds of sending wrote it.
LEMMA EmitPreserves ==
    ASSUME IInv, NEW c \in Courier, NEW b \in Blob \cup {NoBlob},
           NEW kind \in {"idle", "done", "bare", "chunk"}, NEW name \in BOOLEAN,
           NEW n \in {NoChunk} \cup UNION {Chunks(x) : x \in Blob},
           Emit(c, b, kind, name, n),
           kind = "idle" => b = NoBlob,
           kind # "idle" => b \in Blob,
           kind = "chunk" => n \in sent'[b],
           kind = "bare" => 0 \in sent'[b],
           kind = "done" => acked[b] = Chunks(b),
           sent' \in [Blob -> SUBSET Nat],
           unsent' \in [Blob -> Nat], unacked' \in [Blob -> Int],
           \A x \in Blob :
               /\ sent[x] \subseteq sent'[x] /\ sent'[x] \subseteq Chunks(x)
               /\ unsent'[x] <= Total[x]
               /\ unacked'[x] \in {-1} \cup Chunks(x)
               /\ (sent'[x] # {} \/ unsent'[x] > 0) => 0 \in sent'[x]
    PROVE  IInv'
  <1>0. PICK m : Emitted(m, c, b, kind, name, n)
    BY EmitFacts
  <1>1. /\ net' = net \cup {m}
        /\ m = [to |-> Peer(c), blob |-> b, kind |-> kind, name |-> name,
                chunk |-> n, acks |-> m.acks]
        /\ m.acks \in Seq(Acks) /\ pending' \in [Courier -> Seq(Acks)]
        /\ \A d \in Courier : d # c => pending'[d] = pending[d]
        /\ \A i \in DOMAIN m.acks : \E j \in DOMAIN pending[c] : m.acks[i] = pending[c][j]
        /\ \A i \in DOMAIN pending'[c] :
              \E j \in DOMAIN pending[c] : pending'[c][i] = pending[c][j]
    BY <1>0 DEF Emitted
  <1>2. UNCHANGED <<setting, calm, submitted, acked, nameAcked, known, byId, got, data, completed>>
    BY DEF Emit, receiverVars
  <1>3. /\ m.blob = b /\ m.kind = kind /\ m.chunk = n
        /\ m \in Packets
    BY <1>1, PeerType DEF Packets
  <1>4. TypeOK'
    <2>1. net' \subseteq Packets
      BY <1>1, <1>3 DEF IInv, TypeOK
    <2>2. \A x \in Blob : sent'[x] \cup acked'[x] \cup got'[x] \cup data'[x] \subseteq Chunks(x)
      BY <1>2 DEF IInv, TypeOK
    <2>3. QED
      BY <1>1, <1>2, <2>1, <2>2 DEF IInv, TypeOK, Chunks
  <1>5. ClaimsWereSent'
    BY <1>2 DEF IInv, ClaimsWereSent
  <1>6. AcksHonest'
    <2>2. \A i \in DOMAIN m.acks : Honest(m.acks[i])
      BY <1>1 DEF IInv, AcksHonest
    <2>3. ASSUME NEW d \in Courier, NEW i \in DOMAIN pending'[d]
          PROVE  Honest(pending'[d][i])
      <3>1. CASE d = c
        <4>1. PICK j \in DOMAIN pending[c] : pending'[c][i] = pending[c][j]
          BY <1>1, <2>3, <3>1
        <4> QED
          BY <3>1, <4>1 DEF IInv, AcksHonest
      <3>2. CASE d # c
        <4>1. pending'[d] = pending[d]
          BY <1>1, <3>2
        <4> QED
          BY <2>3, <4>1 DEF IInv, AcksHonest
      <3> QED
        BY <3>1, <3>2
    <2>4. \A p \in net' : \A i \in DOMAIN p.acks : Honest(p.acks[i])
      BY <1>1, <2>2 DEF IInv, AcksHonest
    <2>5. \A x \in Blob : acked'[x] \subseteq got'[x]
      BY <1>2 DEF IInv, AcksHonest
    <2> QED
      BY <1>2, <2>3, <2>4, <2>5 DEF AcksHonest, Honest, Chunks
  <1>7. StartsWithFirst'
    BY DEF StartsWithFirst
  <1>8. PacketsHonest'
    BY <1>1, <1>2, <1>3 DEF IInv, PacketsHonest, Chunks
  <1>9. LastAnnounces' /\ GhostsLate'
    BY <1>2 DEF IInv, LastAnnounces, GhostsLate, Chunks
  <1>10. QED
    BY <1>4, <1>5, <1>6, <1>7, <1>8, <1>9 DEF IInv

\* What EmitPreserves asks of the chunks sent and the indices.
LEMMA SameIndices ==
    ASSUME IInv, UNCHANGED <<sent, unsent, unacked>>
    PROVE  /\ sent' \in [Blob -> SUBSET Nat]
           /\ unsent' \in [Blob -> Nat] /\ unacked' \in [Blob -> Int]
           /\ \A x \in Blob :
               /\ sent[x] \subseteq sent'[x] /\ sent'[x] \subseteq Chunks(x)
               /\ unsent'[x] <= Total[x]
               /\ unacked'[x] \in {-1} \cup Chunks(x)
               /\ (sent'[x] # {} \/ unsent'[x] > 0) => 0 \in sent'[x]
  BY DEF IInv, TypeOK, StartsWithFirst

LEMMA SendIdlePreserves == ASSUME IInv, NEW c \in Courier, SendIdle(c) PROVE IInv'
  <1>1. Emit(c, NoBlob, "idle", FALSE, NoChunk) /\ UNCHANGED <<sent, unsent, unacked>>
    BY DEF SendIdle
  <1>2. QED
    BY <1>1, SameIndices, EmitPreserves

LEMMA SendDonePreserves ==
    ASSUME IInv, NEW c \in Courier, NEW b \in Blob, SendDone(c, b) PROVE IInv'
  <1>1. Emit(c, b, "done", FALSE, NoChunk) /\ UNCHANGED <<sent, unsent, unacked>>
    BY DEF SendDone
  <1>2. acked[b] = Chunks(b)
    BY DEF SendDone, IsDone
  <1>3. QED
    BY <1>1, <1>2, SameIndices, EmitPreserves

LEMMA SendBlobPreserves ==
    ASSUME IInv, NEW c \in Courier, NEW b \in Blob, NEW due \in BOOLEAN,
           SendBlob(c, b, due)
    PROVE  IInv'
  <1> DEFINE next == NextChunk(b, due)
             kind == IF next.chunk = NoChunk THEN "bare" ELSE "chunk"
             name == ~nameAcked[b]
  <1>1. /\ next.chunk \in {NoChunk} \cup Chunks(b)
        /\ next.unsent \in 0..Total[b]
        /\ next.unacked \in {-1} \cup Chunks(b)
        /\ next.chunk = NoChunk => 0 \in sent[b]
        /\ 0 \in sent[b] \/ next.chunk = 0
    BY NextFacts
  <1>2. /\ Emit(c, b, kind, name, next.chunk)
        /\ sent' = [sent EXCEPT ![b] = @ \cup ({next.chunk} \ {NoChunk})]
        /\ unsent' = [unsent EXCEPT ![b] = next.unsent]
        /\ unacked' = [unacked EXCEPT ![b] = next.unacked]
    BY DEF SendBlob
  <1> HIDE DEF next
  <1>3. sent'[b] = sent[b] \cup ({next.chunk} \ {NoChunk})
    BY <1>2 DEF IInv, TypeOK
  <1>4. 0 \in sent'[b]
    BY <1>1, <1>3 DEF NoChunk
  <1>5. \A x \in Blob : x # b => sent'[x] = sent[x] /\ unsent'[x] = unsent[x] /\ unacked'[x] = unacked[x]
    BY <1>2 DEF IInv, TypeOK
  <1>6. /\ Chunks(b) \subseteq Nat
        /\ sent[b] \subseteq Chunks(b) /\ sent'[b] \subseteq Chunks(b)
        /\ unsent'[b] = next.unsent /\ unacked'[b] = next.unacked
    BY <1>1, <1>2, <1>3 DEF IInv, TypeOK, Chunks
  <1>7. /\ sent' \in [Blob -> SUBSET Nat]
        /\ unsent' \in [Blob -> Nat] /\ unacked' \in [Blob -> Int]
    BY <1>1, <1>2, <1>6 DEF IInv, TypeOK
  <1>8. \A x \in Blob :
           /\ sent[x] \subseteq sent'[x] /\ sent'[x] \subseteq Chunks(x)
           /\ unsent'[x] <= Total[x]
           /\ unacked'[x] \in {-1} \cup Chunks(x)
           /\ (sent'[x] # {} \/ unsent'[x] > 0) => 0 \in sent'[x]
    <2> TAKE x \in Blob
    <2>1. CASE x = b
      BY <2>1, <1>1, <1>3, <1>4, <1>6
    <2>2. CASE x # b
      BY <2>2, <1>5 DEF IInv, TypeOK, StartsWithFirst
    <2>3. QED
      BY <2>1, <2>2
  <1>9. /\ name \in BOOLEAN /\ b \in Blob \cup {NoBlob}
        /\ kind \in {"idle", "done", "bare", "chunk"} /\ kind # "idle"
    OBVIOUS
  <1>10. kind = "chunk" => next.chunk \in sent'[b]
    BY <1>3
  <1>11. next.chunk \in {NoChunk} \cup UNION {Chunks(x) : x \in Blob}
    BY <1>1
  <1>17. kind \in {"bare", "chunk"}
    OBVIOUS
  <1> HIDE DEF kind, name
  <1>12. /\ kind = "idle" => b = NoBlob
         /\ kind # "idle" => b \in Blob
         /\ kind = "bare" => 0 \in sent'[b]
         /\ kind # "done"
    BY <1>4, <1>9, <1>17
  <1> DEFINE n == next.chunk
  <1>13. Emit(c, b, kind, name, n)
    BY <1>2
  <1>14. kind = "chunk" => n \in sent'[b]
    BY <1>10
  <1>15. n \in {NoChunk} \cup UNION {Chunks(x) : x \in Blob}
    BY <1>11
  <1> HIDE DEF n
  <1>16. QED
    BY <1>7, <1>8, <1>9, <1>12, <1>13, <1>14, <1>15, EmitPreserves

-----------------------------------------------------------------------------
(* Receiving *)

LEMMA ConcatElement ==
    ASSUME NEW S, NEW s \in Seq(S), NEW t \in Seq(S), NEW i \in DOMAIN (s \o t),
           i \notin DOMAIN s
    PROVE  i - Len(s) \in DOMAIN t /\ (s \o t)[i] = t[i - Len(s)]
  OBVIOUS

\* What a packet does when it is read as r.
Read(p, r) ==
    /\ IF p.blob = NoBlob THEN UNCHANGED <<receiverVars, pending>> ELSE ReceiveBlob(p, r)
    /\ ReceiveAcks(r)

\* The chunk that a packet adds to what is received.
Added(p, r) == IF Mark(p, r) /\ Target(p, r) = "blob" THEN {r.chunk} ELSE {}

\* A packet about a blob adds a chunk that was sent, and only a packet of a blob whose
\* chunks are all acknowledged is read as a ghost.
LEMMA ReadingFacts ==
    ASSUME IInv, NEW p \in net, p.blob # NoBlob, NEW r \in Readings(p)
    PROVE  /\ p.blob \in Blob /\ p.to \in Courier /\ p.acks \in Seq(Acks)
           /\ Added(p, r) \subseteq sent[p.blob]
           /\ Target(p, r) \in {"none", "null", "blob", "ghost"}
           /\ Target(p, r) = "ghost" => acked[p.blob] = Chunks(p.blob)
           /\ Mark(p, r) => r.chunk \in 0..Total[p.blob]
  <1>1. p \in Packets
    BY DEF IInv, TypeOK
  <1>2. /\ p.kind \in {"done", "bare", "chunk"} /\ p.blob \in Blob
        /\ p.kind = "chunk" => p.chunk \in sent[p.blob]
        /\ p.kind = "bare" => 0 \in sent[p.blob]
        /\ p.kind = "done" => acked[p.blob] = Chunks(p.blob)
    BY <1>1 DEF IInv, PacketsHonest, Packets
  <1>3. acked[p.blob] \subseteq got[p.blob] /\ got[p.blob] \subseteq sent[p.blob]
    BY <1>2 DEF IInv, AcksHonest, ClaimsWereSent
  <1>4. sent[p.blob] \subseteq Chunks(p.blob) /\ Total[p.blob] \in Nat \ {0}
    BY <1>2 DEF IInv, TypeOK
  <1>5. r.chunk \in Claims(p) /\ (r.ghost => p.kind = "done")
    BY DEF Readings, NamesGhost
  <1>6. r.chunk \in {NoChunk} \cup 0..Total[p.blob]
    BY <1>2, <1>4, <1>5 DEF Claims, Chunks
  <1>7. ASSUME Mark(p, r), Target(p, r) = "blob" PROVE r.chunk \in sent[p.blob]
    <2>1. r.chunk \in Chunks(p.blob)
      BY <1>7 DEF Mark
    <2>2. CASE p.kind = "done"
      BY <2>1, <2>2, <1>2, <1>3
    <2>3. CASE p.kind = "chunk"
      BY <2>3, <1>2, <1>5 DEF Claims
    <2>4. CASE p.kind = "bare"
      <3>1. LeftOver(p) = 0
        BY <2>4 DEF LeftOver
      <3>2. Claims(p) \subseteq {NoChunk, 0}
        BY <3>1, <2>4 DEF Claims
      <3> QED
        BY <3>2, <2>4, <1>2, <1>5, <1>7 DEF Mark
    <2> QED
      BY <2>2, <2>3, <2>4, <1>2
  <1>8. /\ Target(p, r) \in {"none", "null", "blob", "ghost"}
        /\ Target(p, r) = "ghost" => acked[p.blob] = Chunks(p.blob)
    BY <1>2, <1>5 DEF Target, IInv, TypeOK, GhostsLate
  <1>9. QED
    BY <1>1, <1>2, <1>6, <1>7, <1>8 DEF Packets, Added, Mark

\* A chunk of a blob is acknowledged only when it is received.
LEMMA OwedFacts ==
    ASSUME IInv, NEW p \in net, p.blob # NoBlob, NEW r \in Readings(p)
    PROVE  /\ Owed(p, r) \in Seq(Acks)
           /\ \A i \in DOMAIN Owed(p, r) :
                /\ Owed(p, r)[i].blob = p.blob
                /\ Owed(p, r)[i].chunk \in Chunks(p.blob)
                      => Owed(p, r)[i].chunk \in got[p.blob] \cup Added(p, r)
  <1> DEFINE name == [blob |-> p.blob, chunk |-> NameAck]
             chunk == [blob |-> p.blob, chunk |-> r.chunk]
             A == IF NewBlob(p) \/ r.ghost THEN <<name>> ELSE <<>>
             B == IF Mark(p, r) THEN <<chunk>> ELSE <<>>
  <1>1. name \in Acks /\ name.blob = p.blob /\ name.chunk = NameAck
    BY ReadingFacts DEF Acks
  <1>2. Mark(p, r) => chunk \in Acks
    BY ReadingFacts DEF Acks
  <1>3. chunk.blob = p.blob /\ chunk.chunk = r.chunk
    OBVIOUS
  <1>4. Owed(p, r) = A \o B
    BY DEF Owed
  <1>5. NameAck \notin Chunks(p.blob)
    BY DEF NameAck, Chunks
  <1>6. Mark(p, r) /\ r.chunk \in Chunks(p.blob) => r.chunk \in got[p.blob] \cup Added(p, r)
    <2>1. Target(p, r) = "ghost" => Chunks(p.blob) \subseteq got[p.blob]
      BY ReadingFacts DEF IInv, AcksHonest
    <2> QED
      BY <2>1 DEF Mark, Added
  <1> HIDE DEF name, chunk
  <1>7. CASE Mark(p, r) /\ (NewBlob(p) \/ r.ghost)
    BY <1>1, <1>2, <1>3, <1>4, <1>5, <1>6, <1>7
  <1>8. CASE Mark(p, r) /\ ~(NewBlob(p) \/ r.ghost)
    BY <1>2, <1>3, <1>4, <1>6, <1>8
  <1>9. CASE ~Mark(p, r)
    BY <1>1, <1>4, <1>5, <1>9
  <1>10. QED
    BY <1>7, <1>8, <1>9

\* Only acknowledgements that are in a packet are read from it.
LEMMA AcksRead ==
    ASSUME NEW p, NEW r \in Readings(p)
    PROVE  r.acks \subseteq AcksOf(p)
  BY DEF Readings, FoundAcks

LEMMA ReceiveAcksFacts ==
    ASSUME IInv, NEW p \in net, NEW r \in Readings(p), ReceiveAcks(r)
    PROVE  /\ nameAcked' \in [Blob -> BOOLEAN]
           /\ acked' \in [Blob -> SUBSET Nat]
           /\ \A b \in Blob : acked[b] \subseteq acked'[b] /\ acked'[b] \subseteq got[b]
  <1>1. nameAcked' \in [Blob -> BOOLEAN]
    BY Zenon DEF ReceiveAcks, IInv, TypeOK
  <1>2. ASSUME NEW b \in Blob, NEW n \in Chunks(b), [blob |-> b, chunk |-> n] \in r.acks
        PROVE  n \in got[b]
    <2> DEFINE ack == [blob |-> b, chunk |-> n]
    <2>1. PICK i \in DOMAIN p.acks : p.acks[i] = ack
      BY <1>2, AcksRead DEF AcksOf
    <2>2. ack.blob = b /\ ack.chunk = n
      OBVIOUS
    <2> HIDE DEF ack
    <2>3. QED
      BY <1>2, <2>1, <2>2 DEF IInv, AcksHonest, Honest
  <1>3. \A b \in Blob : acked'[b] = acked[b] \cup
            {n \in Chunks(b) : [blob |-> b, chunk |-> n] \in r.acks}
    BY DEF ReceiveAcks
  <1>4. \A b \in Blob : acked[b] \subseteq acked'[b] /\ acked'[b] \subseteq got[b]
    BY <1>2, <1>3 DEF IInv, AcksHonest
  <1>5. acked' = [b \in Blob |-> acked'[b]] /\ \A b \in Blob : got[b] \subseteq Nat
    BY DEF ReceiveAcks, IInv, TypeOK
  <1>6. QED
    BY <1>1, <1>4, <1>5

\* What the part of a packet about a blob, or its absence, changes.
LEMMA ReceiveBlobFacts ==
    ASSUME IInv, NEW p \in net, NEW r \in Readings(p), Read(p, r)
    PROVE  /\ got' \in [Blob -> SUBSET Nat] /\ data' \in [Blob -> SUBSET Nat]
           /\ completed' \in [Blob -> BOOLEAN] /\ known' \subseteq Blob
           /\ byId' \in [Blob -> {"none", "null", "blob", "ghost"}]
           /\ pending' \in [Courier -> Seq(Acks)]
           /\ \A b \in Blob :
                /\ got[b] \subseteq got'[b] /\ got'[b] \subseteq sent[b]
                /\ data'[b] \subseteq Chunks(b)
                /\ got'[b] = Chunks(b) => completed'[b]
                /\ byId'[b] = "ghost" => acked[b] = Chunks(b)
           /\ \A c \in Courier : \A i \in DOMAIN pending'[c] :
                pending'[c][i].chunk \in Chunks(pending'[c][i].blob) =>
                    pending'[c][i].chunk \in got'[pending'[c][i].blob]
  <1>1. CASE p.blob = NoBlob
    <2>1. UNCHANGED <<known, byId, got, data, completed, pending>>
      BY <1>1 DEF Read, receiverVars
    <2>2. QED
      BY <2>1 DEF IInv, TypeOK, ClaimsWereSent, AcksHonest, Honest, LastAnnounces, GhostsLate
  <1>2. CASE p.blob # NoBlob
    <2> DEFINE chunks == Added(p, r)
               target == p.blob
               owed == Owed(p, r)
    <2>1. /\ target \in Blob /\ p.to \in Courier /\ chunks \subseteq sent[target]
          /\ sent[target] \subseteq Chunks(target) /\ Chunks(target) \subseteq Nat
      BY <1>2, ReadingFacts DEF IInv, TypeOK, Chunks
    <2>2. /\ got' = [got EXCEPT ![target] = @ \cup chunks]
          /\ data' = [data EXCEPT ![target] = IF p.kind = "chunk" THEN @ \cup chunks ELSE @]
          /\ completed' = [completed EXCEPT ![target] =
                               @ \/ (chunks # {} /\ got'[target] = Chunks(target))]
          /\ pending' = [pending EXCEPT ![p.to] = @ \o owed]
          /\ known' = IF NewBlob(p) THEN known \cup {target} ELSE known
          /\ byId' = [byId EXCEPT ![target] = Target(p, r)]
      BY <1>2 DEF Read, ReceiveBlob, Added
    <2>3. /\ known' \subseteq Blob
          /\ byId' \in [Blob -> {"none", "null", "blob", "ghost"}]
          /\ \A b \in Blob : byId'[b] = "ghost" => acked[b] = Chunks(b)
      <3>1. /\ Target(p, r) \in {"none", "null", "blob", "ghost"}
            /\ Target(p, r) = "ghost" => acked[target] = Chunks(target)
        BY <1>2, ReadingFacts
      <3>2. QED
        BY <3>1, <2>1, <2>2 DEF IInv, TypeOK, GhostsLate
    <2>5. /\ owed \in Seq(Acks)
          /\ \A i \in DOMAIN owed :
                /\ owed[i].blob = target
                /\ owed[i].chunk \in Chunks(target) => owed[i].chunk \in got[target] \cup chunks
      BY <1>2, OwedFacts
    <2>6. /\ got'[target] = got[target] \cup chunks
          /\ data'[target] \subseteq data[target] \cup chunks
          /\ \A b \in Blob : b # target => got'[b] = got[b] /\ data'[b] = data[b]
      BY <2>1, <2>2 DEF IInv, TypeOK
    <2> HIDE DEF chunks
    <2>7. /\ completed' \in [Blob -> BOOLEAN]
          /\ \A b \in Blob : got'[b] = Chunks(b) => completed'[b]
      <3>1. completed' \in [Blob -> BOOLEAN]
        BY <2>2, Zenon DEF IInv, TypeOK
      <3>2. \A b \in Blob : b # target => completed'[b] = completed[b]
        BY <2>2 DEF IInv, TypeOK
      <3>3. completed'[target] = (completed[target] \/ (chunks # {} /\ got'[target] = Chunks(target)))
        BY <2>1, <2>2, Zenon DEF IInv, TypeOK
      <3>4. chunks = {} => got'[target] = got[target]
        BY <2>6
      <3>5. \A b \in Blob : got[b] = Chunks(b) => completed[b]
        BY DEF IInv, LastAnnounces
      <3>6. ASSUME NEW b \in Blob, got'[b] = Chunks(b) PROVE completed'[b]
        <4>1. CASE b # target
          BY <2>6, <3>2, <3>5, <3>6, <4>1
        <4>2. CASE b = target /\ chunks # {}
          BY <3>3, <3>6, <4>2
        <4>3. CASE b = target /\ chunks = {}
          BY <3>3, <3>4, <3>5, <3>6, <4>3
        <4>4. QED
          BY <4>1, <4>2, <4>3
      <3>7. QED
        BY <3>1, <3>6
    <2> HIDE DEF target, owed
    <2>8. /\ got' \in [Blob -> SUBSET Nat] /\ data' \in [Blob -> SUBSET Nat]
          /\ \A b \in Blob :
                /\ got[b] \subseteq got'[b] /\ got'[b] \subseteq sent[b]
                /\ data'[b] \subseteq Chunks(b)
      BY <2>1, <2>2, <2>6 DEF IInv, TypeOK, ClaimsWereSent
    <2>9. /\ pending' \in [Courier -> Seq(Acks)]
          /\ pending'[p.to] = pending[p.to] \o owed
          /\ \A c \in Courier : c # p.to => pending'[c] = pending[c]
      <3>1. pending \in [Courier -> Seq(Acks)] /\ p.to \in Courier
        BY <2>1 DEF IInv, TypeOK
      <3>2. pending[p.to] \o owed \in Seq(Acks)
        BY <3>1, <2>5
      <3>3. pending' = [pending EXCEPT ![p.to] = pending[p.to] \o owed]
        BY <2>2
      <3> QED
        BY <3>1, <3>2, <3>3
    <2>10. ASSUME NEW c \in Courier, NEW i \in DOMAIN pending'[c],
                  pending'[c][i].chunk \in Chunks(pending'[c][i].blob)
           PROVE  pending'[c][i].chunk \in got'[pending'[c][i].blob]
      <3>1. ASSUME NEW j \in DOMAIN pending[c], pending'[c][i] = pending[c][j]
            PROVE  pending'[c][i].chunk \in got'[pending'[c][i].blob]
        <4>1. pending[c][j] \in Acks
          BY DEF IInv, TypeOK
        <4>2. pending[c][j].blob \in Blob
          BY <4>1 DEF Acks
        <4>3. QED
          BY <2>8, <2>10, <3>1, <4>2 DEF IInv, AcksHonest, Honest
      <3>2. CASE c # p.to
        BY <3>1, <3>2, <2>9
      <3>3. CASE c = p.to /\ i \in DOMAIN pending[c]
        <4>1. pending[c] \in Seq(Acks) /\ pending'[c] = pending[c] \o owed
          BY <2>9, <3>3 DEF IInv, TypeOK
        <4>2. pending'[c][i] = pending[c][i]
          BY <2>5, <3>3, <4>1
        <4>3. QED
          BY <3>1, <3>3, <4>2
      <3>4. CASE c = p.to /\ i \notin DOMAIN pending[c]
        <4>1. PICK j \in DOMAIN owed : pending'[c][i] = owed[j]
          <5>1. pending[c] \in Seq(Acks)
            BY DEF IInv, TypeOK
          <5>2. i \in DOMAIN (pending[c] \o owed) /\ pending'[c] = pending[c] \o owed
            BY <2>9, <3>4
          <5>3. i - Len(pending[c]) \in DOMAIN owed /\ pending'[c][i] = owed[i - Len(pending[c])]
            BY <2>5, <3>4, <5>1, <5>2, ConcatElement
          <5>4. QED
            BY <5>3
        <4>2. QED
          BY <2>5, <2>6, <2>10, <4>1
      <3>5. QED
        BY <3>2, <3>3, <3>4
    <2>11. QED
      BY <2>3, <2>7, <2>8, <2>9, <2>10
  <1>3. QED
    BY <1>1, <1>2

LEMMA ReceivePreserves ==
    ASSUME IInv, NEW p \in net, NEW again \in BOOLEAN, Receive(p, again) PROVE IInv'
  <1>1. PICK r \in Readings(p) : Read(p, r)
    BY DEF Receive, Read
  <1>2. /\ ReceiveAcks(r)
        /\ net' \subseteq net
        /\ UNCHANGED <<setting, calm, submitted, sent, unsent, unacked>>
    BY <1>1 DEF Receive, Read
  <1>3. /\ got' \in [Blob -> SUBSET Nat] /\ data' \in [Blob -> SUBSET Nat]
        /\ completed' \in [Blob -> BOOLEAN] /\ known' \subseteq Blob
        /\ byId' \in [Blob -> {"none", "null", "blob", "ghost"}]
        /\ pending' \in [Courier -> Seq(Acks)]
        /\ \A b \in Blob :
              /\ got[b] \subseteq got'[b] /\ got'[b] \subseteq sent[b]
              /\ data'[b] \subseteq Chunks(b)
              /\ got'[b] = Chunks(b) => completed'[b]
              /\ byId'[b] = "ghost" => acked[b] = Chunks(b)
    BY <1>1, ReceiveBlobFacts
  <1>4. \A c \in Courier : \A i \in DOMAIN pending'[c] :
            pending'[c][i].chunk \in Chunks(pending'[c][i].blob) =>
                pending'[c][i].chunk \in got'[pending'[c][i].blob]
    BY <1>1, ReceiveBlobFacts
  <1>5. /\ nameAcked' \in [Blob -> BOOLEAN]
        /\ acked' \in [Blob -> SUBSET Nat]
        /\ \A b \in Blob : acked[b] \subseteq acked'[b] /\ acked'[b] \subseteq got[b]
    BY <1>2, ReceiveAcksFacts
  <1>6. TypeOK'
    <2>1. \A b \in Blob : sent'[b] \cup acked'[b] \cup got'[b] \cup data'[b] \subseteq Chunks(b)
      BY <1>2, <1>3, <1>5 DEF IInv, TypeOK
    <2>2. QED
      BY <1>2, <1>3, <1>5, <2>1 DEF IInv, TypeOK, Chunks
  <1>7. ClaimsWereSent'
    BY <1>2, <1>3 DEF ClaimsWereSent
  <1>8. AcksHonest'
    <2>1. ASSUME NEW q \in net, NEW i \in DOMAIN q.acks,
                 q.acks[i].chunk \in Chunks(q.acks[i].blob)
          PROVE  q.acks[i].chunk \in got'[q.acks[i].blob]
      <3>1. q \in Packets
        BY DEF IInv, TypeOK
      <3>2. q.acks[i] \in Acks
        BY <3>1 DEF Packets
      <3>3. q.acks[i].blob \in Blob
        BY <3>2 DEF Acks
      <3>4. QED
        BY <1>3, <2>1, <3>3 DEF IInv, AcksHonest, Honest
    <2>2. QED
      BY <1>2, <1>3, <1>4, <1>5, <2>1 DEF AcksHonest, Honest, Chunks
  <1>9. StartsWithFirst'
    BY <1>2 DEF IInv, StartsWithFirst
  \* Once all chunks of a blob are acknowledged they remain so.
  <1>10. \A b \in Blob : acked[b] = Chunks(b) => acked'[b] = Chunks(b)
    <2>1. \A b \in Blob : acked'[b] \subseteq Chunks(b)
      BY <1>5 DEF IInv, TypeOK
    <2> QED
      BY <2>1, <1>5
  <1>11. PacketsHonest'
    <2>1. \A q \in net : q.kind = "done" => q.blob \in Blob
      BY DEF IInv, PacketsHonest
    <2> QED
      BY <2>1, <1>2, <1>10 DEF IInv, PacketsHonest, Chunks
  <1>12. LastAnnounces' /\ GhostsLate'
    BY <1>3, <1>10 DEF LastAnnounces, GhostsLate, Chunks
  <1>13. QED
    BY <1>6, <1>7, <1>8, <1>9, <1>11, <1>12 DEF IInv

-----------------------------------------------------------------------------
(* The specification *)

LEMMA InitIInv == Init => IInv
  <1> SUFFICES ASSUME Init PROVE IInv
    OBVIOUS
  <1>1. \A b \in Blob : Chunks(b) # {} /\ Chunks(b) \subseteq Nat /\ 0 \in Chunks(b)
    BY DEF Chunks
  <1>2. TypeOK
    BY <1>1 DEF Init, TypeOK
  <1>3. QED
    BY <1>1, <1>2 DEF Init, IInv, ClaimsWereSent, AcksHonest, Honest, GhostsLate, StartsWithFirst,
                      PacketsHonest, LastAnnounces

LEMMA NextIInv == IInv /\ [Next]_vars => IInv'
  <1> SUFFICES ASSUME IInv, [Next]_vars PROVE IInv'
    OBVIOUS
  <1>1. CASE \E b \in Blob : Submit(b)
    BY <1>1 DEF Submit, receiverVars, IInv, TypeOK, ClaimsWereSent, AcksHonest, Honest,
                GhostsLate, StartsWithFirst, PacketsHonest, LastAnnounces, Chunks
  <1>2. CASE \E c \in Courier : Send(c)
    BY <1>2, SendIdlePreserves, SendDonePreserves, SendBlobPreserves DEF Send
  <1>3. CASE \E p \in net : Lose(p)
    BY <1>3 DEF Lose, receiverVars, senderVars, IInv, TypeOK, ClaimsWereSent, AcksHonest, Honest,
                GhostsLate, StartsWithFirst, PacketsHonest, LastAnnounces, Chunks
  <1>4. CASE \E p \in net, again \in BOOLEAN : Receive(p, again)
    BY <1>4, ReceivePreserves
  <1>5. CASE UNCHANGED vars
    BY <1>5 DEF vars, receiverVars, senderVars, IInv, TypeOK, ClaimsWereSent, AcksHonest, Honest,
                GhostsLate, StartsWithFirst, PacketsHonest, LastAnnounces, Chunks
  <1>6. QED
    BY <1>1, <1>2, <1>3, <1>4, <1>5 DEF Next

LEMMA AlwaysIInv == Spec => []IInv
  BY InitIInv, NextIInv, PTL DEF Spec

\* Every variable has its type, whatever is lost, duplicated or reordered and however
\* many acknowledgements are owed: the indices of findNextSendingChunk() stay within
\* the blob.
THEOREM TypesHold == Spec => []TypeOK
  <1>1. IInv => TypeOK
    BY DEF IInv
  <1>2. QED
    BY <1>1, AlwaysIInv, PTL

\* A receiver claims no chunk that was never sent: the chunk 0 that an empty packet
\* appears to carry was sent before it, and whatever chunk is read from the
\* acknowledgements behind the id of a blob that is done had been sent.
THEOREM NoInventedChunk == Spec => []ClaimsWereSent
  <1>1. IInv => ClaimsWereSent
    BY DEF IInv
  <1>2. QED
    BY <1>1, AlwaysIInv, PTL

\* The sender is done only after the receiver announced the blob complete, whatever is
\* lost, duplicated or reordered, and whatever is read from acknowledgements.
THEOREM DoneIsComplete == Spec => []DoneMeansComplete
  <1>1. IInv => DoneMeansComplete
    <2> SUFFICES ASSUME IInv, NEW b \in Blob, IsDone(b) PROVE completed[b]
      BY DEF DoneMeansComplete
    <2>1. Chunks(b) \subseteq got[b]
      BY DEF IInv, AcksHonest, IsDone
    <2>2. got[b] \subseteq Chunks(b)
      BY DEF IInv, TypeOK
    <2>3. got[b] = Chunks(b)
      BY <2>1, <2>2
    <2>4. QED
      BY <2>3 DEF IInv, LastAnnounces
  <1>2. QED
    BY <1>1, AlwaysIInv, PTL
-----------------------------------------------------------------------------
(* A calm link without traffic the other way                                 *)
(*                                                                           *)
(* NothingGoesMissing needs that a packet is read as what it was written as, *)
(* which is so where only one of the couriers sends blobs: it is owed no     *)
(* acknowledgement and owes none, so that none is read as a name (OneWay),   *)
(* and the other sends packets of acknowledgements only, which are found.    *)

\* All blobs come from one courier.
AllFrom(o) == \A b \in submitted : Owner[b] = o

OneWay ==
    \A o \in Courier : AllFrom(o) =>
        /\ pending[o] = <<>>
        /\ \A p \in net :
              IF p.to = o THEN p.kind = "idle"
              ELSE /\ p.kind # "idle" /\ p.acks = <<>> /\ Owner[p.blob] = o
                   /\ (p.name /\ p.kind # "done") \/ p.blob \in known
        /\ \A b \in Blob :
              /\ byId[b] = IF b \in known THEN "blob" ELSE "none"
              /\ b \in known => Owner[b] = o /\ sent[b] # {}
              /\ nameAcked[b] => b \in known
        \* A name is acknowledged once it is known.
        /\ \A i \in DOMAIN pending[Peer(o)] :
              pending[Peer(o)][i].chunk = NameAck => pending[Peer(o)][i].blob \in known
        /\ \A p \in net : p.to = o =>
              \A i \in DOMAIN p.acks : p.acks[i].chunk = NameAck => p.acks[i].blob \in known

Quiet == OneWay /\ NothingGoesMissing

\* Three different things are three.
LEMMA Three ==
    ASSUME NEW a, NEW b, NEW c, a # b, a # c, b # c
    PROVE  IsFiniteSet({a, b, c}) /\ Cardinality({a, b, c}) = 3
  <1>1. IsFiniteSet({a}) /\ Cardinality({a}) = 1
    BY FS_Singleton
  <1>2. b \notin {a} /\ {a, b} = {a} \cup {b}
    OBVIOUS
  <1>3. IsFiniteSet({a, b}) /\ Cardinality({a, b}) = 2
    BY ONLY <1>1, <1>2, FS_AddElement, Z3
  <1>4. c \notin {a, b} /\ {a, b, c} = {a, b} \cup {c}
    OBVIOUS
  <1> QED
    BY ONLY <1>3, <1>4, FS_AddElement, Z3

\* The channel has two ends.
LEMMA TwoEnds ==
    ASSUME NEW c \in Courier
    PROVE  /\ Peer(c) \in Courier /\ Peer(c) # c /\ Peer(Peer(c)) = c
           /\ \A d \in Courier : d = c \/ d = Peer(c)
  <1>1. Peer(c) \in Courier /\ Peer(c) # c
    <2>1. \E d \in Courier : d # c
      BY PeerType, FS_Singleton
    <2> QED
      BY <2>1 DEF Peer
  <1>2. ASSUME NEW d \in Courier, d # c, d # Peer(c) PROVE FALSE
    <2> DEFINE three == {c, Peer(c), d}
    <2>1. Cardinality(three) = 3 /\ IsFiniteSet(three)
      BY <1>1, <1>2, Three
    <2>2. three \subseteq Courier
      BY <1>1
    <2> HIDE DEF three
    <2>3. Cardinality(three) <= Cardinality(Courier)
      BY <2>2, FS_Subset
    <2> QED
      BY <2>1, <2>3
  <1>3. Peer(Peer(c)) = c
    <2>1. \E d \in Courier : d # Peer(c)
      BY <1>1
    <2>2. Peer(Peer(c)) \in Courier /\ Peer(Peer(c)) # Peer(c)
      BY <2>1 DEF Peer
    <2> QED
      BY <2>2, <1>2
  <1> QED
    BY <1>1, <1>2, <1>3

\* What an element of a sequence is in a longer one.
LEMMA ConcatKeeps ==
    ASSUME NEW S, NEW s \in Seq(S), NEW t \in Seq(S)
    PROVE  /\ \A i \in DOMAIN s : i \in DOMAIN (s \o t) /\ (s \o t)[i] = s[i]
           /\ \A j \in DOMAIN t : Len(s) + j \in DOMAIN (s \o t) /\ (s \o t)[Len(s) + j] = t[j]
  OBVIOUS

\* A chunk that is marked and a name that is new are acknowledged.
LEMMA OwedHas ==
    ASSUME NEW p, NEW r
    PROVE  /\ Mark(p, r) => \E i \in DOMAIN Owed(p, r) :
                  Owed(p, r)[i] = [blob |-> p.blob, chunk |-> r.chunk]
           /\ NewBlob(p) => \E i \in DOMAIN Owed(p, r) :
                  Owed(p, r)[i] = [blob |-> p.blob, chunk |-> NameAck]
  <1> DEFINE name == [blob |-> p.blob, chunk |-> NameAck]
             chunk == [blob |-> p.blob, chunk |-> r.chunk]
             new == NewBlob(p) \/ r.ghost
  <1>1. Owed(p, r) = (IF new THEN <<name>> ELSE <<>>) \o (IF Mark(p, r) THEN <<chunk>> ELSE <<>>)
    BY DEF Owed
  <1> HIDE DEF name, chunk, new
  <1>2. CASE new /\ Mark(p, r)
    <2>1. <<name>> \in Seq({name, chunk}) /\ <<chunk>> \in Seq({name, chunk})
      OBVIOUS
    <2>3. Owed(p, r) = <<name>> \o <<chunk>>
      BY <1>1, <1>2
    <2>2. 1 \in DOMAIN Owed(p, r) /\ 2 \in DOMAIN Owed(p, r) /\ Owed(p, r)[1] = name /\ Owed(p, r)[2] = chunk
      BY <2>1, <2>3
    <2> QED
      BY <2>2 DEF name, chunk
  <1>3. CASE new /\ ~Mark(p, r)
    <2>1. Owed(p, r) = <<name>>
      BY <1>1, <1>3
    <2>2. 1 \in DOMAIN Owed(p, r) /\ Owed(p, r)[1] = name
      BY <2>1
    <2> QED
      BY <2>2, <1>3 DEF name
  <1>4. CASE ~new /\ Mark(p, r)
    <2>1. Owed(p, r) = <<chunk>>
      BY <1>1, <1>4
    <2>2. 1 \in DOMAIN Owed(p, r) /\ Owed(p, r)[1] = chunk
      BY <2>1
    <2> QED
      BY <2>2, <1>4 DEF chunk, new
  <1>5. CASE ~new /\ ~Mark(p, r)
    BY <1>5 DEF new
  <1> QED
    BY <1>2, <1>3, <1>4, <1>5

\* Only a blob that was submitted is sent.
LEMMA SendingFacts ==
    ASSUME IInv, NEW c \in Courier, Send(c)
    PROVE  \E b \in Blob \cup {NoBlob}, kind \in {"idle", "done", "bare", "chunk"},
              name \in BOOLEAN, n \in {NoChunk} \cup UNION {Chunks(x) : x \in Blob} :
              /\ Emit(c, b, kind, name, n)
              /\ kind = "idle" => /\ \A x \in submitted : Owner[x] # c
                                  /\ \E x \in Blob : Receiver(x) = c /\ byId[x] # "none"
              /\ kind # "idle" => /\ b \in Blob /\ b \in submitted /\ Owner[b] = c
                                  /\ name = (kind # "done" /\ ~nameAcked[b])
                                  /\ kind = "done" => nameAcked[b]
              /\ \A x \in Blob : /\ sent[x] \subseteq sent'[x]
                                 /\ sent'[x] # sent[x] =>
                                        /\ x = b /\ kind = "chunk"
                                        /\ sent'[x] = sent[x] \cup {n}
  <1>1. CASE SendIdle(c)
    <2>1. /\ Emit(c, NoBlob, "idle", FALSE, NoChunk) /\ sent' = sent
          /\ \A x \in submitted : Owner[x] # c
          /\ \E x \in Blob : Receiver(x) = c /\ byId[x] # "none"
      BY <1>1 DEF SendIdle
    <2> QED
      BY <2>1
  <1>2. CASE \E b \in Blob : SendDone(c, b)
    <2>1. PICK b \in Blob : SendDone(c, b)
      BY <1>2
    <2>2. /\ Emit(c, b, "done", FALSE, NoChunk) /\ sent' = sent
          /\ b \in submitted /\ Owner[b] = c /\ nameAcked[b]
      BY <2>1 DEF SendDone, IsDone
    <2> QED
      BY <2>2
  <1>3. CASE \E b \in Blob, due \in BOOLEAN : SendBlob(c, b, due)
    <2>1. PICK b \in Blob, due \in BOOLEAN : SendBlob(c, b, due)
      BY <1>3
    <2> DEFINE next == NextChunk(b, due)
               n == next.chunk
               kind == IF n = NoChunk THEN "bare" ELSE "chunk"
               name == ~nameAcked[b]
    <2>2. /\ Emit(c, b, kind, name, n)
          /\ sent' = [sent EXCEPT ![b] = @ \cup ({n} \ {NoChunk})]
          /\ b \in submitted /\ Owner[b] = c
      BY <2>1 DEF SendBlob
    <2>3. n \in {NoChunk} \cup Chunks(b)
      BY NextFacts
    <2>4. kind \in {"bare", "chunk"} /\ (n # NoChunk => kind = "chunk") /\ name \in BOOLEAN
      OBVIOUS
    <2>5. name = (kind # "done" /\ ~nameAcked[b])
      <3>1. kind # "done"
        BY <2>4
      <3> HIDE DEF kind
      <3> QED
        BY <3>1
    <2>6. sent'[b] = sent[b] \cup ({n} \ {NoChunk}) /\ \A x \in Blob : x # b => sent'[x] = sent[x]
      BY <2>2 DEF IInv, TypeOK
    <2> HIDE DEF next, n, kind, name
    <2>7. \A x \in Blob : /\ sent[x] \subseteq sent'[x]
                          /\ sent'[x] # sent[x] => /\ x = b /\ kind = "chunk"
                                                   /\ sent'[x] = sent[x] \cup {n}
      BY <2>4, <2>6
    <2>8. n \in {NoChunk} \cup UNION {Chunks(x) : x \in Blob}
      BY <2>3
    <2>9. kind # "idle" /\ kind # "done" /\ kind \in {"idle", "done", "bare", "chunk"}
      BY <2>4
    <2>10. b \in Blob \cup {NoBlob}
      OBVIOUS
    <2>11. kind = "done" => nameAcked[b]
      BY <2>9
    <2> USE <2>4, <2>8, <2>9, <2>10
    <2> WITNESS b \in Blob \cup {NoBlob}, kind \in {"idle", "done", "bare", "chunk"},
                name \in BOOLEAN, n \in {NoChunk} \cup UNION {Chunks(x) : x \in Blob}
    <2> QED
      BY <2>2, <2>5, <2>7, <2>9, <2>11
  <1> QED
    BY <1>1, <1>2, <1>3 DEF Send

\* A packet that is written keeps all this.
LEMMA SendQuiet ==
    ASSUME IInv, Quiet, NEW c \in Courier, Send(c)
    PROVE  Quiet'
  <1>1. PICK b \in Blob \cup {NoBlob}, kind \in {"idle", "done", "bare", "chunk"},
             name \in BOOLEAN, n \in {NoChunk} \cup UNION {Chunks(x) : x \in Blob} :
          /\ Emit(c, b, kind, name, n)
          /\ kind = "idle" => /\ \A x \in submitted : Owner[x] # c
                              /\ \E x \in Blob : Receiver(x) = c /\ byId[x] # "none"
          /\ kind # "idle" => /\ b \in Blob /\ b \in submitted /\ Owner[b] = c
                              /\ name = (kind # "done" /\ ~nameAcked[b])
                              /\ kind = "done" => nameAcked[b]
          /\ \A x \in Blob : /\ sent[x] \subseteq sent'[x]
                             /\ sent'[x] # sent[x] =>
                                    /\ x = b /\ kind = "chunk"
                                    /\ sent'[x] = sent[x] \cup {n}
    BY SendingFacts
  <1>9. PICK m : Emitted(m, c, b, kind, name, n)
    <2>1. Emit(c, b, kind, name, n) /\ (kind # "idle" => b \in Blob)
      BY <1>1
    <2> HIDE DEF Emitted
    <2> QED
      BY <2>1, EmitFacts
  <1>0. /\ net' = net \cup {m}
        /\ m = [to |-> Peer(c), blob |-> b, kind |-> kind, name |-> name,
                chunk |-> n, acks |-> m.acks]
        /\ \A d \in Courier : d # c => pending'[d] = pending[d]
        /\ \A i \in DOMAIN m.acks : \E j \in DOMAIN pending[c] : m.acks[i] = pending[c][j]
        /\ \A i \in DOMAIN pending'[c] :
              \E j \in DOMAIN pending[c] : pending'[c][i] = pending[c][j]
        /\ \A j \in DOMAIN pending[c] :
              \/ \E i \in DOMAIN m.acks : m.acks[i] = pending[c][j]
              \/ \E i \in DOMAIN pending'[c] : pending'[c][i] = pending[c][j]
        /\ pending[c] = <<>> => m.acks = <<>> /\ pending'[c] = <<>>
    BY <1>9 DEF Emitted
  <1>2. /\ net' = net \cup {m} /\ m.to = Peer(c) /\ m.blob = b /\ m.kind = kind
        /\ m.name = name /\ m.chunk = n
    BY <1>0
  <1>3. /\ UNCHANGED <<calm, submitted, acked, nameAcked, known, byId>>
        /\ \A d \in Courier : d # c => pending'[d] = pending[d]
        /\ pending \in [Courier -> Seq(Acks)]
    BY <1>0, <1>1 DEF Emit, receiverVars, IInv, TypeOK
  <1>4. TypeOK /\ submitted \subseteq Blob /\ Owner \in [Blob -> Courier]
    BY DEF IInv, TypeOK
  \* While one courier sends all blobs, it is the one that sends this one, or the
  \* packet is one of acknowledgements from the other.
  <1>5. ASSUME NEW o \in Courier, AllFrom(o)
        PROVE  (c = o /\ kind # "idle") \/ (c = Peer(o) /\ kind = "idle")
    <2>1. CASE kind = "idle"
      <3>1. PICK x \in Blob : Receiver(x) = c /\ byId[x] # "none"
        BY <1>1, <2>1
      <3>2. Owner[x] = o
        BY <3>1, <1>5 DEF Quiet, OneWay
      <3> QED
        BY <2>1, <3>1, <3>2 DEF Receiver
    <2>2. CASE kind # "idle"
      BY <1>1, <1>5, <2>2 DEF AllFrom
    <2> QED
      BY <2>1, <2>2
  <1>6. OneWay'
    <2> SUFFICES ASSUME NEW o \in Courier, AllFrom(o)
                 PROVE  /\ pending'[o] = <<>>
                        /\ \A p \in net' :
                              IF p.to = o THEN p.kind = "idle"
                              ELSE /\ p.kind # "idle" /\ p.acks = <<>> /\ Owner[p.blob] = o
                                   /\ (p.name /\ p.kind # "done") \/ p.blob \in known
                        /\ \A x \in Blob :
                              /\ byId[x] = IF x \in known THEN "blob" ELSE "none"
                              /\ x \in known => Owner[x] = o /\ sent'[x] # {}
                              /\ nameAcked[x] => x \in known
                        /\ \A i \in DOMAIN pending'[Peer(o)] :
                              pending'[Peer(o)][i].chunk = NameAck
                                  => pending'[Peer(o)][i].blob \in known
                        /\ \A p \in net' : p.to = o =>
                              \A i \in DOMAIN p.acks :
                                  p.acks[i].chunk = NameAck => p.acks[i].blob \in known
      BY <1>3 DEF OneWay, AllFrom
    <2>1. /\ pending[o] = <<>>
          /\ \A p \in net :
                IF p.to = o THEN p.kind = "idle"
                ELSE /\ p.kind # "idle" /\ p.acks = <<>> /\ Owner[p.blob] = o
                     /\ (p.name /\ p.kind # "done") \/ p.blob \in known
          /\ \A x \in Blob :
                /\ byId[x] = IF x \in known THEN "blob" ELSE "none"
                /\ x \in known => Owner[x] = o /\ sent[x] # {}
                /\ nameAcked[x] => x \in known
          /\ \A i \in DOMAIN pending[Peer(o)] :
                pending[Peer(o)][i].chunk = NameAck => pending[Peer(o)][i].blob \in known
          /\ \A p \in net : p.to = o =>
                \A i \in DOMAIN p.acks :
                    p.acks[i].chunk = NameAck => p.acks[i].blob \in known
      BY DEF Quiet, OneWay
    <2>2. \A x \in Blob : x \in known => sent'[x] # {}
      BY <2>1, <1>1
    <2>3. CASE c = o /\ kind # "idle"
      <3>1. Peer(o) # o /\ Peer(o) \in Courier
        BY TwoEnds
      <3>2. (m.name /\ m.kind # "done") \/ m.blob \in known
        <4>1. CASE nameAcked[b]
          BY <4>1, <1>1, <1>2, <2>1, <2>3
        <4>2. CASE ~nameAcked[b]
          <5>1. kind # "done"
            BY <1>1, <2>3, <4>2
          <5>2. name = TRUE
            BY <1>1, <2>3, <4>2, <5>1
          <5> QED
            BY <5>1, <5>2, <1>2
        <4> QED
          BY <4>1, <4>2
      <3>3. m.to # o /\ m.kind # "idle" /\ m.acks = <<>> /\ Owner[m.blob] = o
        BY <3>1, <1>0, <1>1, <1>2, <2>1, <2>3
      <3>4. pending'[o] = <<>> /\ pending'[Peer(o)] = pending[Peer(o)]
        BY <3>1, <1>0, <1>3, <2>1, <2>3
      <3> QED
        BY <2>1, <2>2, <3>2, <3>3, <3>4, <1>2
    <2>4. CASE c = Peer(o) /\ kind = "idle"
      <3>1. Peer(c) = o /\ c # o
        BY <2>4, TwoEnds
      <3>2. m.to = o /\ m.kind = "idle"
        BY <3>1, <2>4, <1>2
      <3>3. pending'[o] = <<>>
        BY <3>1, <2>1, <2>4, <1>3
      <3>4. /\ \A i \in DOMAIN m.acks : m.acks[i].chunk = NameAck => m.acks[i].blob \in known
            /\ \A i \in DOMAIN pending'[Peer(o)] :
                  pending'[Peer(o)][i].chunk = NameAck => pending'[Peer(o)][i].blob \in known
        BY <2>1, <2>4, <1>0
      <3> QED
        BY <2>1, <2>2, <3>2, <3>3, <3>4, <1>2
    <2> QED
      BY <1>5, <2>3, <2>4
  <1>7. NothingGoesMissing'
    <2> SUFFICES ASSUME calm, NEW x \in submitted, OnlyTraffic(x)
                 PROVE  /\ \A k \in sent'[x] \ acked[x] :
                              AckToCome(x, k)' \/ \E p \in net' : p.blob = x /\ p.kind = "chunk" /\ p.chunk = k
                        /\ sent'[x] # {} /\ ~nameAcked[x] =>
                              AckToCome(x, NameAck)' \/ (x \notin known /\ \E p \in net' : p.blob = x /\ p.name)
      <3>1. ASSUME NEW y PROVE OnlyTraffic(y)' <=> OnlyTraffic(y)
        BY <1>3 DEF OnlyTraffic
      <3> QED
        BY <3>1, <1>3 DEF NothingGoesMissing
    <2> DEFINE o == Owner[x]
    <2>1. x \in Blob /\ o \in Courier /\ AllFrom(o)
      BY <1>4 DEF OnlyTraffic, AllFrom
    <2>2. Receiver(x) = Peer(o) /\ Peer(o) \in Courier /\ Peer(o) # o /\ Peer(Peer(o)) = o
      BY <2>1, TwoEnds DEF Receiver
    <2>3. ASSUME NEW k, AckToCome(x, k) PROVE AckToCome(x, k)'
      <3> DEFINE ack == [blob |-> x, chunk |-> k]
      <3>1. CASE \E p \in net : p.to = o /\ ack \in FoundAcks(p)
        BY <3>1, <1>2 DEF AckToCome
      <3>2. CASE \E i \in DOMAIN pending[Receiver(x)] : pending[Receiver(x)][i] = ack
        <4>1. CASE c = o /\ kind # "idle"
          <5>1. pending'[Receiver(x)] = pending[Receiver(x)]
            BY <4>1, <2>2, <1>3
          <5> QED
            BY <3>2, <5>1 DEF AckToCome
        <4>2. CASE c = Peer(o) /\ kind = "idle"
          <5>1. m \in net' /\ m.to = o /\ m.kind = "idle" /\ Receiver(x) = c
            BY <4>2, <2>2, <1>2
          <5>2. CASE \E i \in DOMAIN m.acks : m.acks[i] = ack
            <6>1. ack \in FoundAcks(m)
              BY <5>1, <5>2 DEF FoundAcks, AcksOf
            <6> QED
              BY <5>1, <6>1 DEF AckToCome
          <5>3. CASE \E i \in DOMAIN pending'[c] : pending'[c][i] = ack
            BY <5>1, <5>3 DEF AckToCome
          <5>4. PICK j \in DOMAIN pending[c] : pending[c][j] = ack
            BY <3>2, <5>1
          <5> QED
            BY <5>2, <5>3, <5>4, <1>0
        <4> QED
          BY <4>1, <4>2, <2>1, <1>5
      <3> QED
        BY <3>1, <3>2, <2>3 DEF AckToCome
    <2>4. /\ \A k \in sent[x] \ acked[x] :
                AckToCome(x, k) \/ \E p \in net : p.blob = x /\ p.kind = "chunk" /\ p.chunk = k
          /\ sent[x] # {} /\ ~nameAcked[x] =>
                AckToCome(x, NameAck) \/ (x \notin known /\ \E p \in net : p.blob = x /\ p.name)
      BY DEF Quiet, NothingGoesMissing
    <2>5. ASSUME NEW k \in sent'[x] \ acked[x]
          PROVE  AckToCome(x, k)' \/ \E p \in net' : p.blob = x /\ p.kind = "chunk" /\ p.chunk = k
      <3>1. CASE k \in sent[x]
        BY <3>1, <2>3, <2>4, <2>5, <1>2
      <3>2. CASE k \notin sent[x]
        <4>1. x = b /\ kind = "chunk" /\ k = n
          BY <3>2, <2>1, <2>5, <1>1
        <4> QED
          BY <4>1, <1>2
      <3> QED
        BY <3>1, <3>2
    <2>6. ASSUME sent'[x] # {}, ~nameAcked[x]
          PROVE  AckToCome(x, NameAck)' \/ (x \notin known /\ \E p \in net' : p.blob = x /\ p.name)
      <3>1. CASE sent[x] # {}
        BY <3>1, <2>3, <2>4, <2>6, <1>2
      <3>2. CASE sent[x] = {}
        <4>1. x = b /\ kind = "chunk"
          BY <3>2, <2>1, <2>6, <1>1
        <4>2. x \notin known
          BY <3>2, <2>1 DEF Quiet, OneWay
        <4>3. name = (kind # "done" /\ ~nameAcked[b])
          BY <4>1, <1>1
        <4>4. name = TRUE
          BY <4>1, <4>3, <2>6
        <4> QED
          BY <4>1, <4>2, <4>4, <1>2
      <3> QED
        BY <3>1, <3>2
    <2> QED
      BY <2>5, <2>6
  <1> QED
    BY <1>6, <1>7 DEF Quiet
\* What is read from a packet, where only one courier sends blobs: its
\* acknowledgements, or the blob that was written and nothing else.
LEMMA ReadAsWritten ==
    ASSUME IInv, OneWay, NEW p \in net, NEW r \in Readings(p), Read(p, r),
           NEW o \in Courier, AllFrom(o)
    PROVE  \/ /\ p.to = o /\ p.kind = "idle" /\ p.blob = NoBlob
              /\ UNCHANGED <<known, byId, pending>>
              /\ \A b \in Blob : \A n \in {NameAck} \cup Chunks(b) :
                    [blob |-> b, chunk |-> n] \in FoundAcks(p) =>
                        IF n = NameAck THEN nameAcked'[b] /\ b \in known ELSE n \in acked'[b]
              /\ \A b \in Blob : nameAcked'[b] => b \in known
           \/ /\ p.to = Peer(o) /\ p.kind # "idle" /\ p.blob \in Blob /\ Owner[p.blob] = o
              /\ UNCHANGED <<nameAcked, acked>>
              /\ known' = known \cup {p.blob} /\ byId' = [byId EXCEPT ![p.blob] = "blob"]
              /\ Target(p, r) = "blob"
              /\ p.kind = "chunk" => r.chunk = p.chunk
              /\ p.blob \notin known => NewBlob(p)
              /\ pending'[p.to] = pending[p.to] \o Owed(p, r)
              /\ Owed(p, r) \in Seq(Acks)
              /\ \A i \in DOMAIN Owed(p, r) : Owed(p, r)[i].blob = p.blob
              /\ \A c \in Courier : c # p.to => pending'[c] = pending[c]
  <1>1. /\ p \in Packets /\ p.to \in Courier /\ TypeOK
        /\ p.kind = "idle" => p.blob = NoBlob
        /\ p.kind # "idle" => p.blob \in Blob
    BY DEF IInv, TypeOK, PacketsHonest, Packets
  <1>2. /\ IF p.blob = NoBlob THEN UNCHANGED <<receiverVars, pending>> ELSE ReceiveBlob(p, r)
        /\ ReceiveAcks(r)
    BY DEF Read
  <1>3. \A b \in Blob : /\ byId[b] = IF b \in known THEN "blob" ELSE "none"
                        /\ nameAcked[b] => b \in known
    BY DEF OneWay
  <1>4. CASE p.to = o
    <2>1. p.kind = "idle" /\ p.blob = NoBlob
      BY <1>1, <1>4 DEF OneWay
    <2>0. r.acks = FoundAcks(p)
      <3>1. LeftOver(p) = 0
        BY <2>1 DEF LeftOver
      <3> QED
        BY <3>1 DEF Readings
    <2>2. UNCHANGED <<known, byId, pending>>
      BY <1>2, <2>1 DEF receiverVars
    <2>3. ASSUME NEW b \in Blob, [blob |-> b, chunk |-> NameAck] \in FoundAcks(p) PROVE b \in known
      <3> DEFINE ack == [blob |-> b, chunk |-> NameAck]
      <3>1. PICK i \in DOMAIN p.acks : p.acks[i] = ack
        BY <2>3 DEF FoundAcks, AcksOf
      <3>2. ack.blob = b /\ ack.chunk = NameAck
        OBVIOUS
      <3> HIDE DEF ack
      <3> QED
        BY <3>1, <3>2, <1>4 DEF OneWay
    <2>4. \A b \in Blob : nameAcked'[b] <=> nameAcked[b] \/ [blob |-> b, chunk |-> NameAck] \in FoundAcks(p)
      BY <1>2, <2>0, Zenon DEF ReceiveAcks
    <2>5. \A b \in Blob : acked'[b] = acked[b] \cup {n \in Chunks(b) : [blob |-> b, chunk |-> n] \in FoundAcks(p)}
      BY <1>2, <2>0 DEF ReceiveAcks
    <2>6. \A b \in Blob : NameAck \notin Chunks(b)
      BY DEF NameAck, Chunks
    <2>7. ASSUME NEW b \in Blob, NEW n \in {NameAck} \cup Chunks(b),
                 [blob |-> b, chunk |-> n] \in FoundAcks(p)
          PROVE  IF n = NameAck THEN nameAcked'[b] /\ b \in known ELSE n \in acked'[b]
      <3>1. CASE n = NameAck
        BY <3>1, <2>3, <2>4, <2>7
      <3>2. CASE n # NameAck
        BY <3>2, <2>5, <2>7
      <3> QED
        BY <3>1, <3>2
    <2>8. \A b \in Blob : nameAcked'[b] => b \in known
      BY <1>3, <2>3, <2>4
    <2> QED
      BY <1>4, <2>1, <2>2, <2>7, <2>8
  <1>5. CASE p.to # o
    <2>1. /\ p.kind # "idle" /\ p.acks = <<>> /\ Owner[p.blob] = o /\ p.to = Peer(o)
          /\ (p.name /\ p.kind # "done") \/ p.blob \in known
      BY <1>1, <1>5, TwoEnds DEF OneWay
    <2>2. p.blob \in Blob /\ p.blob # NoBlob /\ p.kind \in {"done", "bare", "chunk"}
      BY <1>1, <2>1, BlobAssumption DEF Packets
    <2>3. ReceiveBlob(p, r) /\ ReceiveAcks(r)
      BY <1>2, <2>2
    <2>4. ~r.ghost /\ r.acks = {} /\ (p.kind = "chunk" => r.chunk = p.chunk)
      <3>1. AcksOf(p) = {} /\ ~NamesGhost(p)
        BY <2>1 DEF AcksOf, NamesGhost
      <3>2. r.ghost \in {FALSE} /\ r.chunk \in Claims(p) /\ r.acks \subseteq AcksOf(p)
        BY <3>1, AcksRead DEF Readings
      <3> QED
        BY <3>1, <3>2 DEF Claims
    <2>5. p.blob \notin known => NewBlob(p)
      BY <2>1, <2>2 DEF NewBlob
    <2>6. Target(p, r) = "blob"
      BY <1>3, <2>2, <2>4, <2>5 DEF Target
    <2>7. known' = known \cup {p.blob} /\ byId' = [byId EXCEPT ![p.blob] = "blob"]
      BY <2>3, <2>5, <2>6 DEF ReceiveBlob
    <2>8. nameAcked' = nameAcked /\ acked' = acked
      <3>1. nameAcked' = [b \in Blob |-> nameAcked[b] \/ [blob |-> b, chunk |-> NameAck] \in r.acks]
            /\ acked' = [b \in Blob |-> acked[b] \cup {n \in Chunks(b) : [blob |-> b, chunk |-> n] \in r.acks}]
        BY <2>3 DEF ReceiveAcks
      <3>2. nameAcked \in [Blob -> BOOLEAN] /\ acked \in [Blob -> SUBSET Nat]
        BY <1>1 DEF TypeOK
      <3>3. ASSUME NEW b \in Blob
            PROVE  /\ (nameAcked[b] \/ [blob |-> b, chunk |-> NameAck] \in r.acks) = nameAcked[b]
                   /\ acked[b] \cup {n \in Chunks(b) : [blob |-> b, chunk |-> n] \in r.acks} = acked[b]
        <4>1. nameAcked[b] \in BOOLEAN
          BY <3>2
        <4>2. (nameAcked[b] \/ [blob |-> b, chunk |-> NameAck] \in r.acks) = nameAcked[b]
          BY <4>1, <2>4, Zenon
        <4>3. {n \in Chunks(b) : [blob |-> b, chunk |-> n] \in r.acks} = {}
          BY <2>4, Zenon
        <4> QED
          BY <4>2, <4>3
      <3>4. nameAcked' = [b \in Blob |-> nameAcked[b]]
        BY <3>1, <3>3, Zenon
      <3>5. acked' = [b \in Blob |-> acked[b]]
        BY <3>1, <3>3, Zenon
      <3> QED
        BY <3>2, <3>4, <3>5
    <2>9. Owed(p, r) \in Seq(Acks) /\ \A i \in DOMAIN Owed(p, r) : Owed(p, r)[i].blob = p.blob
      BY <2>2, OwedFacts
    <2>10. /\ pending'[p.to] = pending[p.to] \o Owed(p, r)
           /\ \A c \in Courier : c # p.to => pending'[c] = pending[c]
      BY <2>3, <1>1 DEF ReceiveBlob, TypeOK
    <2> QED
      BY <2>1, <2>2, <2>4, <2>5, <2>6, <2>7, <2>8, <2>9, <2>10
  <1> QED
    BY <1>4, <1>5

\* A packet that is received keeps OneWay.
LEMMA ReceiveOneWay ==
    ASSUME IInv, OneWay, NEW p \in net, NEW again \in BOOLEAN, Receive(p, again)
    PROVE  OneWay'
  <1>1. UNCHANGED <<submitted, sent>> /\ net' \subseteq net /\ TypeOK
    BY DEF Receive, IInv, TypeOK
  <1> SUFFICES ASSUME NEW o \in Courier, AllFrom(o)
               PROVE  /\ pending'[o] = <<>>
                      /\ \A q \in net' :
                            IF q.to = o THEN q.kind = "idle"
                            ELSE /\ q.kind # "idle" /\ q.acks = <<>> /\ Owner[q.blob] = o
                                 /\ (q.name /\ q.kind # "done") \/ q.blob \in known'
                      /\ \A b \in Blob :
                            /\ byId'[b] = IF b \in known' THEN "blob" ELSE "none"
                            /\ b \in known' => Owner[b] = o /\ sent[b] # {}
                            /\ nameAcked'[b] => b \in known'
                      /\ \A i \in DOMAIN pending'[Peer(o)] :
                            pending'[Peer(o)][i].chunk = NameAck
                                => pending'[Peer(o)][i].blob \in known'
                      /\ \A q \in net' : q.to = o =>
                            \A i \in DOMAIN q.acks :
                                q.acks[i].chunk = NameAck => q.acks[i].blob \in known'
    BY <1>1 DEF OneWay, AllFrom
  <1>0. PICK r \in Readings(p) : Read(p, r)
    BY DEF Receive, Read
  <1>2. /\ pending[o] = <<>>
        /\ \A q \in net :
              IF q.to = o THEN q.kind = "idle"
              ELSE /\ q.kind # "idle" /\ q.acks = <<>> /\ Owner[q.blob] = o
                   /\ (q.name /\ q.kind # "done") \/ q.blob \in known
        /\ \A b \in Blob :
              /\ byId[b] = IF b \in known THEN "blob" ELSE "none"
              /\ b \in known => Owner[b] = o /\ sent[b] # {}
              /\ nameAcked[b] => b \in known
        /\ \A i \in DOMAIN pending[Peer(o)] :
              pending[Peer(o)][i].chunk = NameAck => pending[Peer(o)][i].blob \in known
        /\ \A q \in net : q.to = o =>
              \A i \in DOMAIN q.acks :
                  q.acks[i].chunk = NameAck => q.acks[i].blob \in known
    BY DEF OneWay
  <1>3. CASE /\ p.to = o /\ p.kind = "idle" /\ p.blob = NoBlob
             /\ UNCHANGED <<known, byId, pending>>
             /\ \A b \in Blob : nameAcked'[b] => b \in known
    BY <1>1, <1>2, <1>3
  <1>4. CASE /\ p.to = Peer(o) /\ p.kind # "idle" /\ p.blob \in Blob /\ Owner[p.blob] = o
             /\ UNCHANGED <<nameAcked, acked>>
             /\ known' = known \cup {p.blob} /\ byId' = [byId EXCEPT ![p.blob] = "blob"]
             /\ pending'[p.to] = pending[p.to] \o Owed(p, r)
             /\ Owed(p, r) \in Seq(Acks)
             /\ \A i \in DOMAIN Owed(p, r) : Owed(p, r)[i].blob = p.blob
             /\ \A c \in Courier : c # p.to => pending'[c] = pending[c]
    <2>1. Peer(o) # o /\ Peer(o) \in Courier
      BY TwoEnds
    <2>2. sent[p.blob] # {}
      <3>1. p.kind \in {"done", "bare", "chunk"}
        BY <1>1, <1>4 DEF TypeOK, Packets
      <3>2. acked[p.blob] \subseteq sent[p.blob] /\ 0 \in Chunks(p.blob)
        BY <1>4 DEF IInv, AcksHonest, ClaimsWereSent, Chunks
      <3> QED
        BY <3>1, <3>2 DEF IInv, PacketsHonest
    <2>3. \A b \in Blob : byId'[b] = IF b \in known' THEN "blob" ELSE "none"
      BY <1>1, <1>2, <1>4 DEF TypeOK
    <2>4. ASSUME NEW i \in DOMAIN pending'[Peer(o)], pending'[Peer(o)][i].chunk = NameAck
          PROVE  pending'[Peer(o)][i].blob \in known'
      <3>1. pending[Peer(o)] \in Seq(Acks) /\ pending'[Peer(o)] = pending[Peer(o)] \o Owed(p, r)
        BY <1>1, <1>4, <2>1 DEF TypeOK
      <3>2. CASE i \in DOMAIN pending[Peer(o)]
        <4>1. pending'[Peer(o)][i] = pending[Peer(o)][i]
          BY <3>1, <3>2, <1>4, ConcatKeeps
        <4> QED
          BY <4>1, <3>2, <2>4, <1>2, <1>4
      <3>3. CASE i \notin DOMAIN pending[Peer(o)]
        <4>1. \E j \in DOMAIN Owed(p, r) : pending'[Peer(o)][i] = Owed(p, r)[j]
          BY <3>1, <3>3, <2>4, <1>4, ConcatElement
        <4> QED
          BY <4>1, <1>4
      <3> QED
        BY <3>2, <3>3
    <2>5. pending'[o] = <<>>
      BY <1>2, <1>4, <2>1
    <2> QED
      BY <1>1, <1>2, <1>4, <2>2, <2>3, <2>4, <2>5
  <1> QED
    BY <1>0, <1>3, <1>4, ReadAsWritten

\* A packet that is received on a calm link is answered.
LEMMA ReceiveQuiet ==
    ASSUME IInv, Quiet, NEW p \in net, NEW again \in BOOLEAN, Receive(p, again)
    PROVE  Quiet'
  <1>1. OneWay' /\ OneWay
    BY ReceiveOneWay DEF Quiet
  <1>0. PICK r \in Readings(p) : Read(p, r)
    BY DEF Receive, Read
  <1>2. /\ UNCHANGED <<calm, submitted, sent>>
        /\ calm => net' = net \ {p}
        /\ TypeOK
    BY DEF Receive, IInv, TypeOK
  <1>3. NothingGoesMissing'
    <2> SUFFICES ASSUME calm, NEW x \in submitted, OnlyTraffic(x)
                 PROVE  /\ \A k \in sent[x] \ acked'[x] :
                              AckToCome(x, k)' \/ \E q \in net' : q.blob = x /\ q.kind = "chunk" /\ q.chunk = k
                        /\ sent[x] # {} /\ ~nameAcked'[x] =>
                              AckToCome(x, NameAck)' \/ (x \notin known' /\ \E q \in net' : q.blob = x /\ q.name)
      <3>1. ASSUME NEW y PROVE OnlyTraffic(y)' <=> OnlyTraffic(y)
        BY <1>2 DEF OnlyTraffic
      <3> QED
        BY <3>1, <1>2 DEF NothingGoesMissing
    <2> DEFINE o == Owner[x]
    <2>1. x \in Blob /\ o \in Courier /\ AllFrom(o)
      BY <1>2 DEF OnlyTraffic, AllFrom, TypeOK
    <2>2. Receiver(x) = Peer(o) /\ Peer(o) \in Courier /\ Peer(o) # o
      BY <2>1, TwoEnds DEF Receiver
    <2>3. /\ \A k \in sent[x] \ acked[x] :
                AckToCome(x, k) \/ \E q \in net : q.blob = x /\ q.kind = "chunk" /\ q.chunk = k
          /\ sent[x] # {} /\ ~nameAcked[x] =>
                AckToCome(x, NameAck) \/ (x \notin known /\ \E q \in net : q.blob = x /\ q.name)
      BY DEF Quiet, NothingGoesMissing
    <2>4. sent[x] \subseteq Chunks(x) /\ NameAck \notin Chunks(x) /\ acked[x] \subseteq acked'[x]
      <3>1. acked'[x] = acked[x] \cup {n \in Chunks(x) : [blob |-> x, chunk |-> n] \in r.acks}
        BY <1>0, <2>1 DEF Read, ReceiveAcks
      <3> QED
        BY <3>1, <2>1, <1>2 DEF TypeOK, NameAck, Chunks
    <2>5. CASE /\ p.to = o /\ p.kind = "idle" /\ p.blob = NoBlob
               /\ UNCHANGED <<known, byId, pending>>
               /\ \A b \in Blob : \A n \in {NameAck} \cup Chunks(b) :
                     [blob |-> b, chunk |-> n] \in FoundAcks(p) =>
                         IF n = NameAck THEN nameAcked'[b] /\ b \in known ELSE n \in acked'[b]
      <3>1. \A q \in net : q.blob = x => q \in net'
        BY <2>1, <2>5, <1>2, BlobAssumption
      <3>2. ASSUME NEW k, AckToCome(x, k), [blob |-> x, chunk |-> k] \notin FoundAcks(p)
            PROVE  AckToCome(x, k)'
        <4>1. CASE \E q \in net : q.to = o /\ [blob |-> x, chunk |-> k] \in FoundAcks(q)
          BY <4>1, <3>2, <1>2 DEF AckToCome
        <4>2. CASE \E i \in DOMAIN pending[Receiver(x)] :
                       pending[Receiver(x)][i] = [blob |-> x, chunk |-> k]
          BY <4>2, <2>5 DEF AckToCome
        <4> QED
          BY <4>1, <4>2, <3>2 DEF AckToCome
      <3>3. ASSUME NEW k \in sent[x] \ acked'[x]
            PROVE  AckToCome(x, k)' \/ \E q \in net' : q.blob = x /\ q.kind = "chunk" /\ q.chunk = k
        <4>1. [blob |-> x, chunk |-> k] \notin FoundAcks(p)
          BY <3>3, <2>1, <2>4, <2>5
        <4>2. k \in sent[x] \ acked[x]
          BY <3>3, <2>4
        <4> QED
          BY <4>1, <4>2, <3>1, <3>2, <2>3
      <3>4. ASSUME sent[x] # {}, ~nameAcked'[x]
            PROVE  AckToCome(x, NameAck)' \/ (x \notin known' /\ \E q \in net' : q.blob = x /\ q.name)
        <4>1. [blob |-> x, chunk |-> NameAck] \notin FoundAcks(p)
          BY <3>4, <2>1, <2>5
        <4>2. ~nameAcked[x]
          <5>1. nameAcked'[x] <=> nameAcked[x] \/ [blob |-> x, chunk |-> NameAck] \in r.acks
            BY <1>0, <2>1, Zenon DEF Read, ReceiveAcks
          <5> QED
            BY <5>1, <3>4
        <4> QED
          BY <4>1, <4>2, <3>1, <3>2, <3>4, <2>3, <2>5
      <3> QED
        BY <3>3, <3>4
    <2>6. CASE /\ p.to = Peer(o) /\ p.kind # "idle" /\ p.blob \in Blob /\ Owner[p.blob] = o
               /\ UNCHANGED <<nameAcked, acked>>
               /\ known' = known \cup {p.blob}
               /\ Target(p, r) = "blob"
               /\ p.kind = "chunk" => r.chunk = p.chunk
               /\ p.blob \notin known => NewBlob(p)
               /\ pending'[p.to] = pending[p.to] \o Owed(p, r)
               /\ Owed(p, r) \in Seq(Acks)
      <3>1. /\ pending[p.to] \in Seq(Acks) /\ pending'[Receiver(x)] = pending[Receiver(x)] \o Owed(p, r)
            /\ p.to = Receiver(x) /\ p.to # o
        BY <2>2, <2>6, <1>2 DEF TypeOK
      <3>2. ASSUME NEW k, AckToCome(x, k) PROVE AckToCome(x, k)'
        <4>1. CASE \E q \in net : q.to = o /\ [blob |-> x, chunk |-> k] \in FoundAcks(q)
          BY <4>1, <3>1, <1>2 DEF AckToCome
        <4>2. CASE \E i \in DOMAIN pending[Receiver(x)] :
                       pending[Receiver(x)][i] = [blob |-> x, chunk |-> k]
          <5>1. PICK i \in DOMAIN pending[Receiver(x)] :
                    pending[Receiver(x)][i] = [blob |-> x, chunk |-> k]
            BY <4>2
          <5>2. i \in DOMAIN pending'[Receiver(x)] /\ pending'[Receiver(x)][i] = pending[Receiver(x)][i]
            BY <5>1, <3>1, <2>6, ConcatKeeps
          <5> QED
            BY <5>1, <5>2 DEF AckToCome
        <4> QED
          BY <4>1, <4>2, <3>2 DEF AckToCome
      <3>3. ASSUME NEW k, p.blob = x,
                   \E i \in DOMAIN Owed(p, r) : Owed(p, r)[i] = [blob |-> p.blob, chunk |-> k]
            PROVE  AckToCome(x, k)'
        <4>1. PICK i \in DOMAIN Owed(p, r) : Owed(p, r)[i] = [blob |-> x, chunk |-> k]
          BY <3>3
        <4> DEFINE j == Len(pending[p.to]) + i
        <4>2. j \in DOMAIN (pending[p.to] \o Owed(p, r)) /\ (pending[p.to] \o Owed(p, r))[j] = Owed(p, r)[i]
          BY <4>1, <3>1, <2>6, ConcatKeeps
        <4> HIDE DEF j
        <4> QED
          BY <4>1, <4>2, <3>1 DEF AckToCome
      <3>4. ASSUME NEW k \in sent[x] \ acked'[x]
            PROVE  AckToCome(x, k)' \/ \E q \in net' : q.blob = x /\ q.kind = "chunk" /\ q.chunk = k
        <4>1. CASE p.blob = x /\ p.kind = "chunk" /\ p.chunk = k
          <5>1. r.chunk = k /\ k # NoChunk /\ k \in Chunks(p.blob)
            BY <4>1, <3>4, <2>4, <2>6 DEF NoChunk, NameAck
          <5>2. Mark(p, r)
            BY <5>1, <2>6 DEF Mark
          <5> QED
            BY <4>1, <5>1, <5>2, <3>3, OwedHas
        <4>2. CASE ~(p.blob = x /\ p.kind = "chunk" /\ p.chunk = k)
          BY <4>2, <3>2, <3>4, <2>3, <2>6, <1>2
        <4> QED
          BY <4>1, <4>2
      <3>5. ASSUME sent[x] # {}, ~nameAcked'[x]
            PROVE  AckToCome(x, NameAck)' \/ (x \notin known' /\ \E q \in net' : q.blob = x /\ q.name)
        <4>1. CASE AckToCome(x, NameAck)
          BY <4>1, <3>2
        <4>2. CASE x \notin known /\ p.blob = x
          BY <4>2, <3>3, <2>6, OwedHas
        <4>3. CASE x \notin known /\ p.blob # x /\ \E q \in net : q.blob = x /\ q.name
          BY <4>3, <2>6, <1>2
        <4> QED
          BY <4>1, <4>2, <4>3, <3>5, <2>3, <2>6
      <3> QED
        BY <3>4, <3>5
    <2>7. CASE p.to = o
      BY <2>5, <2>1, <2>7, <1>0, <1>1, <2>2, ReadAsWritten
    <2>8. CASE p.to # o
      BY <2>6, <2>1, <2>8, <1>0, <1>1, ReadAsWritten
    <2> QED
      BY <2>7, <2>8
  <1> QED
    BY <1>1, <1>3 DEF Quiet

LEMMA InitQuiet == Init => Quiet
  <1> SUFFICES ASSUME Init PROVE Quiet
    OBVIOUS
  <1>1. OneWay
    <2>1. \A c \in Courier : pending[c] = <<>> /\ DOMAIN pending[c] = {}
      BY DEF Init
    <2>2. net = {} /\ known = {} /\ \A b \in Blob : byId[b] = "none" /\ ~nameAcked[b]
      BY DEF Init
    <2> QED
      BY <2>1, <2>2, TwoEnds DEF OneWay
  <1>2. NothingGoesMissing
    BY DEF Init, NothingGoesMissing
  <1> QED
    BY <1>1, <1>2 DEF Quiet

\* A blob that is not submitted was not sent.
Unsent == \A b \in Blob : sent[b] # {} => b \in submitted

LEMMA UnsentHolds == IInv /\ Unsent /\ [Next]_vars => Unsent'
  <1> SUFFICES ASSUME IInv, Unsent, [Next]_vars PROVE Unsent'
    OBVIOUS
  <1>1. CASE \E b \in Blob : Submit(b)
    BY <1>1 DEF Submit, Unsent
  <1>2. CASE \E c \in Courier : Send(c)
    <2>1. submitted' = submitted
      BY <1>2, SendingFacts DEF Emit
    <2>2. ASSUME NEW b \in Blob, sent'[b] # sent[b] PROVE b \in submitted
      BY <1>2, <2>2, SendingFacts
    <2> QED
      BY <2>1, <2>2 DEF Unsent
  <1>3. CASE (\E p \in net : Lose(p) \/ \E again \in BOOLEAN : Receive(p, again)) \/ UNCHANGED vars
    <2>1. UNCHANGED <<submitted, sent>>
      BY <1>3 DEF Lose, Receive, senderVars, vars
    <2> QED
      BY <2>1 DEF Unsent
  <1> QED
    BY <1>1, <1>2, <1>3 DEF Next

\* Every step keeps all this.
LEMMA NextQuiet == IInv /\ Unsent /\ Quiet /\ [Next]_vars => Quiet'
  <1> SUFFICES ASSUME IInv, Unsent, Quiet, [Next]_vars PROVE Quiet'
    OBVIOUS
  <1>1. ASSUME NEW b \in Blob, Submit(b) PROVE Quiet'
    <2>1. /\ submitted' = submitted \cup {b}
          /\ UNCHANGED <<calm, sent, acked, nameAcked, known, byId, pending, net>>
      BY <1>1 DEF Submit, receiverVars
    <2>2. OneWay'
      <3>1. \A o \in Courier : AllFrom(o)' => AllFrom(o)
        BY <2>1 DEF AllFrom
      <3> QED
        BY <3>1, <2>1 DEF Quiet, OneWay
    <2>3. NothingGoesMissing'
      <3>1. \A x : OnlyTraffic(x)' => OnlyTraffic(x)
        BY <2>1 DEF OnlyTraffic
      <3>2. sent[b] = {}
        BY <1>1 DEF Submit, Unsent
      <3>3. \A x, k : AckToCome(x, k)' <=> AckToCome(x, k)
        BY <2>1 DEF AckToCome
      <3> QED
        BY <3>1, <3>2, <3>3, <2>1 DEF Quiet, NothingGoesMissing
    <2> QED
      BY <2>2, <2>3 DEF Quiet
  <1>2. CASE \E c \in Courier : Send(c)
    BY <1>2, SendQuiet
  <1>3. ASSUME NEW p \in net, Lose(p) PROVE Quiet'
    <2>1. /\ ~calm' /\ net' \subseteq net
          /\ UNCHANGED <<submitted, sent, nameAcked, known, byId, pending>>
      BY <1>3 DEF Lose, senderVars, receiverVars
    <2> QED
      BY <2>1 DEF Quiet, OneWay, AllFrom, NothingGoesMissing
  <1>4. CASE \E p \in net, again \in BOOLEAN : Receive(p, again)
    BY <1>4, ReceiveQuiet
  <1>5. CASE UNCHANGED vars
    BY <1>5 DEF vars, senderVars, receiverVars, Quiet, OneWay, AllFrom, NothingGoesMissing,
                OnlyTraffic, AckToCome
  <1> QED
    BY <1>1, <1>2, <1>3, <1>4, <1>5 DEF Next

\* On a calm link on which only one of the couriers sends blobs, every chunk sent is
\* acknowledged or under way, or its acknowledgement is; likewise the name, although
\* BlobCourier::dataReceived() acknowledges a name only once.
THEOREM NothingIsMissing == Spec => []NothingGoesMissing
  <1>1. Init => IInv /\ Unsent /\ Quiet
    <2>1. Init => Unsent
      BY DEF Init, Unsent
    <2> QED
      BY <2>1, InitIInv, InitQuiet
  <1>2. IInv /\ Unsent /\ Quiet /\ [Next]_vars => (IInv /\ Unsent /\ Quiet)'
    BY NextIInv, UnsentHolds, NextQuiet
  <1>3. Quiet => NothingGoesMissing
    BY DEF Quiet
  <1> QED
    BY <1>1, <1>2, <1>3, PTL DEF Spec
=============================================================================
