----------------------------- MODULE StreamProofs -----------------------------
(***************************************************************************)
(* Lemmas about the operators of UploadStream, DownloadStream and          *)
(* CongestionControl, used by the proofs about what is built from them.  *)
(***************************************************************************)
EXTENDS UploadStream, DownloadStream, CongestionControl, SequenceTheorems, TLAPS

\* Taking the oldest packet off a channel.
LEMMA ReceivedChannel ==
    ASSUME NEW S, NEW before \in Seq(S), before # << >>
    PROVE  /\ Head(before) \in S /\ Head(before) = before[1]
           /\ Tail(before) \in Seq(S) /\ Len(before) \in Nat \ {0}
           /\ Len(Tail(before)) = Len(before) - 1
           /\ \A i \in 1 .. Len(Tail(before)) :
                i + 1 \in 1 .. Len(before) /\ Tail(before)[i] = before[i + 1]
<1>1. Len(before) \in Nat \ {0}
  BY EmptySeq
<1>2. /\ Head(before) \in S /\ Tail(before) \in Seq(S)
      /\ Len(Tail(before)) = Len(before) - 1
      /\ \A i \in 1 .. Len(Tail(before)) : Tail(before)[i] = before[i + 1]
  BY HeadTailProperties
<1>3. Head(before) = before[1]
  BY <1>1
<1> QED
  BY <1>1, <1>2, <1>3

\* How much of a run receive_ack pops: up to the acknowledged packet.
AckedOfRun(queue, base, ack) ==
    IF ack <= base THEN 0
    ELSE IF ack >= base + Len(queue) THEN Len(queue) ELSE ack - base

\* On a run, the while loop of receive_ack (keep_track.c:300-308) pops exactly
\* the packets the ACK covers.
LEMMA AckedPrefixOfRun ==
    ASSUME NEW queue \in PacketQueues, NEW base \in Nat, NEW ack \in Nat, Run(queue, base)
    PROVE  AckedPrefix(queue, ack) = AckedOfRun(queue, base, ack)
<1> USE SizesAssumption DEF PacketQueues, Packets
<1> DEFINE k == AckedOfRun(queue, base, ack)
           P(j) == /\ \A i \in 1 .. j : queue[i] <= ack
                   /\ j < Len(queue) => queue[j + 1] > ack
<1>1. k \in 0 .. Len(queue)
  BY DEF AckedOfRun
<1>2. P(k)
  <2>1. ASSUME NEW i \in 1 .. k PROVE queue[i] <= ack
    <3>1. i \in 1 .. Len(queue) /\ queue[i] = base + i
      BY <1>1 DEF Run
    <3> QED
      BY <3>1 DEF AckedOfRun
  <2>2. ASSUME k < Len(queue) PROVE queue[k + 1] > ack
    <3>1. k + 1 \in 1 .. Len(queue)
      <4> HIDE DEF k
      <4> QED BY <1>1, <2>2
    <3>2. queue[k + 1] = base + (k + 1)
      <4> HIDE DEF k
      <4> QED BY <3>1 DEF Run
    <3> QED
      BY <3>2, <2>2 DEF AckedOfRun
  <2> QED
    BY <2>1, <2>2
<1>3. ASSUME NEW j \in 0 .. Len(queue), P(j)
      PROVE  j = k
  <2>1. CASE j < k
    <3>1. j + 1 \in 1 .. k
      BY <1>1, <2>1
    <3>2. queue[j + 1] <= ack
      BY <1>2, <3>1
    <3>3. queue[j + 1] > ack
      BY <1>1, <1>3, <2>1
    <3>4. queue[j + 1] \in Nat
      BY <1>1, <2>1
    <3> QED
      BY <3>2, <3>3, <3>4
  <2>2. CASE k < j
    <3>1. k + 1 \in 1 .. j
      BY <1>1, <2>2
    <3>2. queue[k + 1] <= ack
      BY <1>3, <3>1
    <3>3. queue[k + 1] > ack
      BY <1>1, <1>2, <2>2
    <3>4. queue[k + 1] \in Nat
      BY <1>1, <2>2
    <3> QED
      BY <3>2, <3>3, <3>4
  <2> QED
    BY <1>1, <2>1, <2>2
<1>4. AckedPrefix(queue, ack) = CHOOSE j \in 0 .. Len(queue) : P(j)
  BY DEF AckedPrefix
<1> HIDE DEF k, P
<1>5. \E j \in 0 .. Len(queue) : P(j)
  BY <1>1, <1>2
<1>6. /\ AckedPrefix(queue, ack) \in 0 .. Len(queue)
      /\ P(AckedPrefix(queue, ack))
  BY <1>4, <1>5, Zenon
<1> QED
  BY <1>3, <1>6 DEF k

\* What is left of a run is a run, starting after the packets popped.
LEMMA UnackedOfRun ==
    ASSUME NEW u, u.queue \in PacketQueues, NEW base \in Nat, NEW ack \in Nat,
           Run(u.queue, base)
    PROVE  LET k == AckedOfRun(u.queue, base, ack) IN
           /\ k \in 0 .. Len(u.queue)
           /\ AckedPrefix(u.queue, ack) = k
           /\ Unacked(u, ack) \in PacketQueues
           /\ Len(Unacked(u, ack)) = Len(u.queue) - k
           /\ Run(Unacked(u, ack), base + k)
<1> USE DEF PacketQueues, Packets
<1> DEFINE q == u.queue
           k == AckedOfRun(q, base, ack)
           rest == SubSeq(q, k + 1, Len(q))
<1>1. k \in 0 .. Len(q)
  BY DEF AckedOfRun
<1>2. AckedPrefix(q, ack) = k
  BY AckedPrefixOfRun
<1>3. Unacked(u, ack) = rest
  BY <1>2 DEF Unacked
<1>4. Len(q) \in Nat /\ \A i \in 1 .. Len(q) : q[i] \in 1 .. N /\ q[i] = base + i
  BY ElementOfSeq, LenProperties DEF Run
<1> HIDE DEF k, q
<1>5. /\ rest \in PacketQueues
      /\ Len(rest) = Len(q) - k
      /\ \A i \in 1 .. Len(q) - k : rest[i] = q[k + i]
  <2>1. \A i \in k + 1 .. Len(q) : q[i] \in 1 .. N
    BY <1>1, <1>4
  <2>2. k + 1 \in Int /\ Len(q) \in Int
    BY <1>1, <1>4
  <2>3. /\ rest \in PacketQueues
        /\ Len(rest) = IF k + 1 <= Len(q) THEN Len(q) - (k + 1) + 1 ELSE 0
        /\ \A i \in 1 .. Len(q) - (k + 1) + 1 : rest[i] = q[(k + 1) + i - 1]
    BY <2>1, <2>2, SubSeqProperties
  <2> HIDE DEF rest
  <2> QED
    BY <1>1, <1>4, <2>3
<1> HIDE DEF rest
<1>6. Run(rest, base + k)
  BY <1>1, <1>4, <1>5 DEF Run
<1> QED
  BY <1>1, <1>2, <1>3, <1>5, <1>6 DEF k, q

-------------------------------------------------------------------------------
(* The receiver's buffer.                                                    *)

\* How full packets fit into a chunk: N - 1 of them and the last one fill it,
\* and no number of full ones does (common.h: 353 * 1484 + 436 = 512 * 1024).
LEMMA PacketsInChunk ==
    ASSUME NEW k \in Nat
    PROVE  /\ k * FullPacket \in Nat /\ BT_CHUNK_SIZE \in Nat
           /\ (k + 1) * FullPacket = k * FullPacket + FullPacket
           /\ k * FullPacket # BT_CHUNK_SIZE
           /\ k * FullPacket <= BT_CHUNK_SIZE => k <= N - 1
           /\ k >= N => k * FullPacket + LastPacket > BT_CHUNK_SIZE
           /\ k = N - 1 => k * FullPacket + LastPacket = BT_CHUNK_SIZE
<1> USE SizesAssumption
<1>1. \A m \in Nat : m * FullPacket \in Nat /\ (m + 1) * FullPacket = m * FullPacket + FullPacket
  OBVIOUS
<1>2. BT_CHUNK_SIZE = (N - 1) * FullPacket + LastPacket /\ N - 1 \in Nat
  BY DEF BT_CHUNK_SIZE
<1>3. \A m, n \in Nat : m <= n => m * FullPacket <= n * FullPacket
  <2>1. \A m, n \in Nat : m <= n => (n - m) * FullPacket \in Nat
    OBVIOUS
  <2>2. \A m, n \in Nat : n * FullPacket = m * FullPacket + (n - m) * FullPacket
    OBVIOUS
  <2> QED
    BY <1>1, <2>1, <2>2
<1>4. CASE k <= N - 1
  <2>1. k * FullPacket <= (N - 1) * FullPacket
    BY <1>2, <1>3, <1>4
  <2> QED
    BY <1>1, <1>2, <1>4, <2>1
<1>5. CASE k >= N
  <2>1. N * FullPacket <= k * FullPacket
    BY <1>3, <1>5
  <2>2. N * FullPacket = (N - 1) * FullPacket + FullPacket
    BY <1>1, <1>2
  <2> QED
    BY <1>1, <1>2, <1>5, <2>1, <2>2
<1> QED
  BY <1>4, <1>5

\* The members the type sets of a stream are made of.
LEMMA StreamFields ==
    /\ 0 \in SeqNumbers /\ 0 \in ByteCounts /\ BT_CHUNK_SIZE + 1 \in ByteCounts
    /\ << >> \in PacketQueues
    /\ "RECEIVING" \in ChunkStates /\ "OWNED" \in ChunkStates /\ "NOT_STARTED" \in ChunkStates
<1>1. BT_CHUNK_SIZE \in Nat
  BY PacketsInChunk, SizesAssumption
<1> QED
  BY <1>1, SizesAssumption DEF SeqNumbers, ByteCounts, PacketQueues, ChunkStates

\* The stream start_download opens is well formed, its buffer empty.
LEMMA StartDownloadBuffer == StartDownload \in Streams /\ Buffer(StartDownload)
<1>1. 0 * FullPacket = 0 /\ 0 < N /\ 0 <= N - 1
  BY SizesAssumption
<1>2. Len(<< >>) = 0 /\ << >> = [i \in 1 .. 0 |-> i]
  OBVIOUS
<1> QED
  BY <1>1, <1>2, StreamFields DEF StartDownload, Streams, Buffer

\* download_peer_crash leaves a well-formed stream whose buffer is empty again,
\* and forgets nothing of what was acknowledged.
LEMMA CrashDownloadBuffer ==
    ASSUME NEW d \in Streams
    PROVE  /\ CrashDownload(d) \in Streams /\ Buffer(CrashDownload(d))
           /\ CrashDownload(d).last = d.last
<1>1. CrashDownload(d) \in Streams
  BY StreamFields DEF CrashDownload, Streams
<1>2. CrashDownload(d).stream = FALSE /\ CrashDownload(d).last = d.last
  BY DEF CrashDownload, Streams
<1> QED
  BY <1>1, <1>2 DEF Buffer

\* The DATA handler keeps the buffer sound, and a chunk it fills verifies: it is
\* never set back to NOT_STARTED (util.c:307-335).
LEMMA DataStreamBuffer ==
    ASSUME NEW d \in Streams, NEW seq \in Packets, d.stream, Buffer(d)
    PROVE  /\ DataStream(d, seq) \in Streams
           /\ Buffer(DataStream(d, seq))
           /\ DataStream(d, seq).chunk # "NOT_STARTED"
           /\ DataStream(d, seq).last = TrackDataPacket(d, seq).last
           /\ TrackDataPacket(d, seq).last = IF seq = d.last + 1 THEN seq ELSE d.last
           /\ ~DataStream(d, seq).stream =>
                DataStream(d, seq).chunk = "OWNED" /\ seq = N /\ seq = d.last + 1
<1> USE SizesAssumption
<1> DEFINE t == TrackDataPacket(d, seq)
           len == Len(d.saved)
<1>0. seq \in SeqNumbers /\ seq \in 1 .. N
  BY DEF SeqNumbers, Packets
<1>1. /\ t \in Streams
      /\ t.last = IF seq = d.last + 1 THEN seq ELSE d.last
      /\ t.stream = d.stream /\ t.chunk = d.chunk /\ t.bytes = d.bytes
      /\ t.saved = d.saved
  BY <1>0 DEF TrackDataPacket, Streams
<1>2. /\ d.chunk = "RECEIVING" /\ d.last \in 0 .. N
      /\ d.saved \in PacketQueues /\ d.saved \in Seq(Packets) /\ len \in Nat
      /\ d.bytes \in 0 .. BT_CHUNK_SIZE + 1 /\ BT_CHUNK_SIZE \in Nat
  <2>1. d.saved \in PacketQueues /\ d.saved \in Seq(Packets)
    BY DEF Streams, PacketQueues
  <2>2. len \in Nat
    BY <2>1, LenProperties
  <2>3. d.chunk = "RECEIVING" /\ d.last \in 0 .. N
    BY DEF Buffer, Streams, SeqNumbers
  <2>4. d.bytes \in ByteCounts
    BY DEF Streams
  <2> QED
    BY <2>1, <2>2, <2>3, <2>4, PacketsInChunk DEF ByteCounts
<1>3. CASE seq # t.last
  <2>1. DataStream(d, seq) = t /\ t.last = d.last
    BY <1>1, <1>3 DEF DataStream
  <2> QED
    BY <1>1, <1>2, <2>1 DEF Buffer
<1>4. CASE seq = t.last
  <2> DEFINE s == SaveDataPacket(t, seq)
  <2>1. DataStream(d, seq) = SaveChunk(s)
    BY <1>4 DEF DataStream
  <2>2. PayloadSize(seq) \in 1 .. FullPacket
    BY DEF PayloadSize
  <2>3. CASE d.bytes + PayloadSize(seq) > BT_CHUNK_SIZE
    <3>1. s = [t EXCEPT !.bytes = BT_CHUNK_SIZE + 1, !.overrun = TRUE]
      BY <1>1, <1>2, <2>2, <2>3 DEF SaveDataPacket
    <3>2. /\ s \in Streams /\ s.bytes = BT_CHUNK_SIZE + 1 /\ s.last = t.last
          /\ s.chunk = "RECEIVING" /\ s.stream
      <4>1. t.stream
        BY <1>1 DEF Buffer
      <4> HIDE DEF t
      <4> QED
        BY <1>1, <1>2, <3>1, <4>1, StreamFields DEF Streams
    <3>3. SaveChunk(s) = s
      BY <1>2, <3>2 DEF SaveChunk, Filled
    <3> QED
      BY <1>1, <2>1, <3>2, <3>3 DEF Buffer
  <2>4. CASE d.bytes + PayloadSize(seq) <= BT_CHUNK_SIZE
    <3> DEFINE saved == Append(d.saved, seq)
    <3>1. /\ d.last < N /\ d.bytes = len * FullPacket
          /\ d.last <= len /\ len <= N - 1
          /\ len = d.last => d.saved = [i \in 1 .. d.last |-> i]
      <4>1. d.bytes # BT_CHUNK_SIZE + 1
        BY <1>2, <2>2, <2>4
      <4> QED
        BY <4>1 DEF Buffer
    <3>2. s = [t EXCEPT !.bytes = d.bytes + PayloadSize(seq), !.saved = saved]
      BY <1>1, <1>2, <2>4 DEF SaveDataPacket
    <3>3. /\ saved \in PacketQueues /\ saved \in Seq(Packets) /\ Len(saved) = len + 1
          /\ \A i \in 1 .. len : saved[i] = d.saved[i]
          /\ saved[len + 1] = seq
      BY <1>2, AppendProperties DEF PacketQueues
    <3>4. /\ s \in Streams /\ s.bytes = d.bytes + PayloadSize(seq)
          /\ s.saved = saved /\ s.last = t.last /\ s.chunk = "RECEIVING"
          /\ s.stream
      <4>1. d.bytes + PayloadSize(seq) \in ByteCounts
        BY <1>2, <2>2, <2>4 DEF ByteCounts
      <4> HIDE DEF saved, t, s
      <4> QED
        BY <1>1, <1>2, <3>2, <3>3, <4>1 DEF Streams
    <3>5. ASSUME len = d.last, seq = d.last + 1
          PROVE  saved = [i \in 1 .. seq |-> i]
      <4>1. \A i \in 1 .. seq : saved[i] = i
        BY <1>2, <3>1, <3>3, <3>5
      <4> HIDE DEF saved, len
      <4>2. Len(saved) = seq
        BY <3>3, <3>5
      <4>3. saved \in [1 .. seq -> Packets]
        BY <3>3, <4>2, LenProperties
      <4> QED
        BY <4>1, <4>3
    <3>6. CASE seq # N
      <4>1. PayloadSize(seq) = FullPacket /\ s.bytes = (len + 1) * FullPacket
        BY <1>2, <3>1, <3>4, <3>6, PacketsInChunk DEF PayloadSize
      <4>2. s.bytes # BT_CHUNK_SIZE /\ len + 1 <= N - 1
        <5>1. len + 1 \in Nat
          BY <1>2
        <5>2. s.bytes <= BT_CHUNK_SIZE
          BY <2>4, <3>4
        <5> HIDE DEF s, len
        <5> QED
          BY <4>1, <5>1, <5>2, PacketsInChunk
      <4>3. SaveChunk(s) = s
        BY <4>2 DEF SaveChunk, Filled
      <4>4. Len(s.saved) = len + 1 /\ t.last <= len + 1
        BY <1>1, <1>2, <3>1, <3>3, <3>4
      <4>5. len + 1 = t.last => s.saved = [i \in 1 .. t.last |-> i]
        <5>1. len + 1 = t.last => len = d.last /\ seq = d.last + 1
          BY <1>1, <1>2, <1>4, <3>1
        <5> QED
          BY <1>4, <3>4, <3>5, <5>1
      <4>6. Buffer(s)
        <5>1. t.last < N
          <6> HIDE DEF t
          <6> QED
            BY <1>0, <1>4, <3>6
        <5> HIDE DEF s, t, len
        <5> QED
          BY <3>4, <4>1, <4>2, <4>4, <4>5, <5>1 DEF Buffer
      <4> QED
        BY <1>1, <2>1, <3>4, <4>3, <4>6
    <3>7. CASE seq = N
      <4>1. PayloadSize(seq) = LastPacket
        BY <3>7 DEF PayloadSize
      <4>2. len = N - 1 /\ d.last = N - 1 /\ seq = d.last + 1
        <5>1. d.last = N - 1 /\ seq = d.last + 1
          <6>1. d.last < N
            BY <3>1
          <6>2. seq # d.last
            BY <1>2, <3>7, <6>1
          <6>3. seq = d.last + 1
            BY <1>1, <1>4, <6>2
          <6> QED
            BY <1>2, <3>7, <6>3
        <5> QED
          BY <1>2, <3>1, <5>1
      <4>3. s.bytes = BT_CHUNK_SIZE
        BY <1>2, <3>1, <3>4, <4>1, <4>2, PacketsInChunk
      <4>4. s.saved = [i \in 1 .. N |-> i]
        BY <3>4, <3>5, <3>7, <4>2
      <4>5. SaveChunk(s) = [s EXCEPT !.stream = FALSE, !.bytes = 0, !.chunk = "OWNED"]
        BY <3>4, <4>3, <4>4 DEF SaveChunk, Filled, Verifies
      <4>6. /\ SaveChunk(s) \in Streams /\ ~SaveChunk(s).stream
            /\ SaveChunk(s).chunk = "OWNED" /\ SaveChunk(s).last = s.last
        <5> HIDE DEF s
        <5> QED
          BY <3>4, <4>5, StreamFields DEF Streams
      <4>7. DataStream(d, seq).last = t.last
        BY <2>1, <3>4, <4>6
      <4> QED
        BY <1>1, <2>1, <3>4, <3>7, <4>2, <4>6, <4>7 DEF Buffer
    <3> QED
      BY <3>6, <3>7
  <2> QED
    BY <1>2, <2>2, <2>3, <2>4
<1> QED
  BY <1>3, <1>4

\* Up to N - 1 full packets fit into a chunk.
LEMMA PacketsWithinChunk ==
    ASSUME NEW k \in Nat, k <= N - 1
    PROVE  k * FullPacket <= BT_CHUNK_SIZE
<1> USE SizesAssumption
<1>1. /\ k * FullPacket \in Nat /\ (N - 1 - k) * FullPacket \in Nat
      /\ (N - 1) * FullPacket = k * FullPacket + (N - 1 - k) * FullPacket
  OBVIOUS
<1> QED
  BY <1>1 DEF BT_CHUNK_SIZE

\* A byte count past the end of a chunk means that its buffer has been overrun.
Marked(d) == d.bytes = BT_CHUNK_SIZE + 1 => d.overrun

\* The DATA handler overruns the buffer only when the packet, or one before it,
\* is saved a second time (util.c:275).
LEMMA DataStreamOverrun ==
    ASSUME NEW d \in Streams, NEW seq \in Packets, d.stream, Buffer(d), Marked(d)
    PROVE  LET n == DataStream(d, seq) IN
           /\ Marked(n) /\ (d.overrun => n.overrun)
           /\ n.overrun /\ ~d.overrun => n.last = d.last \/ Len(d.saved) > d.last
<1> USE SizesAssumption
<1> DEFINE t   == TrackDataPacket(d, seq)
           s   == SaveDataPacket(t, seq)
           len == Len(d.saved)
<1>1. /\ t \in Streams
      /\ t.last = IF seq = d.last + 1 THEN seq ELSE d.last
      /\ t.bytes = d.bytes /\ t.saved = d.saved /\ t.overrun = d.overrun
      /\ t.chunk = d.chunk /\ d.chunk = "RECEIVING"
  BY DEF TrackDataPacket, Streams, SeqNumbers, Packets, Buffer
<1>2. BT_CHUNK_SIZE \in Nat /\ len \in Nat /\ d.bytes \in Nat /\ d.last \in Nat
  <2>1. len \in Nat
    BY LenProperties DEF Streams, PacketQueues
  <2>2. BT_CHUNK_SIZE \in Nat
    BY PacketsInChunk
  <2> QED
    BY <2>1, <2>2 DEF Streams, ByteCounts, SeqNumbers
<1>3. CASE seq # t.last
  <2>1. DataStream(d, seq) = t
    BY <1>3 DEF DataStream
  <2> QED
    BY <1>1, <2>1 DEF Marked
<1>4. CASE seq = t.last
  <2>1. DataStream(d, seq) = SaveChunk(s)
    BY <1>4 DEF DataStream
  <2>2. CASE d.bytes + PayloadSize(seq) <= BT_CHUNK_SIZE
    <3>1. s = [t EXCEPT !.bytes = d.bytes + PayloadSize(seq), !.saved = Append(t.saved, seq)]
      BY <1>1, <2>2 DEF SaveDataPacket
    <3>2. s.bytes = d.bytes + PayloadSize(seq) /\ s.overrun = d.overrun
      BY <1>1, <3>1 DEF Streams
    <3>3. /\ SaveChunk(s).overrun = s.overrun
          /\ SaveChunk(s).bytes = s.bytes \/ SaveChunk(s).bytes = 0
      <4> HIDE DEF t
      <4> QED
        BY <1>1, <3>1 DEF SaveChunk, Streams
    <3> QED
      BY <1>2, <2>1, <2>2, <3>2, <3>3 DEF Marked
  <2>3. CASE d.bytes + PayloadSize(seq) > BT_CHUNK_SIZE
    <3>1. s = [t EXCEPT !.bytes = BT_CHUNK_SIZE + 1, !.overrun = TRUE]
      <4>1. ~(d.bytes + PayloadSize(seq) <= BT_CHUNK_SIZE)
        BY <1>2, <2>3 DEF PayloadSize
      <4> QED
        BY <1>1, <4>1 DEF SaveDataPacket
    <3>2. s.bytes = BT_CHUNK_SIZE + 1 /\ s.overrun /\ s.last = t.last
      <4> HIDE DEF t
      <4> QED
        BY <1>1, <3>1 DEF Streams
    <3>3. SaveChunk(s) = s
      BY <1>2, <3>2 DEF SaveChunk, Filled
    <3>4. ASSUME ~d.overrun, t.last # d.last
          PROVE  len > d.last
      <4>1. /\ d.last < N /\ d.bytes = len * FullPacket /\ d.last <= len
        BY <3>4 DEF Buffer, Marked
      <4>2. seq = d.last + 1
        BY <1>1, <3>4
      <4>3. ASSUME len = d.last
            PROVE  FALSE
        <5>1. CASE seq = N
          <6>1. PayloadSize(seq) = LastPacket /\ len = N - 1
            BY <1>2, <4>2, <4>3, <5>1 DEF PayloadSize
          <6>2. len * FullPacket + LastPacket = BT_CHUNK_SIZE
            BY <1>2, <6>1, PacketsInChunk
          <6> QED
            BY <1>2, <2>3, <4>1, <6>1, <6>2
        <5>2. CASE seq # N
          <6>1. PayloadSize(seq) = FullPacket
            BY <5>2 DEF PayloadSize
          <6>2. len + 1 <= N - 1 /\ len + 1 \in Nat
            BY <1>2, <4>1, <4>2, <4>3, <5>2
          <6>3. (len + 1) * FullPacket = len * FullPacket + FullPacket
            BY <1>2, PacketsInChunk
          <6>4. (len + 1) * FullPacket <= BT_CHUNK_SIZE
            BY <6>2, PacketsWithinChunk
          <6> QED
            BY <1>2, <2>3, <4>1, <6>1, <6>3, <6>4
        <5> QED
          BY <5>1, <5>2
      <4> HIDE DEF len
      <4> QED
        BY <1>2, <4>1, <4>3
    <3> QED
      BY <2>1, <3>2, <3>3, <3>4 DEF Marked
  <2>4. PayloadSize(seq) \in Nat
    BY DEF PayloadSize
  <2> QED
    BY <1>2, <2>2, <2>3, <2>4
<1> QED
  BY <1>3, <1>4

-------------------------------------------------------------------------------
(* The sender's window.                                                      *)

\* The values the uploader's functions reset the fields of a slot to.
LEMMA SlotFields ==
    /\ 0 \in SeqNumbers /\ 0 \in DupCounts /\ 0 \in QuietRTOs
    /\ << >> \in PacketQueues
BY SizesAssumption DEF SeqNumbers, DupCounts, QuietRTOs, PacketQueues, DUP_ACKS, ABORT_COEFF

\* The types of the fields of a slot, for the steps that keep `Slots' folded.
LEMMA SlotTypes ==
    ASSUME NEW u \in Slots
    PROVE  /\ u.queue \in PacketQueues /\ Len(u.queue) \in Nat
           /\ u.tail \in 0 .. N /\ u.lastAck \in 0 .. N /\ u.size \in Nat
           /\ u.dup \in 0 .. 2 /\ u.quiet \in 0 .. 4
           /\ u.active \in BOOLEAN /\ u.due \in BOOLEAN
<1>1. u.queue \in PacketQueues
  BY DEF Slots
<1>2. Len(u.queue) \in Nat
  BY <1>1, LenProperties DEF PacketQueues
<1>3. /\ u.tail \in SeqNumbers /\ u.lastAck \in SeqNumbers /\ u.size \in Nat
      /\ u.dup \in DupCounts /\ u.quiet \in QuietRTOs
      /\ u.active \in BOOLEAN /\ u.due \in BOOLEAN
  BY DEF Slots
<1> QED
  BY <1>1, <1>2, <1>3 DEF SeqNumbers, DupCounts, QuietRTOs, DUP_ACKS, ABORT_COEFF

\* A slot that init_tracker clears has an empty window.
LEMMA FreeSlotWindow == FreeSlot \in Slots /\ Window(FreeSlot)
<1>1. FreeSlot \in Slots
  BY SlotFields DEF FreeSlot, Slots
<1> QED
  BY <1>1 DEF FreeSlot, Window

\* start_upload opens an empty window at packet 0.
LEMMA StartUploadWindow ==
    ASSUME NEW u \in Slots, Window(u), ~u.active
    PROVE  LET v == StartUpload(u) IN
           /\ v \in Slots /\ Window(v) /\ v.active
           /\ v.queue = << >> /\ v.tail = 0 /\ Acked(v) = 0
           /\ v.lastAck = 0 /\ ~v.due /\ v.quiet = 0
<1> DEFINE v == StartUpload(u)
<1>1. v \in Slots
  BY SlotFields DEF StartUpload, Slots
<1>2. /\ v.active /\ v.queue = u.queue /\ v.tail = u.tail /\ v.size = 0
      /\ v.lastAck = 0 /\ v.due = u.due /\ v.quiet = 0
  BY DEF StartUpload, Slots
<1>3. u.queue = << >> /\ u.tail = 0 /\ ~u.due
  BY DEF Window
<1>4. Len(<< >>) = 0 /\ Run(<< >>, 0)
  BY DEF Run
<1> HIDE DEF v
<1>5. Acked(v) = 0
  <2>1. v.tail = 0 /\ Len(v.queue) = 0
    BY <1>2, <1>3, <1>4
  <2>2. Acked(v) = 0 - 0
    BY <2>1 DEF Acked
  <2> QED
    BY <2>2
<1>6. Window(v)
  BY <1>2, <1>3, <1>4, <1>5 DEF Window
<1> QED
  BY <1>1, <1>2, <1>3, <1>5, <1>6 DEF v

\* abort_upload closes the slot and leaves an empty window behind.
LEMMA AbortUploadWindow ==
    ASSUME NEW u \in Slots
    PROVE  LET v == AbortUpload(u) IN
           v \in Slots /\ Window(v) /\ ~v.active /\ v.lastAck = u.lastAck /\ ~v.due
<1> DEFINE v == AbortUpload(u)
<1>1. v \in Slots
  BY SlotFields DEF AbortUpload, Slots
<1>2. ~v.active /\ v.queue = << >> /\ v.tail = 0 /\ v.lastAck = u.lastAck /\ ~v.due
  BY DEF AbortUpload, Slots
<1> QED
  BY <1>1, <1>2 DEF Window

\* receive_ack removes a prefix of the window: what is left is still a run of
\* packets that ends at the tail.
LEMMA ReceiveAckWindow ==
    ASSUME NEW u \in Slots, Window(u), u.active, NEW ack \in SeqNumbers
    PROVE  LET v == ReceiveAck(u, ack)
               k == AckedOfRun(u.queue, Acked(u), ack)
           IN  /\ v \in Slots /\ Window(v) /\ v.active
               /\ k \in 0 .. Len(u.queue) /\ AckedPrefix(u.queue, ack) = k
               /\ v.queue = Unacked(u, ack) /\ Len(v.queue) = Len(u.queue) - k
               /\ Acked(v) = Acked(u) + k
               /\ v.tail = u.tail /\ v.lastAck = ack /\ v.quiet = 0
               /\ ~u.due /\ u.lastAck # ack => ~v.due
<1> DEFINE v == ReceiveAck(u, ack)
           k == AckedOfRun(u.queue, Acked(u), ack)
           fast == DupCount(u, ack) >= DUP_ACKS
           dup == IF fast THEN 0 ELSE DupCount(u, ack)
           due == fast \/ (u.due /\ AckedPrefix(u.queue, ack) = 0)
<1>1. /\ Acked(u) \in Nat /\ Run(u.queue, Acked(u)) /\ u.size = Len(u.queue)
      /\ Len(u.queue) \in Nat /\ u.tail \in 0 .. N
  BY SlotTypes DEF Window
<1>2. /\ k \in 0 .. Len(u.queue)
      /\ AckedPrefix(u.queue, ack) = k
      /\ Unacked(u, ack) \in PacketQueues
      /\ Len(Unacked(u, ack)) = Len(u.queue) - k
      /\ Run(Unacked(u, ack), Acked(u) + k)
  <2>1. ack \in Nat /\ u.queue \in PacketQueues
    BY SlotTypes, SizesAssumption DEF SeqNumbers
  <2> QED
    BY <1>1, <2>1, UnackedOfRun
<1>3. dup \in DupCounts /\ due \in BOOLEAN
  <2>1. DupCount(u, ack) \in Nat
    BY SlotTypes DEF DupCount
  <2> QED
    BY <2>1 DEF DupCounts, DUP_ACKS
<1>4. v = [u EXCEPT !.queue = Unacked(u, ack), !.size = u.size - AckedPrefix(u.queue, ack),
                    !.lastAck = ack, !.dup = dup, !.due = due, !.quiet = 0]
  BY DEF ReceiveAck
<1>5. u.size - AckedPrefix(u.queue, ack) \in Nat
  BY <1>1, <1>2
<1>6. ~u.due /\ u.lastAck # ack => ~due
  BY DEF DupCount, DUP_ACKS
<1> HIDE DEF v, k, dup, due
<1>7. /\ v \in Slots
      /\ v.queue = Unacked(u, ack) /\ v.size = u.size - AckedPrefix(u.queue, ack)
      /\ v.lastAck = ack /\ v.tail = u.tail /\ v.active = u.active
      /\ v.quiet = 0 /\ v.due = due
  BY <1>2, <1>3, <1>4, <1>5, SlotFields DEF Slots
<1>8. Acked(v) = Acked(u) + k
  BY <1>1, <1>2, <1>7 DEF Acked
<1>9. Window(v)
  BY <1>1, <1>2, <1>7, <1>8 DEF Window
<1> QED
  BY <1>1, <1>2, <1>6, <1>7, <1>8, <1>9 DEF v, k

\* wait_ack on the packet after the tail extends the run by that packet.
LEMMA WaitAckWindow ==
    ASSUME NEW u \in Slots, Window(u), u.active, u.tail < N
    PROVE  LET v == WaitAck(u, u.tail + 1) IN
           /\ v \in Slots /\ Window(v) /\ v.active
           /\ v.queue # << >> /\ v.tail = u.tail + 1 /\ Acked(v) = Acked(u)
           /\ v.lastAck = u.lastAck /\ v.due = u.due /\ v.quiet = u.quiet
<1> DEFINE v == WaitAck(u, u.tail + 1)
           q == Append(u.queue, u.tail + 1)
<1>1. /\ Acked(u) \in Nat /\ Run(u.queue, Acked(u)) /\ u.size = Len(u.queue)
      /\ Len(u.queue) \in Nat /\ u.tail \in 0 .. N /\ u.queue \in Seq(Packets)
  BY SlotTypes DEF Window, PacketQueues
<1>2. u.tail + 1 \in Packets /\ u.tail + 1 \in SeqNumbers
  BY <1>1, SizesAssumption DEF Packets, SeqNumbers
<1>3. /\ q \in Seq(Packets) /\ q # << >> /\ Len(q) = Len(u.queue) + 1
      /\ \A i \in 1 .. Len(u.queue) : q[i] = u.queue[i]
      /\ q[Len(u.queue) + 1] = u.tail + 1
  BY <1>1, <1>2, AppendProperties
<1> HIDE DEF q
<1>4. /\ v \in Slots /\ v.queue = q /\ v.tail = u.tail + 1 /\ v.size = u.size + 1
      /\ v.active = u.active /\ v.lastAck = u.lastAck /\ v.due = u.due
      /\ v.quiet = u.quiet
  <2>1. v = [u EXCEPT !.queue = q, !.tail = u.tail + 1, !.size = u.size + 1]
    BY DEF WaitAck, q
  <2>2. q \in PacketQueues /\ u.size + 1 \in Nat
    BY <1>1, <1>3 DEF PacketQueues
  <2> HIDE DEF v
  <2> QED
    BY <1>2, <2>1, <2>2 DEF Slots
<1> HIDE DEF v
<1>5. Acked(v) = Acked(u)
  BY <1>1, <1>3, <1>4 DEF Acked
<1>6. Run(q, Acked(u))
  <2> SUFFICES ASSUME NEW i \in 1 .. Len(q)
               PROVE  q[i] = Acked(u) + i
    BY DEF Run
  <2>1. CASE i \in 1 .. Len(u.queue)
    BY <1>1, <1>3, <2>1 DEF Run
  <2>2. CASE i = Len(u.queue) + 1
    BY <1>1, <1>3, <2>2 DEF Acked
  <2> QED
    BY <1>1, <1>3, <2>1, <2>2
<1>7. Window(v)
  BY <1>1, <1>3, <1>4, <1>5, <1>6 DEF Window
<1> QED
  BY <1>3, <1>4, <1>5, <1>7 DEF v

\* A retransmission restamps the head and keeps the window as it is.
LEMMA RestampWindow ==
    ASSUME NEW u \in Slots, Window(u)
    PROVE  LET v == Restamp(u) IN
           /\ v \in Slots /\ Window(v) /\ v.active = u.active
           /\ v.queue = u.queue /\ v.tail = u.tail /\ Acked(v) = Acked(u)
           /\ v.lastAck = u.lastAck /\ ~v.due
           /\ v.quiet = IF u.due \/ u.quiet = ABORT_COEFF THEN u.quiet ELSE u.quiet + 1
<1> DEFINE v == Restamp(u)
           quiet == IF u.due \/ u.quiet = ABORT_COEFF THEN u.quiet ELSE u.quiet + 1
<1>1. quiet \in QuietRTOs
  BY SlotTypes DEF QuietRTOs, ABORT_COEFF
<1>2. v = [u EXCEPT !.due = FALSE, !.quiet = quiet]
  BY DEF Restamp
<1> HIDE DEF v, quiet
<1>3. /\ v \in Slots /\ v.queue = u.queue /\ v.tail = u.tail /\ v.lastAck = u.lastAck
      /\ ~v.due /\ v.active = u.active /\ v.size = u.size /\ v.quiet = quiet
  BY <1>1, <1>2 DEF Slots
<1>4. Acked(v) = Acked(u)
  BY <1>3 DEF Acked
<1>5. Window(v)
  BY <1>3, <1>4 DEF Window
<1> QED
  BY <1>3, <1>4, <1>5 DEF v, quiet

-------------------------------------------------------------------------------
(* The congestion window.                                                    *)

\* The congestion controller stays within its types.
LEMMA ControllerTypes ==
    /\ InitCwnd \in Controller
    /\ \A c \in Controller : WindowTimeout(c) \in Controller
    /\ \A c \in Controller, count \in Nat : WindowControl(c, count) \in Controller
<1>1. /\ 1 \in Windows
      /\ "slow_start" \in Policies /\ "congestion_avoidance" \in Policies
      /\ \A w \in Windows : w + 1 \in Windows
      /\ \A w \in Windows, k \in Nat : w + k \in Windows
      /\ \A v, w \in Windows : Larger(v, w) \in Windows
  BY DEF Windows, Policies, Larger
<1>2. InitCwnd \in Controller
  BY <1>1 DEF InitCwnd, Controller, INITIAL_WINDOW
<1>3. \A c \in Controller : WindowTimeout(c) \in Controller
  BY <1>1 DEF WindowTimeout, Controller, INITIAL_WINDOW
<1>4. ASSUME NEW c \in Controller, NEW count \in Nat
      PROVE  WindowControl(c, count) \in Controller
  <2>1. c.cwnd \in Windows /\ c.max \in Windows /\ c.acks \in Nat
    BY DEF Controller
  <2>2. LinearGrowth(c, count) \in Controller
    <3>1. CASE c.acks + count >= c.cwnd
      <4>1. c.acks + count - c.cwnd \in Nat
        BY <2>1, <3>1 DEF Windows
      <4> QED
        BY <1>1, <2>1, <3>1, <4>1 DEF LinearGrowth, Controller
    <3>2. CASE ~(c.acks + count >= c.cwnd)
      <4>1. c.acks + count \in Nat
        BY <2>1
      <4> QED
        BY <2>1, <3>2, <4>1 DEF LinearGrowth, Controller
    <3> QED
      BY <3>1, <3>2
  <2>3. [c EXCEPT !.cwnd = c.cwnd + count] \in Controller
    BY <1>1, <2>1 DEF Controller
  <2>4. [c EXCEPT !.cwnd = c.cwnd + count, !.max = Larger(c.cwnd + count, c.max)] \in Controller
    <3>1. c.cwnd + count \in Windows /\ Larger(c.cwnd + count, c.max) \in Windows
      BY <1>1, <2>1
    <3> QED
      BY <3>1 DEF Controller
  <2> QED
    BY <2>2, <2>3, <2>4 DEF WindowControl
<1> QED
  BY <1>2, <1>3, <1>4
================================================================================
