---------------------------- MODULE TransferProofs ----------------------------
(***************************************************************************)
(* Theorems about Transfer, for every chunk size, queue capacity and       *)
(* number of mishaps of the network.  SafeInv is inductive whatever the    *)
(* network does; OrderInv is inductive, given SafeInv, when links keep the *)
(* order of packets.                                                       *)
(***************************************************************************)
EXTENDS Transfer, StreamProofs

\* What a channel holds after a packet has been sent on it.
LEMMA SentChannel ==
    ASSUME NEW S, NEW before \in Seq(S), NEW after, NEW p \in S, NEW kind,
           mishaps \in 0 .. MaxMishaps, Sent(kind, before, after, p)
    PROVE  /\ mishaps' \in 0 .. MaxMishaps
           /\ after \in Seq(S) /\ Len(after) \in Nat /\ Len(before) \in Nat
           /\ Len(after) <= Len(before) + 1
           /\ \A i \in 1 .. Len(after) : \/ i <= Len(before) /\ after[i] = before[i]
                                         \/ i = Len(before) + 1 /\ after[i] = p
<1>1. Len(before) \in Nat
  BY LenProperties
<1>2. mishaps' \in 0 .. MaxMishaps
  BY NetworkAssumption DEF Sent, Mishap
<1>3. CASE after = before
  BY <1>1, <1>2, <1>3
<1>4. CASE after = Append(before, p)
  <2>1. /\ after \in Seq(S) /\ Len(after) = Len(before) + 1
        /\ \A i \in 1 .. Len(before) : after[i] = before[i]
        /\ after[Len(before) + 1] = p
    BY <1>4, AppendProperties
  <2> QED
    BY <1>1, <1>2, <2>1
<1> QED
  BY <1>3, <1>4 DEF Sent

\* Moving a packet changes neither the length of a channel nor what it holds.
LEMMA MovedChannel ==
    ASSUME NEW S, NEW before \in Seq(S),
           NEW i \in 1 .. Len(before), NEW j \in 1 .. Len(before)
    PROVE  /\ Moved(before, i, j) \in Seq(S)
           /\ Len(Moved(before, i, j)) = Len(before)
           /\ \A k \in 1 .. Len(before) :
                \E m \in 1 .. Len(before) : Moved(before, i, j)[k] = before[m]
<1> DEFINE after == Moved(before, i, j)
<1>1. Len(before) \in Nat /\ \A m \in 1 .. Len(before) : before[m] \in S
  BY LenProperties, ElementOfSeq
<1>2. /\ DOMAIN after = 1 .. Len(before)
      /\ \A k \in 1 .. Len(before) :
           after[k] = CASE k = j -> before[i]
                        [] i <= k /\ k < j -> before[k + 1]
                        [] j < k /\ k <= i -> before[k - 1]
                        [] OTHER -> before[k]
      /\ after = [k \in 1 .. Len(before) |-> after[k]]
  BY DEF Moved
<1> HIDE DEF after
<1>3. ASSUME NEW k \in 1 .. Len(before)
      PROVE  \E m \in 1 .. Len(before) : after[k] = before[m]
  <2>1. CASE k = j
    BY <1>2, <2>1
  <2>2. CASE k # j /\ i <= k /\ k < j
    <3>1. k + 1 \in 1 .. Len(before) /\ after[k] = before[k + 1]
      BY <1>1, <1>2, <2>2
    <3> QED
      BY <3>1
  <2>3. CASE k # j /\ j < k /\ k <= i
    <3>1. k - 1 \in 1 .. Len(before) /\ after[k] = before[k - 1]
      BY <1>1, <1>2, <2>3
    <3> QED
      BY <3>1
  <2>4. CASE k # j /\ ~(i <= k /\ k < j) /\ ~(j < k /\ k <= i)
    BY <1>2, <2>4
  <2> QED
    BY <2>1, <2>2, <2>3, <2>4
<1>4. after \in Seq(S) /\ Len(after) = Len(before)
  <2>1. \A k \in 1 .. Len(before) : after[k] \in S
    BY <1>1, <1>3
  <2> QED
    BY <1>1, <1>2, <2>1, IsASeq
<1> QED
  BY <1>3, <1>4 DEF after

-------------------------------------------------------------------------------
(* The inductive invariants.                                                 *)

\* The invariant holds when both peers start.
LEMMA SafeInit == Init => SafeInv
<1> SUFFICES ASSUME Init
             PROVE  SafeInv
  OBVIOUS
<1> USE DEF Init
<1>1. /\ up \in Slots /\ Window(up) /\ ~up.active /\ up.lastAck = 0
  BY FreeSlotWindow DEF FreeSlot
<1>2. down \in Streams /\ Buffer(down) /\ down.last = 0
  BY StartDownloadBuffer DEF StartDownload
<1>3. /\ data \in PacketQueues /\ acks \in Seq(SeqNumbers)
      /\ Len(data) = 0 /\ Len(acks) = 0
  BY DEF PacketQueues
<1>4. TypeOK
  BY <1>1, <1>2, <1>3, ControllerTypes, NetworkAssumption DEF TypeOK
<1>5. Unopened /\ InTransit /\ AckedWasReceived /\ Unfinished /\ NeverIdle
  BY <1>1, <1>2, <1>3 DEF Unopened, InTransit, AckedWasReceived, Unfinished, NeverIdle
<1> QED
  BY <1>1, <1>2, <1>4, <1>5 DEF SafeInv, WindowIsARun

\* What SafeInv says of the variables, with the type sets opened.
LEMMA SafeFacts ==
    ASSUME SafeInv
    PROVE  /\ up \in Slots /\ Window(up) /\ cc \in Controller
           /\ down \in Streams /\ Buffer(down) /\ down.last \in 0 .. N
           /\ data \in Seq(Packets) /\ acks \in Seq(SeqNumbers)
           /\ Len(data) \in Nat /\ Len(acks) \in Nat /\ Len(up.queue) \in Nat
           /\ up.tail \in 0 .. N /\ up.lastAck \in 0 .. N
           /\ up.active => Acked(up) \in Nat
           /\ mishaps \in 0 .. MaxMishaps
           /\ get \in {"sent", "lost", "accepted"}
           /\ pc \in {"poll", "send", "clean", "exited"}
           /\ fault \in {"none", "null_head", "error_exit"}
           /\ \A i \in 1 .. Len(acks) : acks[i] \in 0 .. N
           /\ \A i \in 1 .. Len(data) : data[i] \in 1 .. N
<1>1. /\ up \in Slots /\ cc \in Controller /\ down \in Streams
      /\ data \in Seq(Packets) /\ acks \in Seq(SeqNumbers)
      /\ mishaps \in 0 .. MaxMishaps
      /\ get \in {"sent", "lost", "accepted"}
      /\ pc \in {"poll", "send", "clean", "exited"}
      /\ fault \in {"none", "null_head", "error_exit"}
  BY DEF SafeInv, TypeOK, PacketQueues
<1>2. Window(up) /\ Buffer(down)
  BY DEF SafeInv, WindowIsARun
<1>3. down.last \in 0 .. N
  BY <1>1 DEF Streams, SeqNumbers
<1>4. Len(data) \in Nat /\ Len(acks) \in Nat
  BY <1>1, LenProperties
<1>5. /\ \A i \in 1 .. Len(acks) : acks[i] \in 0 .. N
      /\ \A i \in 1 .. Len(data) : data[i] \in 1 .. N
  <2>1. /\ \A i \in 1 .. Len(acks) : acks[i] \in SeqNumbers
        /\ \A i \in 1 .. Len(data) : data[i] \in Packets
    BY <1>1, ElementOfSeq
  <2> QED
    BY <2>1 DEF SeqNumbers, Packets
<1>6. /\ Len(up.queue) \in Nat /\ up.tail \in 0 .. N /\ up.lastAck \in 0 .. N
  BY <1>1, SlotTypes
<1>7. up.active => Acked(up) \in Nat
  BY <1>2 DEF Window
<1> QED
  BY <1>1, <1>2, <1>3, <1>4, <1>5, <1>6, <1>7

\* The GET handler opens an empty window over an empty network.
LEMMA SafeReceiveGet == SafeInv /\ ReceiveGet => SafeInv'
<1> SUFFICES ASSUME SafeInv, ReceiveGet
             PROVE  SafeInv'
  OBVIOUS
<1>1. /\ pc' = "send" /\ get' = "accepted" /\ up' = StartUpload(up) /\ cc' = InitCwnd
      /\ UNCHANGED <<down, data, acks, mishaps, fault>> /\ get = "sent"
  BY DEF ReceiveGet
<1>2. /\ ~up.active /\ down.last = 0 /\ data = << >> /\ acks = << >>
  BY <1>1 DEF SafeInv, Unopened
<1>3. /\ up' \in Slots /\ Window(up') /\ up'.active
      /\ up'.queue = << >> /\ up'.tail = 0 /\ up'.lastAck = 0
  BY <1>1, <1>2, SafeFacts, StartUploadWindow
<1>4. Acked(up') = 0
  BY <1>1, <1>2, SafeFacts, StartUploadWindow
<1>5. TypeOK'
  BY <1>1, <1>3, SafeFacts, ControllerTypes DEF TypeOK, PacketQueues
<1>6. Buffer(down') /\ Unopened' /\ NeverIdle'
  BY <1>1, SafeFacts DEF Unopened, NeverIdle
<1>7. InTransit' /\ AckedWasReceived' /\ Unfinished'
  BY <1>1, <1>2, <1>3, <1>4, SizesAssumption DEF InTransit, AckedWasReceived, Unfinished
<1> QED
  BY <1>3, <1>5, <1>6, <1>7 DEF SafeInv, WindowIsARun

\* Actions that take an ACK off the channel without touching the slot.
LEMMA SafeDropAck ==
    ASSUME SafeInv, acks # << >>, acks' = Tail(acks), up' = up, cc' = cc, down' = down,
           get' = get, data' = data, mishaps' = mishaps,
           pc = "poll", pc' \in {"send", "exited"},
           fault' \in {"none", "null_head", "error_exit"}
    PROVE  SafeInv'
<1>1. /\ acks' \in Seq(SeqNumbers) /\ Len(acks') = Len(acks) - 1 /\ Len(acks) \in Nat \ {0}
      /\ \A i \in 1 .. Len(acks') : i + 1 \in 1 .. Len(acks) /\ acks'[i] = acks[i + 1]
  BY SafeFacts, ReceivedChannel
<1>2. TypeOK' /\ WindowIsARun' /\ Buffer(down')
  BY <1>1, SafeFacts DEF TypeOK, PacketQueues, WindowIsARun
<1>3. Unopened' /\ AckedWasReceived' /\ Unfinished' /\ NeverIdle'
  BY DEF SafeInv, Unopened, AckedWasReceived, Unfinished, NeverIdle
<1>4. InTransit'
  BY <1>1 DEF SafeInv, InTransit
<1> QED
  BY <1>2, <1>3, <1>4 DEF SafeInv

\* The ACK handler: the window advances to a packet the receiver has.
LEMMA SafeReceiveAck == SafeInv /\ ReceiveAckPacket => SafeInv'
<1> SUFFICES ASSUME SafeInv, ReceiveAckPacket
             PROVE  SafeInv'
  OBVIOUS
<1> DEFINE ack == Head(acks)
           r == ReceiveAck(up, ack)
           k == AckedOfRun(up.queue, Acked(up), ack)
<1>1. /\ up.active /\ acks # << >> /\ acks' = Tail(acks) /\ pc' = "send"
      /\ up' = AckedSlot(up, ack) /\ cc' = WindowControl(cc, AckedPrefix(up.queue, ack))
      /\ UNCHANGED <<down, get, data, mishaps, fault>>
  BY DEF ReceiveAckPacket
<1>2. /\ acks' \in Seq(SeqNumbers) /\ Len(acks') = Len(acks) - 1 /\ Len(acks) \in Nat \ {0}
      /\ \A i \in 1 .. Len(acks') : i + 1 \in 1 .. Len(acks) /\ acks'[i] = acks[i + 1]
      /\ ack \in SeqNumbers /\ ack = acks[1]
  BY <1>1, SafeFacts, ReceivedChannel
<1>3. ack \in 0 .. N /\ ack <= down.last
  BY <1>2 DEF SafeInv, InTransit, SeqNumbers
<1>4. /\ r \in Slots /\ Window(r) /\ r.active
      /\ k \in 0 .. Len(up.queue) /\ AckedPrefix(up.queue, ack) = k
      /\ Acked(r) = Acked(up) + k /\ r.tail = up.tail /\ r.lastAck = ack
  BY <1>1, <1>2, SafeFacts, ReceiveAckWindow
<1>5. /\ Acked(up) \in Nat /\ Acked(up) <= down.last /\ down.last <= up.tail /\ Acked(up) < N
      /\ get = "accepted"
  BY <1>1, SafeFacts DEF SafeInv, AckedWasReceived, Unfinished, Unopened
<1>6. Acked(r) = IF ack <= Acked(up) THEN Acked(up) ELSE ack
  <2>1. ack <= Acked(up) + Len(up.queue)
    BY <1>3, <1>5, SafeFacts DEF Acked
  <2> QED
    BY <1>3, <1>4, <1>5, <2>1, SafeFacts DEF AckedOfRun
<1>7. /\ up' \in Slots /\ Window(up') /\ up'.lastAck = ack
      /\ ack # N => up' = r
      /\ ack = N => ~up'.active
  <2> HIDE DEF r, ack, k
  <2> QED
    BY <1>1, <1>4, AbortUploadWindow DEF AckedSlot, r
<1> HIDE DEF r, ack
<1>8. TypeOK' /\ WindowIsARun' /\ Buffer(down')
  <2>1. k \in Nat
    BY <1>4, SafeFacts
  <2>2. cc' \in Controller
    BY <1>1, <1>4, <2>1, SafeFacts, ControllerTypes
  <2> QED
    BY <1>1, <1>2, <1>7, <2>2, SafeFacts DEF TypeOK, PacketQueues, WindowIsARun
<1>9. Unopened' /\ NeverIdle'
  BY <1>1, <1>5 DEF Unopened, NeverIdle
<1>10. InTransit' /\ AckedWasReceived' /\ Unfinished'
  <2>1. InTransit'
    BY <1>1, <1>2, <1>4, <1>7 DEF SafeInv, InTransit
  <2>2. AckedWasReceived'
    BY <1>1, <1>3, <1>4, <1>5, <1>6, <1>7 DEF AckedWasReceived
  <2>3. Unfinished'
    <3>1. CASE ack = N
      BY <1>7, <3>1 DEF Unfinished
    <3>2. CASE ack # N
      <4>1. up' = r /\ ack < N
        BY <1>3, <1>7, <3>2, SizesAssumption
      <4>2. Acked(up') < N
        BY <1>5, <1>6, <4>1
      <4> QED
        BY <4>2 DEF Unfinished
    <3> QED
      BY <3>1, <3>2
  <2> QED
    BY <2>1, <2>2, <2>3
<1> QED
  BY <1>8, <1>9, <1>10 DEF SafeInv

\* An ACK that finds no slot, or that ends the process, keeps the invariant.
LEMMA SafeIgnoreAck == SafeInv /\ (IgnoreAck \/ DieOnAck) => SafeInv'
<1> SUFFICES ASSUME SafeInv, IgnoreAck \/ DieOnAck
             PROVE  SafeInv'
  OBVIOUS
<1>1. /\ acks # << >> /\ acks' = Tail(acks) /\ up' = up /\ cc' = cc /\ down' = down
      /\ get' = get /\ data' = data /\ mishaps' = mishaps
      /\ pc = "poll" /\ pc' \in {"send", "exited"}
      /\ fault' \in {"none", "null_head", "error_exit"}
  <2>1. CASE IgnoreAck
    BY <2>1, SafeFacts DEF IgnoreAck
  <2>2. CASE DieOnAck
    BY <2>2 DEF DieOnAck
  <2> QED
    BY <2>1, <2>2
<1> QED
  BY <1>1, SafeDropAck

\* Steps of the loop that send nothing and leave the slot as it is.
LEMMA SafeLoop ==
    ASSUME SafeInv, PollNothing \/ SendNothing \/ KeepUpload
    PROVE  SafeInv'
<1>1. /\ UNCHANGED <<up, cc, down, get, data, acks, mishaps, fault>>
      /\ pc' \in {"poll", "send", "clean"}
  BY DEF PollNothing, SendNothing, KeepUpload
<1>2. TypeOK' /\ WindowIsARun' /\ Buffer(down')
  BY <1>1, SafeFacts DEF TypeOK, PacketQueues, WindowIsARun
<1>3. Unopened' /\ AckedWasReceived' /\ Unfinished' /\ InTransit'
  BY <1>1 DEF SafeInv, Unopened, AckedWasReceived, Unfinished, InTransit
<1>4. NeverIdle'
  <2>1. CASE PollNothing
    BY <2>1 DEF PollNothing, NeverIdle
  <2>2. CASE KeepUpload
    BY <1>1, <2>2 DEF KeepUpload, NeverIdle, SafeInv
  <2>3. CASE SendNothing
    <3> SUFFICES ASSUME up.active, up.queue = << >>
                 PROVE  FALSE
      BY <1>1 DEF NeverIdle
    <3>1. Len(up.queue) = 0
      OBVIOUS
    <3>2. up.size = 0 /\ Acked(up) = up.tail
      <4>1. up.size = Len(up.queue)
        BY SafeFacts DEF Window
      <4> QED
        BY <3>1, <4>1, SafeFacts DEF Acked
    <3>3. up.tail < N
      BY <3>2 DEF SafeInv, Unfinished
    <3>4. cc.cwnd \in Nat \ {0}
      BY SafeFacts DEF Controller, Windows
    <3> QED
      BY <2>3, <3>2, <3>3, <3>4 DEF SendNothing, RoomToSend
  <2> QED
    BY <2>1, <2>2, <2>3
<1> QED
  BY <1>2, <1>3, <1>4 DEF SafeInv

\* Resending the head: it has been sent before.
LEMMA SafeRetransmit == SafeInv /\ Retransmit => SafeInv'
<1> SUFFICES ASSUME SafeInv, Retransmit
             PROVE  SafeInv'
  OBVIOUS
<1> DEFINE p == Head(up.queue)
<1>1. /\ up.active /\ up.queue # << >> /\ Sent("data", data, data', p)
      /\ up' = Restamp(up) /\ cc' = WindowTimeout(cc) /\ pc' = "clean"
      /\ UNCHANGED <<down, get, acks, fault>>
  BY DEF Retransmit, HeadExpires
<1>2. /\ up' \in Slots /\ Window(up') /\ up'.active
      /\ up'.queue = up.queue /\ up'.tail = up.tail /\ up'.lastAck = up.lastAck
      /\ Acked(up') = Acked(up)
  BY <1>1, SafeFacts, RestampWindow
<1>3. p \in Packets /\ p \in Nat /\ p <= up.tail
  <2>1. /\ p = up.queue[1] /\ Len(up.queue) \in Nat \ {0} /\ p \in Packets
    <3>1. up.queue \in Seq(Packets)
      BY SafeFacts, SlotTypes DEF PacketQueues
    <3> QED
      BY <1>1, <3>1, ReceivedChannel
  <2>2. p = Acked(up) + 1
    BY <1>1, <2>1, SafeFacts DEF Window, Run
  <2>3. p <= up.tail
    <3> HIDE DEF p
    <3> QED
      BY <1>1, <2>1, <2>2, SafeFacts DEF Acked
  <2> QED
    BY <1>1, <2>1, <2>2, <2>3, SafeFacts
<1> HIDE DEF p
<1>4. /\ mishaps' \in 0 .. MaxMishaps /\ data' \in Seq(Packets) /\ Len(data') \in Nat
      /\ \A i \in 1 .. Len(data') : \/ i \in 1 .. Len(data) /\ data'[i] = data[i]
                                    \/ data'[i] = p
  <2>1. data \in Seq(Packets) /\ mishaps \in 0 .. MaxMishaps
    BY SafeFacts
  <2> QED
    BY <1>1, <1>3, <2>1, SentChannel
<1>5. get = "accepted"
  BY <1>1, SafeFacts DEF SafeInv, Unopened
<1>6. TypeOK' /\ WindowIsARun' /\ Buffer(down')
  <2>1. cc' \in Controller
    BY <1>1, SafeFacts, ControllerTypes
  <2> QED
    BY <1>1, <1>2, <1>4, <2>1, SafeFacts DEF TypeOK, PacketQueues, WindowIsARun
<1>7. Unopened' /\ AckedWasReceived' /\ Unfinished' /\ NeverIdle'
  BY <1>1, <1>2, <1>5 DEF SafeInv, Unopened, AckedWasReceived, Unfinished, NeverIdle
<1>8. InTransit'
  BY <1>1, <1>2, <1>3, <1>4 DEF SafeInv, InTransit
<1> QED
  BY <1>6, <1>7, <1>8 DEF SafeInv

\* A new packet joins both the queue and the network.
LEMMA SafeSendNew == SafeInv /\ SendNew => SafeInv'
<1> SUFFICES ASSUME SafeInv, SendNew
             PROVE  SafeInv'
  OBVIOUS
<1> DEFINE p == up.tail + 1
<1>1. /\ up.active /\ up.tail < N /\ Sent("data", data, data', p)
      /\ up' = WaitAck(up, p) /\ pc' = "clean"
      /\ UNCHANGED <<cc, down, get, acks, fault>>
  BY DEF SendNew, RoomToSend
<1>2. /\ up' \in Slots /\ Window(up') /\ up'.active /\ up'.queue # << >>
      /\ up'.tail = p /\ Acked(up') = Acked(up) /\ up'.lastAck = up.lastAck
  BY <1>1, SafeFacts, WaitAckWindow
<1>3. p \in Packets /\ up.tail \in Nat
  BY <1>1, SafeFacts, SizesAssumption DEF Packets
<1> HIDE DEF p
<1>4. /\ mishaps' \in 0 .. MaxMishaps /\ data' \in Seq(Packets) /\ Len(data') \in Nat
      /\ \A i \in 1 .. Len(data') : \/ i \in 1 .. Len(data) /\ data'[i] = data[i]
                                    \/ data'[i] = p
  <2>1. data \in Seq(Packets) /\ mishaps \in 0 .. MaxMishaps
    BY SafeFacts
  <2> QED
    BY <1>1, <1>3, <2>1, SentChannel
<1>5. get = "accepted" /\ down.last <= up.tail /\ up.tail <= p
  <2>1. get = "accepted" /\ down.last <= up.tail
    BY <1>1, SafeFacts DEF SafeInv, Unopened, AckedWasReceived
  <2> QED
    BY <1>3, <2>1 DEF p
<1>6. TypeOK' /\ WindowIsARun' /\ Buffer(down')
  BY <1>1, <1>2, <1>4, SafeFacts DEF TypeOK, PacketQueues, WindowIsARun
<1>7. Unopened' /\ Unfinished' /\ NeverIdle'
  BY <1>1, <1>2, <1>5 DEF SafeInv, Unopened, Unfinished, NeverIdle
<1>8. AckedWasReceived'
  <2>1. down.last <= p
    BY <1>3, <1>5, SafeFacts DEF p
  <2> QED
    BY <1>1, <1>2, <2>1 DEF SafeInv, AckedWasReceived
<1>9. InTransit'
  <2>1. ASSUME NEW i \in 1 .. Len(data')
        PROVE  data'[i] <= p
    <3>1. CASE data'[i] = p
      BY <1>3, <3>1 DEF Packets
    <3>2. CASE i \in 1 .. Len(data) /\ data'[i] = data[i]
      <4>1. data[i] <= up.tail /\ data[i] \in Nat
        BY <1>1, <3>2, SafeFacts DEF SafeInv, InTransit
      <4> QED
        BY <1>3, <3>2, <4>1 DEF p
    <3> QED
      BY <1>4, <3>1, <3>2
  <2> QED
    BY <1>1, <1>2, <2>1 DEF SafeInv, InTransit
<1> QED
  BY <1>6, <1>7, <1>8, <1>9 DEF SafeInv

\* clean_upload_timeout keeps the invariant: the window is emptied with the slot.
LEMMA SafeUploadTimeout == SafeInv /\ UploadTimeout => SafeInv'
<1> SUFFICES ASSUME SafeInv, UploadTimeout
             PROVE  SafeInv'
  OBVIOUS
<1>1. /\ up.active /\ up' = AbortUpload(up) /\ pc' = "poll"
      /\ UNCHANGED <<cc, down, get, data, acks, mishaps, fault>>
  BY DEF UploadTimeout
<1>2. /\ up' \in Slots /\ Window(up') /\ ~up'.active /\ up'.lastAck = up.lastAck
  BY <1>1, SafeFacts, AbortUploadWindow
<1>3. TypeOK' /\ WindowIsARun' /\ Buffer(down')
  BY <1>1, <1>2, SafeFacts DEF TypeOK, PacketQueues, WindowIsARun
<1>4. /\ Unopened' /\ AckedWasReceived' /\ Unfinished' /\ NeverIdle' /\ InTransit'
  BY <1>1, <1>2 DEF SafeInv, Unopened, AckedWasReceived, Unfinished, NeverIdle, InTransit
<1> QED
  BY <1>3, <1>4 DEF SafeInv

\* DATA that finds no download stream keeps the invariant.
LEMMA SafeIgnoreData == SafeInv /\ IgnoreData => SafeInv'
<1> SUFFICES ASSUME SafeInv, IgnoreData
             PROVE  SafeInv'
  OBVIOUS
<1>1. /\ data # << >> /\ data' = Tail(data)
      /\ UNCHANGED <<up, cc, down, get, acks, mishaps, pc, fault>>
  BY DEF IgnoreData
<1>2. /\ data' \in Seq(Packets)
      /\ \A i \in 1 .. Len(data') : i + 1 \in 1 .. Len(data) /\ data'[i] = data[i + 1]
  BY <1>1, SafeFacts, ReceivedChannel
<1>3. TypeOK' /\ WindowIsARun' /\ Buffer(down')
  BY <1>1, <1>2, SafeFacts DEF TypeOK, PacketQueues, WindowIsARun
<1>4. /\ Unopened' /\ AckedWasReceived' /\ Unfinished' /\ NeverIdle'
  BY <1>1 DEF SafeInv, Unopened, AckedWasReceived, Unfinished, NeverIdle
<1>5. InTransit'
  BY <1>1, <1>2 DEF SafeInv, InTransit
<1> QED
  BY <1>3, <1>4, <1>5 DEF SafeInv

\* The DATA handler: what it acknowledges it has just received, and a chunk it
\* fills verifies, so that no new GET is sent.
LEMMA SafeReceiveData == SafeInv /\ ReceiveData => SafeInv' /\ get' = get
<1> SUFFICES ASSUME SafeInv, ReceiveData
             PROVE  SafeInv' /\ get' = get
  OBVIOUS
<1> DEFINE seq == Head(data)
           next == DataStream(down, seq)
           last == TrackDataPacket(down, seq).last
<1>1. /\ data # << >> /\ down.stream /\ data' = Tail(data)
      /\ Sent("ack", acks, acks', last)
      /\ down' = IF next.chunk = "NOT_STARTED" THEN StartDownload ELSE next
      /\ get'  = IF next.chunk = "NOT_STARTED" THEN "sent" ELSE get
      /\ UNCHANGED <<up, cc, pc, fault>>
  BY DEF ReceiveData
<1>2. /\ seq \in Packets /\ seq = data[1] /\ Len(data) \in Nat \ {0}
      /\ data' \in Seq(Packets)
      /\ \A i \in 1 .. Len(data') : i + 1 \in 1 .. Len(data) /\ data'[i] = data[i + 1]
  BY <1>1, SafeFacts, ReceivedChannel
<1>3. /\ next \in Streams /\ Buffer(next) /\ next.chunk # "NOT_STARTED" /\ next.last = last
      /\ last = IF seq = down.last + 1 THEN seq ELSE down.last
  BY <1>1, <1>2, SafeFacts, DataStreamBuffer
<1> HIDE DEF seq, next, last
<1>4. /\ down' = next /\ get' = get
  BY <1>1, <1>3
<1>5. /\ last \in SeqNumbers /\ last \in 0 .. N /\ down.last <= last
      /\ last = down.last \/ last = seq
  <2>1. down.last \in 0 .. N
    BY SafeFacts
  <2>2. seq \in 1 .. N /\ N \in Nat
    BY <1>2, SizesAssumption DEF Packets
  <2> QED
    BY <1>3, <2>1, <2>2 DEF SeqNumbers
<1>6. /\ mishaps' \in 0 .. MaxMishaps /\ acks' \in Seq(SeqNumbers) /\ Len(acks') \in Nat
      /\ \A i \in 1 .. Len(acks') : \/ i \in 1 .. Len(acks) /\ acks'[i] = acks[i]
                                    \/ acks'[i] = last
  <2>1. acks \in Seq(SeqNumbers) /\ mishaps \in 0 .. MaxMishaps
    BY SafeFacts
  <2> QED
    BY <1>1, <1>5, <2>1, SentChannel
<1>7. TypeOK' /\ WindowIsARun' /\ Buffer(down')
  BY <1>1, <1>2, <1>3, <1>4, <1>6, SafeFacts DEF TypeOK, PacketQueues, WindowIsARun
<1>8. get = "accepted" /\ Unopened' /\ Unfinished' /\ NeverIdle'
  <2>1. get = "accepted"
    BY <1>1, SafeFacts DEF SafeInv, Unopened
  <2> QED
    BY <1>1, <1>4, <2>1 DEF SafeInv, Unopened, Unfinished, NeverIdle
<1>9. AckedWasReceived'
  <2>1. up.active => last <= up.tail
    <3> SUFFICES ASSUME up.active PROVE last <= up.tail
      OBVIOUS
    <3>1. seq <= up.tail /\ down.last <= up.tail
      BY <1>2 DEF SafeInv, InTransit, AckedWasReceived
    <3> QED
      BY <1>5, <3>1
  <2>2. up.lastAck <= last
    BY <1>5, SafeFacts DEF SafeInv, AckedWasReceived
  <2>3. up.active => Acked(up) <= last
    BY <1>5, SafeFacts DEF SafeInv, AckedWasReceived
  <2> QED
    BY <1>1, <1>3, <1>4, <2>1, <2>2, <2>3 DEF AckedWasReceived
<1>10. InTransit'
  <2>1. ASSUME NEW i \in 1 .. Len(acks')
        PROVE  acks'[i] <= last
    <3>1. CASE acks'[i] = last
      BY <1>5, <3>1
    <3>2. CASE i \in 1 .. Len(acks) /\ acks'[i] = acks[i]
      <4>1. acks[i] <= down.last /\ acks[i] \in Nat
        BY <3>2, SafeFacts DEF SafeInv, InTransit
      <4> QED
        BY <1>5, <3>2, <4>1, SafeFacts
    <3> QED
      BY <1>6, <3>1, <3>2
  <2>2. up.active => \A i \in 1 .. Len(data') : data'[i] <= up.tail
    BY <1>2 DEF SafeInv, InTransit
  <2> QED
    BY <1>1, <1>3, <1>4, <2>1, <2>2 DEF InTransit
<1> QED
  BY <1>4, <1>7, <1>8, <1>9, <1>10 DEF SafeInv

\* clean_download_timeout keeps the invariant: the buffer is emptied.
LEMMA SafeDownloadTimeout == SafeInv /\ DownloadTimeout => SafeInv'
<1> SUFFICES ASSUME SafeInv, DownloadTimeout
             PROVE  SafeInv'
  OBVIOUS
<1>1. /\ down' = CrashDownload(down)
      /\ UNCHANGED <<up, cc, get, data, acks, mishaps, pc, fault>>
  BY DEF DownloadTimeout
<1>2. /\ down' \in Streams /\ Buffer(down') /\ down'.last = down.last
  BY <1>1, SafeFacts, CrashDownloadBuffer
<1>3. TypeOK' /\ WindowIsARun'
  BY <1>1, <1>2, SafeFacts DEF TypeOK, PacketQueues, WindowIsARun
<1>4. /\ Unopened' /\ AckedWasReceived' /\ Unfinished' /\ NeverIdle' /\ InTransit'
  BY <1>1, <1>2 DEF SafeInv, Unopened, AckedWasReceived, Unfinished, NeverIdle, InTransit
<1> QED
  BY <1>2, <1>3, <1>4 DEF SafeInv

\* The network's own steps lose the GET or change the order of packets.
LEMMA SafeNetwork == SafeInv /\ Network => SafeInv'
<1> SUFFICES ASSUME SafeInv, Network
             PROVE  SafeInv'
  OBVIOUS
<1>1. mishaps' \in 0 .. MaxMishaps /\ UNCHANGED <<up, cc, down, pc, fault>>
  BY SafeFacts, NetworkAssumption DEF Network, LoseGet, ReorderData, ReorderAcks, Mishap
<1>2. CASE LoseGet
  <2>1. get = "sent" /\ get' = "lost" /\ data' = data /\ acks' = acks
    BY <1>2 DEF LoseGet
  <2> QED
    BY <1>1, <2>1, SafeFacts
    DEF SafeInv, TypeOK, PacketQueues, WindowIsARun, Unopened, InTransit,
        AckedWasReceived, Unfinished, NeverIdle
<1>3. CASE ReorderData
  <2>1. PICK i, j \in 1 .. Len(data) : data' = Moved(data, i, j)
    BY <1>3 DEF ReorderData
  <2>2. get' = get /\ acks' = acks
    BY <1>3 DEF ReorderData
  <2>3. /\ data' \in Seq(Packets) /\ Len(data') = Len(data)
        /\ \A k \in 1 .. Len(data) : \E m \in 1 .. Len(data) : data'[k] = data[m]
    <3> DEFINE after == Moved(data, i, j)
    <3>1. data \in Seq(Packets)
      BY SafeFacts
    <3>2. /\ after \in Seq(Packets) /\ Len(after) = Len(data)
          /\ \A k \in 1 .. Len(data) : \E m \in 1 .. Len(data) : after[k] = data[m]
      BY <3>1, MovedChannel
    <3> HIDE DEF after
    <3> QED
      BY <2>1, <3>2 DEF after
  <2>4. data = << >> => FALSE
    BY <2>1
  <2>5. InTransit' /\ Unopened'
    BY <1>1, <2>2, <2>3, <2>4 DEF SafeInv, InTransit, Unopened
  <2>6. TypeOK'
    BY <1>1, <2>2, <2>3, SafeFacts DEF TypeOK, PacketQueues
  <2> QED
    BY <1>1, <2>5, <2>6 DEF SafeInv, WindowIsARun, AckedWasReceived, Unfinished, NeverIdle
<1>4. CASE ReorderAcks
  <2>1. PICK i, j \in 1 .. Len(acks) : acks' = Moved(acks, i, j)
    BY <1>4 DEF ReorderAcks
  <2>2. get' = get /\ data' = data
    BY <1>4 DEF ReorderAcks
  <2>3. /\ acks' \in Seq(SeqNumbers) /\ Len(acks') = Len(acks)
        /\ \A k \in 1 .. Len(acks) : \E m \in 1 .. Len(acks) : acks'[k] = acks[m]
    <3> DEFINE after == Moved(acks, i, j)
    <3>1. acks \in Seq(SeqNumbers)
      BY SafeFacts
    <3>2. /\ after \in Seq(SeqNumbers) /\ Len(after) = Len(acks)
          /\ \A k \in 1 .. Len(acks) : \E m \in 1 .. Len(acks) : after[k] = acks[m]
      BY <3>1, MovedChannel
    <3> HIDE DEF after
    <3> QED
      BY <2>1, <3>2 DEF after
  <2>4. acks = << >> => FALSE
    BY <2>1
  <2>5. InTransit' /\ Unopened'
    BY <1>1, <2>2, <2>3, <2>4 DEF SafeInv, InTransit, Unopened
  <2>6. TypeOK'
    BY <1>1, <2>2, <2>3, SafeFacts DEF TypeOK, PacketQueues
  <2> QED
    BY <1>1, <2>5, <2>6 DEF SafeInv, WindowIsARun, AckedWasReceived, Unfinished, NeverIdle
<1> QED
  BY <1>2, <1>3, <1>4 DEF Network

\* A step that changes nothing keeps the invariant.
LEMMA SafeStutter == SafeInv /\ UNCHANGED vars => SafeInv'
BY DEF vars, SafeInv, TypeOK, WindowIsARun, Unopened, InTransit, AckedWasReceived,
       Unfinished, NeverIdle

\* SafeInv is inductive, and no step asks for the chunk again.
LEMMA SafeStep == SafeInv /\ [Next]_vars => SafeInv' /\ (get # "sent" => get' # "sent")
<1> SUFFICES ASSUME SafeInv, [Next]_vars
             PROVE  SafeInv' /\ (get # "sent" => get' # "sent")
  OBVIOUS
<1>1. CASE Uploader
  <2>1. get # "sent" => get' # "sent"
    BY <1>1 DEF Uploader, ReceiveGet, IgnoreAck, ReceiveAckPacket, DieOnAck, PollNothing,
                Retransmit, SendNew, SendNothing, UploadTimeout, KeepUpload
  <2>2. SafeInv'
    BY <1>1, SafeReceiveGet, SafeIgnoreAck, SafeReceiveAck, SafeLoop, SafeRetransmit,
       SafeSendNew, SafeUploadTimeout DEF Uploader
  <2> QED
    BY <2>1, <2>2
<1>2. CASE Downloader
  <2>1. CASE ReceiveData
    BY <2>1, SafeReceiveData
  <2>2. CASE IgnoreData
    BY <2>2, SafeIgnoreData DEF IgnoreData
  <2>3. CASE DownloadTimeout
    BY <2>3, SafeDownloadTimeout DEF DownloadTimeout
  <2> QED
    BY <1>2, <2>1, <2>2, <2>3 DEF Downloader
<1>3. CASE Network
  BY <1>3, SafeNetwork DEF Network, LoseGet, ReorderData, ReorderAcks
<1>4. CASE UNCHANGED vars
  BY <1>4, SafeStutter DEF vars
<1> QED
  BY <1>1, <1>2, <1>3, <1>4 DEF Next

-------------------------------------------------------------------------------
(* What holds whatever the network does.                                     *)

\* SafeInv holds in every reachable state: type correctness, the window, the
\* buffer and what is under way stay in agreement whatever the network does.
THEOREM SafeInvHolds == Spec => []SafeInv
<1>1. Init => SafeInv
  BY SafeInit
<1>2. SafeInv /\ [Next]_vars => SafeInv'
  BY SafeStep
<1> QED
  BY <1>1, <1>2, PTL DEF Spec

\* Every variable keeps its type, sent_queue_size included, which C decrements
\* without a test (keep_track.c:305).
THEOREM TypeCorrect == Spec => []TypeOK
<1>1. SafeInv => TypeOK
  BY DEF SafeInv
<1> QED
  BY <1>1, SafeInvHolds, PTL

\* The sent queue and its counters agree whatever is lost, resent or overtaken.
THEOREM WindowHolds == Spec => []WindowIsARun
<1>1. SafeInv => WindowIsARun
  BY DEF SafeInv
<1> QED
  BY <1>1, SafeInvHolds, PTL

\* The uploader never takes for received what the downloader has not received.
THEOREM AckedHolds == Spec => []AckedWasReceived
<1>1. SafeInv => AckedWasReceived
  BY DEF SafeInv
<1> QED
  BY <1>1, SafeInvHolds, PTL

\* An open upload always has a packet whose timer can revive it.
THEOREM NeverIdleHolds == Spec => []NeverIdle
<1>1. SafeInv => NeverIdle
  BY DEF SafeInv
<1> QED
  BY <1>1, SafeInvHolds, PTL

\* No chunk is filled with the wrong bytes, so no GET is ever repeated.
THEOREM NeverRefetchedHolds == Spec => NeverRefetched
<1>1. SafeInv /\ [Next]_vars => [get # "sent" => get' # "sent"]_vars
  BY SafeStep
<1> QED
  BY <1>1, SafeInvHolds, PTL DEF Spec, NeverRefetched

-------------------------------------------------------------------------------
(* What holds over links that keep the order of packets.                     *)

\* The order of ACKs holds when both peers start.
LEMMA OrderInit == Init => OrderInv
<1> SUFFICES ASSUME Init
             PROVE  OrderInv
  OBVIOUS
<1>1. acks = << >> /\ Len(acks) = 0 /\ fault = "none" /\ ~up.active
  BY DEF Init, FreeSlot
<1> QED
  BY <1>1 DEF OrderInv, FastRetransmitFindsHead, AckOrder

\* With ACKs in order the ACK at the head of the channel is not below the window.
LEMMA OrderHead ==
    ASSUME SafeInv, OrderInv, acks # << >>, up.active
    PROVE  /\ Head(acks) \in SeqNumbers /\ Head(acks) = acks[1]
           /\ Acked(up) \in Nat /\ up.lastAck = Acked(up) /\ Acked(up) <= Head(acks)
           /\ Head(acks) <= Acked(up) + Len(up.queue)
           /\ Acked(up) < N
<1>1. Head(acks) \in SeqNumbers /\ Head(acks) = acks[1] /\ Len(acks) \in Nat \ {0}
  BY SafeFacts, ReceivedChannel
<1>2. /\ up.lastAck = Acked(up) /\ up.lastAck <= acks[1]
      /\ acks[1] <= down.last /\ down.last <= up.tail /\ Acked(up) < N
  BY <1>1 DEF OrderInv, AckOrder, SafeInv, InTransit, AckedWasReceived, Unfinished
<1>3. Acked(up) + Len(up.queue) = up.tail
  BY SafeFacts DEF Acked
<1> QED
  BY <1>1, <1>2, <1>3, SafeFacts

\* What is left on the ACK channel once the oldest one has been read.
LEMMA OrderTail ==
    ASSUME SafeInv, OrderInv, acks # << >>
    PROVE  /\ \A i, j \in 1 .. Len(Tail(acks)) : i <= j => Tail(acks)[i] <= Tail(acks)[j]
           /\ \A i \in 1 .. Len(Tail(acks)) : /\ Head(acks) <= Tail(acks)[i]
                                              /\ up.lastAck <= Tail(acks)[i]
<1> DEFINE rest == Tail(acks)
<1>1. /\ Head(acks) = acks[1] /\ Len(acks) \in Nat \ {0} /\ Len(rest) = Len(acks) - 1
      /\ \A i \in 1 .. Len(rest) : i + 1 \in 1 .. Len(acks) /\ rest[i] = acks[i + 1]
  BY SafeFacts, ReceivedChannel
<1> HIDE DEF rest
<1>2. /\ \A i, j \in 1 .. Len(acks) : i <= j => acks[i] <= acks[j]
      /\ \A i \in 1 .. Len(acks) : up.lastAck <= acks[i]
  BY DEF OrderInv, AckOrder
<1>3. \A i, j \in 1 .. Len(rest) : i <= j => rest[i] <= rest[j]
  <2> SUFFICES ASSUME NEW i \in 1 .. Len(rest), NEW j \in 1 .. Len(rest), i <= j
               PROVE  rest[i] <= rest[j]
    OBVIOUS
  <2>1. i + 1 \in 1 .. Len(acks) /\ j + 1 \in 1 .. Len(acks) /\ i + 1 <= j + 1
    BY <1>1
  <2> QED
    BY <1>1, <1>2, <2>1
<1>4. \A i \in 1 .. Len(rest) : Head(acks) <= rest[i] /\ up.lastAck <= rest[i]
  <2> SUFFICES ASSUME NEW i \in 1 .. Len(rest)
               PROVE  Head(acks) <= rest[i] /\ up.lastAck <= rest[i]
    OBVIOUS
  <2>1. 1 \in 1 .. Len(acks) /\ i + 1 \in 1 .. Len(acks) /\ 1 <= i + 1
    BY <1>1
  <2> QED
    BY <1>1, <1>2, <2>1
<1> QED
  BY <1>3, <1>4 DEF rest

\* The third duplicate finds the packet it asks for at the head of the queue.
LEMMA OrderDieOnAck == SafeInv /\ OrderInv => ~DieOnAck
<1> SUFFICES ASSUME SafeInv, OrderInv, DieOnAck
             PROVE  FALSE
  OBVIOUS
<1> DEFINE ack == Head(acks)
           rest == Unacked(up, ack)
<1>1. /\ pc = "poll" /\ acks # << >> /\ up.active
      /\ NullHead(up, ack) \/ WrongHead(up, ack)
  BY DEF DieOnAck
<1>2. ack \in SeqNumbers /\ Acked(up) \in Nat /\ up.lastAck = Acked(up)
  BY <1>1, OrderHead
<1> HIDE DEF ack
<1>3. up.lastAck = ack
  BY <1>1 DEF NullHead, WrongHead, DupCount, DUP_ACKS
<1>4. up.queue # << >> /\ up.queue \in PacketQueues /\ Run(up.queue, Acked(up))
  BY <1>1, SafeFacts, SlotTypes DEF SafeInv, NeverIdle, Window
<1>5. AckedOfRun(up.queue, Acked(up), ack) = 0
  BY <1>2, <1>3 DEF AckedOfRun
<1>6. /\ rest \in PacketQueues /\ Len(rest) = Len(up.queue) - 0
      /\ Run(rest, Acked(up) + 0)
  <2>1. ack \in Nat
    BY <1>2, <1>3
  <2> QED
    BY <1>2, <1>4, <1>5, <2>1, UnackedOfRun
<1> HIDE DEF rest
<1>7. Len(up.queue) \in Nat \ {0} /\ Len(rest) \in Nat \ {0}
  <2>1. Len(up.queue) \in Nat \ {0}
    BY <1>4, EmptySeq DEF PacketQueues
  <2> QED
    BY <1>6, <2>1
<1>8. rest # << >>
  BY <1>7
<1>9. Head(rest) = rest[1] /\ rest[1] = ack + 1
  <2>1. Head(rest) = rest[1]
    BY <1>6, <1>8, ReceivedChannel DEF PacketQueues
  <2>2. rest[1] = (Acked(up) + 0) + 1
    BY <1>6, <1>7 DEF Run
  <2> QED
    BY <1>2, <1>3, <2>1, <2>2
<1> QED
  BY <1>1, <1>8, <1>9 DEF NullHead, WrongHead, rest

\* The ACK handler: the ACK read becomes both last_ack_table and the bound of
\* what is left of the queue.
LEMMA OrderReceiveAck == SafeInv /\ OrderInv /\ ReceiveAckPacket => OrderInv'
<1> SUFFICES ASSUME SafeInv, OrderInv, ReceiveAckPacket
             PROVE  OrderInv'
  OBVIOUS
<1> DEFINE ack == Head(acks)
           r == ReceiveAck(up, ack)
<1>1. /\ up.active /\ acks # << >> /\ acks' = Tail(acks)
      /\ up' = AckedSlot(up, ack) /\ fault' = fault
  BY DEF ReceiveAckPacket
<1>2. /\ ack \in SeqNumbers /\ Acked(up) \in Nat /\ Acked(up) <= ack
      /\ ack <= Acked(up) + Len(up.queue)
  BY <1>1, OrderHead
<1>3. ack \in Nat
  BY <1>2, SizesAssumption DEF SeqNumbers
<1> HIDE DEF ack
<1>4. /\ r \in Slots /\ r.lastAck = ack
      /\ Acked(r) = Acked(up) + AckedOfRun(up.queue, Acked(up), ack)
  BY <1>1, <1>2, SafeFacts, ReceiveAckWindow
<1> HIDE DEF r
<1>5. Acked(r) = ack
  <2>1. AckedOfRun(up.queue, Acked(up), ack) = ack - Acked(up)
    <3> DEFINE base == Acked(up)
               len == Len(up.queue)
    <3>1. base \in Nat /\ len \in Nat /\ base <= ack /\ ack <= base + len
      BY <1>2, <1>3, SafeFacts
    <3>2. AckedOfRun(up.queue, base, ack) =
            IF ack <= base THEN 0 ELSE IF ack >= base + len THEN len ELSE ack - base
      BY DEF AckedOfRun
    <3> HIDE DEF base, len
    <3>3. AckedOfRun(up.queue, base, ack) = ack - base
      BY <1>3, <3>1, <3>2
    <3> QED
      BY <3>3 DEF base
  <2> HIDE DEF r
  <2> QED
    BY <1>2, <1>3, <1>4, <2>1
<1>6. up'.lastAck = ack /\ (up'.active => up' = r)
  BY <1>1, <1>4, AbortUploadWindow DEF AckedSlot, r
<1>7. up'.active => up'.lastAck = Acked(up')
  BY <1>5, <1>6
<1>8. AckOrder'
  BY <1>1, <1>6, <1>7, OrderTail DEF AckOrder, ack
<1> QED
  BY <1>1, <1>8 DEF OrderInv, FastRetransmitFindsHead

\* The DATA handler appends the largest ACK sent so far.
LEMMA OrderReceiveData == SafeInv /\ OrderInv /\ ReceiveData => OrderInv'
<1> SUFFICES ASSUME SafeInv, OrderInv, ReceiveData
             PROVE  OrderInv'
  OBVIOUS
<1> DEFINE last == TrackDataPacket(down, Head(data)).last
<1>1. /\ data # << >> /\ down.stream /\ Sent("ack", acks, acks', last)
      /\ up' = up /\ fault' = fault
  BY DEF ReceiveData
<1>2. last \in SeqNumbers /\ last \in Nat /\ down.last <= last
  <2>1. Head(data) \in Packets
    BY <1>1, SafeFacts, ReceivedChannel
  <2>2. last = IF Head(data) = down.last + 1 THEN Head(data) ELSE down.last
    BY <1>1, <2>1, SafeFacts, DataStreamBuffer
  <2> HIDE DEF last
  <2> QED
    BY <2>1, <2>2, SafeFacts, SizesAssumption DEF Packets, SeqNumbers
<1> HIDE DEF last
<1>3. /\ Len(acks') \in Nat /\ Len(acks) \in Nat
      /\ \A i \in 1 .. Len(acks') : \/ i <= Len(acks) /\ acks'[i] = acks[i]
                                    \/ i = Len(acks) + 1 /\ acks'[i] = last
  <2>1. acks \in Seq(SeqNumbers) /\ mishaps \in 0 .. MaxMishaps
    BY SafeFacts
  <2> QED
    BY <1>1, <1>2, <2>1, SentChannel
<1>4. /\ \A i \in 1 .. Len(acks) : acks[i] \in Nat /\ acks[i] <= last /\ up.lastAck <= acks[i]
      /\ up.lastAck <= last
      /\ \A i, j \in 1 .. Len(acks) : i <= j => acks[i] <= acks[j]
  <2>1. up.lastAck <= last
    BY <1>2, SafeFacts DEF SafeInv, AckedWasReceived
  <2>2. \A i \in 1 .. Len(acks) : acks[i] \in Nat /\ acks[i] <= last
    BY <1>2, SafeFacts DEF SafeInv, InTransit
  <2> QED
    BY <2>1, <2>2 DEF OrderInv, AckOrder
<1>5. \A i, j \in 1 .. Len(acks') : i <= j => acks'[i] <= acks'[j]
  <2> SUFFICES ASSUME NEW i \in 1 .. Len(acks'), NEW j \in 1 .. Len(acks'), i <= j
               PROVE  acks'[i] <= acks'[j]
    OBVIOUS
  <2>1. CASE j <= Len(acks) /\ acks'[j] = acks[j]
    BY <1>3, <1>4, <2>1
  <2>2. CASE acks'[j] = last
    <3>1. acks'[i] <= last
      BY <1>2, <1>3, <1>4
    <3> QED
      BY <2>2, <3>1
  <2> QED
    BY <1>3, <2>1, <2>2
<1>6. \A i \in 1 .. Len(acks') : up.lastAck <= acks'[i]
  BY <1>3, <1>4
<1>7. AckOrder'
  BY <1>1, <1>5, <1>6 DEF OrderInv, AckOrder
<1> QED
  BY <1>1, <1>7 DEF OrderInv, FastRetransmitFindsHead

\* The other steps leave the ACKs, or take the oldest one, and keep the bound.
LEMMA OrderOther ==
    ASSUME SafeInv, OrderInv, InOrder, [Next]_vars, ~ReceiveAckPacket, ~ReceiveData
    PROVE  OrderInv'
<1> USE DEF OrderInv, FastRetransmitFindsHead, AckOrder
<1>1. CASE ReceiveGet
  <2>1. acks = << >> /\ acks' = acks /\ fault' = fault /\ up' = StartUpload(up) /\ ~up.active
    BY <1>1 DEF ReceiveGet, SafeInv, Unopened
  <2>2. up'.lastAck = 0 /\ Acked(up') = 0
    BY <2>1, SafeFacts, StartUploadWindow
  <2> QED
    BY <2>1, <2>2
<1>2. CASE IgnoreAck
  BY <1>2, OrderTail DEF IgnoreAck
<1>3. CASE DieOnAck
  BY <1>3, OrderDieOnAck
<1>4. CASE Retransmit
  <2>1. /\ up.active /\ up' = Restamp(up) /\ acks' = acks /\ fault' = fault
    BY <1>4 DEF Retransmit, HeadExpires
  <2>2. up'.lastAck = up.lastAck /\ Acked(up') = Acked(up)
    BY <2>1, SafeFacts, RestampWindow
  <2> QED
    BY <2>1, <2>2
<1>5. CASE SendNew
  <2>1. /\ up.active /\ up.tail < N /\ up' = WaitAck(up, up.tail + 1)
        /\ acks' = acks /\ fault' = fault
    BY <1>5 DEF SendNew, RoomToSend
  <2>2. up'.lastAck = up.lastAck /\ Acked(up') = Acked(up)
    BY <2>1, SafeFacts, WaitAckWindow
  <2> QED
    BY <2>1, <2>2
<1>6. CASE UploadTimeout
  <2>1. up' = AbortUpload(up) /\ acks' = acks /\ fault' = fault
    BY <1>6 DEF UploadTimeout
  <2>2. up'.lastAck = up.lastAck /\ ~up'.active
    BY <2>1, SafeFacts, AbortUploadWindow
  <2> QED
    BY <2>1, <2>2
<1>7. CASE PollNothing \/ SendNothing \/ KeepUpload
  BY <1>7 DEF PollNothing, SendNothing, KeepUpload
<1>8. CASE IgnoreData \/ DownloadTimeout \/ LoseGet
  BY <1>8 DEF IgnoreData, DownloadTimeout, LoseGet
<1>9. CASE ReorderData \/ ReorderAcks
  BY <1>9 DEF InOrder, ReorderData, ReorderAcks, Mishap
<1>10. CASE UNCHANGED vars
  BY <1>10 DEF vars
<1> QED
  BY <1>1, <1>2, <1>3, <1>4, <1>5, <1>6, <1>7, <1>8, <1>9, <1>10
  DEF Next, Uploader, Downloader, Network

\* Over links that keep the order of packets the uploader never ends in the
\* ERROR branch of receive_ack (keep_track.c:315-320), nor on a NULL head.
THEOREM FastRetransmitHolds ==
    ASSUME InOrder
    PROVE  Spec => []FastRetransmitFindsHead
<1>1. Init => SafeInv /\ OrderInv
  BY SafeInit, OrderInit
<1>2. (SafeInv /\ OrderInv) /\ [Next]_vars => (SafeInv /\ OrderInv)'
  BY SafeStep, OrderReceiveAck, OrderReceiveData, OrderOther
<1>3. SafeInv /\ OrderInv => FastRetransmitFindsHead
  BY DEF OrderInv
<1> QED
  BY <1>1, <1>2, <1>3, PTL DEF Spec

\* With FifoInv the whole of what is known over such links: it is inductive.
THEOREM FifoInvHolds ==
    ASSUME InOrder
    PROVE  Spec => []FifoInv
<1>1. Init => FifoInv
  BY SafeInit, OrderInit DEF FifoInv
<1>2. FifoInv /\ [Next]_vars => FifoInv'
  BY SafeStep, OrderReceiveAck, OrderReceiveData, OrderOther DEF FifoInv
<1> QED
  BY <1>1, <1>2, PTL DEF Spec

-------------------------------------------------------------------------------
(* Overruns of the chunk's buffer.                                           *)

\* Only the DATA handler and the crash handling touch the stream; the first
\* overruns the buffer on a repeated packet only, the second never does.
LEMMA OverrunStep ==
    ASSUME SafeInv, Marked(down), [Next]_vars
    PROVE  /\ Marked(down')
           /\ down'.overrun /\ ~down.overrun
              => down'.last = down.last \/ Len(down.saved) > down.last
<1>1. CASE ReceiveData
  <2> DEFINE seq == Head(data)
             next == DataStream(down, seq)
  <2>1. /\ data # << >> /\ down.stream
        /\ down' = IF next.chunk = "NOT_STARTED" THEN StartDownload ELSE next
    BY <1>1 DEF ReceiveData
  <2>2. seq \in Packets
    BY <2>1, SafeFacts, ReceivedChannel
  <2>3. next.chunk # "NOT_STARTED"
    BY <2>1, <2>2, SafeFacts, DataStreamBuffer
  <2>4. down' = next
    BY <2>1, <2>3
  <2> QED
    BY <2>1, <2>2, <2>4, SafeFacts, DataStreamOverrun
<1>2. CASE DownloadTimeout
  <2>1. down' = CrashDownload(down) /\ down \in Streams
    BY <1>2, SafeFacts DEF DownloadTimeout
  <2>2. down'.bytes = 0 /\ down'.overrun = down.overrun
    BY <2>1 DEF CrashDownload, Streams
  <2>3. 0 # BT_CHUNK_SIZE + 1
    BY PacketsInChunk, SizesAssumption
  <2> QED
    BY <2>2, <2>3 DEF Marked
<1>3. CASE UNCHANGED down
  BY <1>3
<1> QED
  BY <1>1, <1>2, <1>3
  DEF Next, Uploader, Downloader, Network, vars, ReceiveGet, IgnoreAck, ReceiveAckPacket,
      DieOnAck, PollNothing, Retransmit, SendNew, SendNothing, UploadTimeout, KeepUpload,
      IgnoreData, LoseGet, ReorderData, ReorderAcks

\* The chunk's buffer is overrun (util.c:275) only where a packet is saved twice:
\* whatever the sizes of chunk and packets, they fit exactly otherwise.
THEOREM OverrunNeedsRepeatHolds == Spec => OverrunNeedsRepeat
<1>1. Init => SafeInv /\ Marked(down)
  <2>1. 0 # BT_CHUNK_SIZE + 1
    BY PacketsInChunk, SizesAssumption
  <2> QED
    BY <2>1, SafeInit DEF Init, StartDownload, Marked
<1>2. (SafeInv /\ Marked(down)) /\ [Next]_vars => (SafeInv /\ Marked(down))'
  BY SafeStep, OverrunStep
<1>3. SafeInv /\ Marked(down) /\ [Next]_vars
      => [down'.overrun /\ ~down.overrun
          => down'.last = down.last \/ Len(down.saved) > down.last]_vars
  BY OverrunStep
<1> QED
  BY <1>1, <1>2, <1>3, PTL DEF Spec, OverrunNeedsRepeat
================================================================================
