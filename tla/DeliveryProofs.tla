---------------------------- MODULE DeliveryProofs ----------------------------
(***************************************************************************)
(* Over links that keep the order of packets the transfer implements       *)
(* ChunkDelivery: every step of Transfer is a step of the abstract         *)
(* specification, or leaves its three variables alone.                     *)
(***************************************************************************)
EXTENDS TransferProofs

\* The session as the refinement mapping of Transfer defines it.
Session == IF get # "accepted" THEN "none"
           ELSE IF up.active THEN "open"
           ELSE IF up.lastAck = N THEN "done" ELSE "abandoned"

\* Steps that change none of the three abstract variables.
LEMMA DeliveryStutter ==
    ASSUME down'.last = down.last, up'.lastAck = up.lastAck, Session' = Session
    PROVE  UNCHANGED Delivery!vars
BY DEF Delivery!vars, Session

\* Reading an ACK is Learn: the sender learns no more than the receiver has.
LEMMA DeliveryLearn == SafeInv /\ OrderInv /\ ReceiveAckPacket => Delivery!Learn
<1> SUFFICES ASSUME SafeInv, OrderInv, ReceiveAckPacket
             PROVE  Delivery!Learn
  OBVIOUS
<1> DEFINE ack == Head(acks)
           r == ReceiveAck(up, ack)
<1>1. /\ up.active /\ acks # << >> /\ up' = AckedSlot(up, ack) /\ down' = down /\ get' = get
  BY DEF ReceiveAckPacket
<1>2. /\ ack \in SeqNumbers /\ up.lastAck <= ack /\ ack = acks[1] /\ Len(acks) \in Nat \ {0}
  BY <1>1, OrderHead, SafeFacts, ReceivedChannel
<1>3. ack <= down.last /\ get = "accepted"
  BY <1>1, <1>2, SafeFacts DEF SafeInv, InTransit, Unopened
<1> HIDE DEF ack
<1>4. r \in Slots /\ r.lastAck = ack /\ r.active
  BY <1>1, <1>2, SafeFacts, ReceiveAckWindow
<1> HIDE DEF r
<1>5. up'.lastAck = ack /\ (ack = N => ~up'.active) /\ (ack # N => up'.active)
  BY <1>1, <1>4, AbortUploadWindow DEF AckedSlot, r
<1>6. ack \in up.lastAck .. down.last
  BY <1>2, <1>3, SafeFacts DEF SeqNumbers
<1> QED
  BY <1>1, <1>3, <1>5, <1>6 DEF Delivery!Learn

\* A DATA packet is delivered when it is the next one, and ignored otherwise.
LEMMA DeliveryDeliver ==
    SafeInv /\ ReceiveData => Delivery!Deliver \/ UNCHANGED Delivery!vars
<1> SUFFICES ASSUME SafeInv, ReceiveData
             PROVE  Delivery!Deliver \/ UNCHANGED Delivery!vars
  OBVIOUS
<1> DEFINE seq == Head(data)
           next == DataStream(down, seq)
           last == TrackDataPacket(down, seq).last
<1>1. /\ data # << >> /\ down.stream /\ up' = up
      /\ down' = IF next.chunk = "NOT_STARTED" THEN StartDownload ELSE next
      /\ get'  = IF next.chunk = "NOT_STARTED" THEN "sent" ELSE get
  BY DEF ReceiveData
<1>2. seq \in Packets
  BY <1>1, SafeFacts, ReceivedChannel
<1>3. /\ next.chunk # "NOT_STARTED" /\ next.last = last
      /\ last = IF seq = down.last + 1 THEN seq ELSE down.last
  BY <1>1, <1>2, SafeFacts, DataStreamBuffer
<1> HIDE DEF seq, next, last
<1>4. get = "accepted" /\ get' = get /\ down'.last = last
  BY <1>1, <1>3 DEF SafeInv, Unopened
<1>5. CASE seq = down.last + 1
  <2>1. down.last < N /\ last = down.last + 1
    BY <1>2, <1>3, <1>5, SafeFacts, SizesAssumption DEF Packets
  <2> QED
    BY <1>1, <1>4, <2>1 DEF Delivery!Deliver
<1>6. CASE seq # down.last + 1
  BY <1>1, <1>3, <1>4, <1>6, DeliveryStutter DEF Session
<1> QED
  BY <1>5, <1>6

\* Every step of the transfer is a step of ChunkDelivery or leaves it alone.
LEMMA DeliveryStep ==
    ASSUME SafeInv, OrderInv, InOrder, [Next]_vars
    PROVE  [Delivery!Next]_(Delivery!vars)
<1>1. CASE ReceiveGet
  <2>1. /\ get = "sent" /\ get' = "accepted" /\ up' = StartUpload(up) /\ down' = down
        /\ ~up.active /\ up.lastAck = 0
    BY <1>1 DEF ReceiveGet, SafeInv, Unopened
  <2>2. up'.active /\ up'.lastAck = 0
    BY <2>1, SafeFacts, StartUploadWindow
  <2> QED
    BY <2>1, <2>2 DEF Delivery!Next, Delivery!Open
<1>2. CASE ReceiveAckPacket
  BY <1>2, DeliveryLearn DEF Delivery!Next
<1>3. CASE UploadTimeout
  <2>1. /\ up.active /\ up' = AbortUpload(up) /\ down' = down /\ get' = get
        /\ get = "accepted" /\ up.lastAck # N
    <3>1. up.active => up.lastAck < N /\ get = "accepted"
      BY SafeFacts DEF SafeInv, OrderInv, AckOrder, Unfinished, Unopened
    <3> QED
      BY <1>3, <3>1, SizesAssumption DEF UploadTimeout
  <2>2. ~up'.active /\ up'.lastAck = up.lastAck
    BY <2>1, SafeFacts, AbortUploadWindow
  <2> QED
    BY <2>1, <2>2 DEF Delivery!Next, Delivery!Abandon
<1>4. CASE ReceiveData
  BY <1>4, DeliveryDeliver DEF Delivery!Next
<1>5. CASE Retransmit
  <2>1. up' = Restamp(up) /\ down' = down /\ get' = get
    BY <1>5 DEF Retransmit
  <2>2. up'.lastAck = up.lastAck /\ up'.active = up.active
    BY <2>1, SafeFacts, RestampWindow
  <2> QED
    BY <2>1, <2>2, DeliveryStutter DEF Session
<1>6. CASE SendNew
  <2>1. /\ up.active /\ up.tail < N /\ up' = WaitAck(up, up.tail + 1)
        /\ down' = down /\ get' = get
    BY <1>6 DEF SendNew, RoomToSend
  <2>2. up'.lastAck = up.lastAck /\ up'.active
    BY <2>1, SafeFacts, WaitAckWindow
  <2> QED
    BY <2>1, <2>2, DeliveryStutter DEF Session
<1>7. CASE DownloadTimeout
  <2>1. down' = CrashDownload(down) /\ up' = up /\ get' = get
    BY <1>7 DEF DownloadTimeout
  <2>2. down'.last = down.last
    BY <2>1, SafeFacts, CrashDownloadBuffer
  <2> QED
    BY <2>1, <2>2, DeliveryStutter DEF Session
<1>8. CASE LoseGet
  BY <1>8, DeliveryStutter DEF LoseGet, Session
<1>9. CASE DieOnAck \/ ReorderData \/ ReorderAcks
  BY <1>9, OrderDieOnAck DEF InOrder, ReorderData, ReorderAcks, Mishap
<1>10. CASE PollNothing \/ SendNothing \/ KeepUpload \/ IgnoreAck \/ IgnoreData
  BY <1>10, DeliveryStutter
  DEF PollNothing, SendNothing, KeepUpload, IgnoreAck, IgnoreData, Session
<1>11. CASE UNCHANGED vars
  BY <1>11, DeliveryStutter DEF vars, Session
<1> QED
  BY <1>1, <1>2, <1>3, <1>4, <1>5, <1>6, <1>7, <1>8, <1>9, <1>10, <1>11
  DEF Next, Uploader, Downloader, Network

\* The uploader and the downloader of a chunk, with every loss, retransmission
\* and timeout, deliver it in order to a sender that never believes in a packet
\* too early and never gives up a chunk it knows to be delivered.
THEOREM TransferImplementsDelivery ==
    ASSUME InOrder
    PROVE  Spec => ImplementsDelivery
<1>1. Init => Delivery!Init
  BY DEF Init, FreeSlot, StartDownload, Delivery!Init
<1>2. Init => SafeInv /\ OrderInv
  BY SafeInit, OrderInit
<1>3. (SafeInv /\ OrderInv) /\ [Next]_vars => (SafeInv /\ OrderInv)'
  BY SafeStep, OrderReceiveAck, OrderReceiveData, OrderOther
<1>4. (SafeInv /\ OrderInv) /\ [Next]_vars => [Delivery!Next]_(Delivery!vars)
  BY DeliveryStep
<1> QED
  BY <1>1, <1>2, <1>3, <1>4, PTL DEF Spec, ImplementsDelivery, Delivery!Spec
================================================================================
